------------------------------ MODULE MCDataDir ------------------------------
EXTENDS DataDir

\* nothing, a relative path, "/", an absolute path and one that is not UTF-8
MCPaths == {
  [abs |-> FALSE, parts |-> <<>>, utf8 |-> TRUE],
  [abs |-> FALSE, parts |-> <<<<"rel", "">>>>, utf8 |-> TRUE],
  [abs |-> TRUE, parts |-> <<>>, utf8 |-> TRUE],
  [abs |-> TRUE, parts |-> <<<<"mnt", "">>, <<"hub", "">>>>, utf8 |-> TRUE],
  [abs |-> TRUE, parts |-> <<<<"latin1", "">>>>, utf8 |-> FALSE]}
=============================================================================
