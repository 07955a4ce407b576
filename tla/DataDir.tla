------------------------------- MODULE DataDir -------------------------------
(***************************************************************************)
(* The data root of datadir.rs.  One thread resolves a DataDir, reading    *)
(* the environment one variable at a time, while others call set_root().   *)
(*                                                                         *)
(* A path is absolute or not and has components, each a name with its      *)
(* extension.  The empty string is the relative path without components.   *)
(* utf8 says whether the text of the variable is UTF-8, which env::var()   *)
(* asks for and env::var_os() does not.                                    *)
(***************************************************************************)
EXTENDS Naturals, Sequences, SequencesExt

CONSTANTS Paths,   \* values the variables may have
          Daemons  \* names of daemons: single components

Unset == [abs |-> FALSE, parts |-> <<<<"unset", "">>>>, utf8 |-> FALSE]

DefaultRoot == [abs |-> TRUE, parts |-> <<<<"data", "">>>>, utf8 |-> TRUE]

ASSUME ConstAssumption ==
  /\ Paths \subseteq [abs : BOOLEAN, parts : Seq(STRING \X STRING), utf8 : BOOLEAN]
  /\ Unset \notin Paths /\ Daemons \subseteq STRING

Vars     == {"BIGFRED_DATA_DIR", "DATA_DIR"}
Policies == {"DataDir", "BigfredThenDataDir"}
Rules    == {"AbsoluteOnly", "AcceptAny"}

VARIABLES env,     \* the process environment
          policy, rule,  \* of the resolution that is going on, or the last
          step,    \* "idle", "first", "second" or "done"
          root,    \* the root of the snapshot, when done
          last,    \* the last absolute path set_root() was given (history)
          since,   \* that and its successors since the resolution began (history)
          seen     \* what resolving in one instant gave since then (history)

vars == <<env, policy, rule, step, root, last, since, seen>>

\* ------------------------------- operators --------------------------------
IsEmpty(value) == ~value.abs /\ value.parts = <<>>

\* Mutant: a relative value is accepted.
FromEnvRelative(value, how) ==
  IF value = Unset \/ (how = "AcceptAny" /\ ~value.utf8) THEN Unset ELSE value

\* from_env(); Unset stands for None
FromEnv(value, how) ==
  CASE how = "AbsoluteOnly" ->
         IF value # Unset /\ ~IsEmpty(value) /\ value.abs THEN value ELSE Unset
    [] how = "AcceptAny" ->
         IF value # Unset /\ value.utf8 THEN value ELSE Unset

\* PathBuf::push(): an absolute path replaces what is there
PushPath(path, part) ==
  IF part.abs THEN part ELSE [path EXCEPT !.parts = @ \o part.parts]

\* a name as daemons give it: one relative component (one that begins with "/"
\* would replace the root in the push)
Relative(name, ext) ==
  [abs |-> FALSE, parts |-> <<<<name, ext>>>>, utf8 |-> TRUE]

\* DataDir::join() and path()
Join(dir, parts) ==
  LET out[i \in 0 .. Len(parts)] ==
        IF i = 0 THEN dir ELSE PushPath(out[i - 1], parts[i])
  IN  out[Len(parts)]

EtcFile(dir, name, ext) == Join(dir, <<Relative("etc", ""), Relative(name, ext)>>)
EtcDir(dir, name) == Join(dir, <<Relative("etc", ""), Relative(name, "")>>)
RunSocket(dir, name) == Join(dir, <<Relative("run", ""), Relative(name, "sock")>>)
RunNestedSocket(dir, name) ==
  Join(dir, <<Relative("run", ""), Relative(name, ""), Relative(name, "sock")>>)

\* The reference: of the variables that the policy names the first that has
\* a value to the rule's liking, else /data.
Usable(path, how) ==
  /\ path \in Paths
  /\ how = "AbsoluteOnly" => path.abs
  /\ how = "AcceptAny" => path.utf8

RootIn(e, which, how) ==
  CASE which = "BigfredThenDataDir" /\ Usable(e["BIGFRED_DATA_DIR"], how) ->
         e["BIGFRED_DATA_DIR"]
    [] ~(which = "BigfredThenDataDir" /\ Usable(e["BIGFRED_DATA_DIR"], how)) ->
         IF Usable(e["DATA_DIR"], how) THEN e["DATA_DIR"] ELSE DefaultRoot

-----------------------------------------------------------------------------
Init ==
  /\ env \in [Vars -> Paths \cup {Unset}]
  /\ policy \in Policies /\ rule \in Rules
  /\ step = "idle" /\ root = DefaultRoot
  /\ last = Unset /\ since = {} /\ seen = {}

\* DataDir::resolve() is called; root() is the call with DataDir, AbsoluteOnly
Resolve(which, how) ==
  /\ step \in {"idle", "done"}
  /\ policy' = which /\ rule' = how
  /\ step' = IF which = "DataDir" THEN "second" ELSE "first"
  /\ since' = {last}
  /\ seen' = {RootIn(env, which, how)}
  /\ UNCHANGED <<env, root, last>>

Return(dir) == step' = "done" /\ root' = dir

\* Mutant: DATA_DIR is asked for twice.
ReadBigfredWrong ==
  /\ step = "first"
  /\ LET p == FromEnv(env["DATA_DIR"], rule)
     IN  IF p # Unset THEN Return(p) ELSE step' = "second" /\ UNCHANGED root
  /\ UNCHANGED <<env, policy, rule, last, since, seen>>

\* resolve_root(): BIGFRED_DATA_DIR
ReadBigfred ==
  /\ step = "first"
  /\ LET p == FromEnv(env["BIGFRED_DATA_DIR"], rule)
     IN  IF p # Unset THEN Return(p) ELSE step' = "second" /\ UNCHANGED root
  /\ UNCHANGED <<env, policy, rule, last, since, seen>>

\* Mutant: the default is forgotten.
ReadDataDirOnly ==
  /\ step = "second"
  /\ Return(FromEnv(env["DATA_DIR"], rule))
  /\ UNCHANGED <<env, policy, rule, last, since, seen>>

\* resolve_root(): DATA_DIR, then the default
ReadDataDir ==
  /\ step = "second"
  /\ LET p == FromEnv(env["DATA_DIR"], rule)
     IN  Return(IF p # Unset THEN p ELSE DefaultRoot)
  /\ UNCHANGED <<env, policy, rule, last, since, seen>>

\* Mutant: relative paths are stored too.
SetRootAny(path) ==
  /\ path # Unset
  /\ env' = [env EXCEPT !["DATA_DIR"] = path]
  /\ last' = IF path.abs THEN path ELSE last
  /\ since' = since \cup {last'}
  /\ seen' = seen \cup {RootIn(env', policy, rule)}
  /\ UNCHANGED <<policy, rule, step, root>>

\* set_root() by some thread: a relative path is ignored
SetRoot(path) ==
  /\ path.abs
  /\ env' = [env EXCEPT !["DATA_DIR"] = path]
  /\ last' = path
  /\ since' = since \cup {last'}
  /\ seen' = seen \cup {RootIn(env', policy, rule)}
  /\ UNCHANGED <<policy, rule, step, root>>

Next ==
  \/ \E which \in Policies, how \in Rules : Resolve(which, how)
  \/ ReadBigfred \/ ReadDataDir
  \/ \E path \in Paths : SetRoot(path)

Spec == Init /\ [][Next]_vars

-----------------------------------------------------------------------------
\* Type invariant; a root is never the absence of one.
TypeOK ==
  /\ env \in [Vars -> Paths \cup {Unset}]
  /\ policy \in Policies /\ rule \in Rules
  /\ step \in {"idle", "first", "second", "done"}
  /\ root \in Paths \cup {DefaultRoot}
  /\ last \in Paths \cup {Unset} /\ since \subseteq Paths \cup {Unset}
  /\ seen \subseteq Paths \cup {DefaultRoot}

\* The two reads of resolve_root() with a set_root() between them give what
\* resolving at one moment of the call would have given.
RootOfOneMoment == step = "done" => root \in seen

\* "cannot silently redirect under cwd" (PathRule::AbsoluteOnly): neither the
\* root nor a file, directory or socket that a daemon derives from it, by a
\* name that is a single relative component, is relative or outside the root.
NeverUnderCwd ==
  step = "done" /\ rule = "AbsoluteOnly" =>
    \A name \in Daemons :
      \A p \in {root, EtcFile(root, name, "json"), EtcDir(root, name),
                RunSocket(root, name), RunNestedSocket(root, name)} :
        p.abs /\ IsPrefix(root.parts, p.parts)

\* Once set_root() was given an absolute path every resolution by DATA_DIR
\* that begins later gives it, or one that replaced it during the call,
\* whatever else set_root() is given in vain.  (Under AcceptAny a path that is
\* not UTF-8 is passed over.)
SetRootSticks ==
  step = "done" /\ policy = "DataDir" /\ Unset \notin since =>
    \/ root \in since
    \/ rule = "AcceptAny" /\ \E p \in since : ~p.utf8
=============================================================================
