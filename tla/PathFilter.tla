------------------------------ MODULE PathFilter ------------------------------
(***************************************************************************)
(* is_relevant_path() and is_junk_name() of config/watch.rs.  A file name  *)
(* is what the filters look at: the name as a whole (id), the mark of an   *)
(* editor's or temporary file, the extension, and the suffixes it ends in. *)
(***************************************************************************)
NoName == "none"  \* the path ends in "..", or is not UTF-8

Name(id, mark, ext, suffixes) ==
  [id |-> id, mark |-> mark, ext |-> ext, suffixes |-> suffixes]

\* enum PathFilter
Basename(want) == [type |-> "Basename", want |-> want]
AnyOf(extensions, extra, ignore) ==
  [type |-> "Any", extensions |-> extensions, extra_names |-> extra,
   ignore_suffixes |-> ignore]

\* a leading dot, a trailing "~", ".swp" or ".tmp"
IsJunkName(name) == name.mark # "plain"

\* Mutant: the names of editors' files are let through.
RelevantWithJunk(name, filter) ==
  /\ name.id # NoName
  /\ CASE filter.type = "Basename" -> name.id = filter.want
       [] filter.type = "Any" ->
            /\ name.suffixes \cap filter.ignore_suffixes = {}
            /\ \/ name.id \in filter.extra_names
               \/ filter.extensions = {}
               \/ name.ext \in filter.extensions

\* Junk is refused before the filter is asked, whatever the filter wants.
IsRelevantPath(name, filter) ==
  /\ name.id # NoName /\ ~IsJunkName(name)
  /\ CASE filter.type = "Basename" -> name.id = filter.want
       [] filter.type = "Any" ->
            /\ name.suffixes \cap filter.ignore_suffixes = {}
            /\ \/ name.id \in filter.extra_names
               \/ filter.extensions = {}
               \/ name.ext \in filter.extensions
=============================================================================
