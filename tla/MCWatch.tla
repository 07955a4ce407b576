------------------------------- MODULE MCWatch -------------------------------
(***************************************************************************)
(* A file "hosts", a second file given by its bare name, a directory       *)
(* watched non-recursively and a tree of drop-ins.                         *)
(***************************************************************************)
EXTENDS ConfigWatch

hosts  == Name("hosts", "plain", "none", {})
hidden == Name(".loco.json", "leading dot", "json", {})
dropin == Name("loco.json", "plain", "json", {})
sample == Name("loco.local.json", "plain", "json", {"local.json"})
dirname == Name("micro.d", "plain", "d", {})

MCNames == {hosts, hidden, dropin, sample}

MCFilter == [s \in Specs |->
  IF s \in Files THEN Basename("hosts")
  ELSE AnyOf({"json"}, IF s \in Dirs THEN {"micro.d"} ELSE {}, {"local.json"})]

MCDirName == [s \in Specs |-> dirname]

MCConcerns == [s \in Specs |->
  CASE s \in Files -> {hosts}
    [] s \in Dirs  -> {dropin, dirname}
    [] s \in Trees -> {dropin}]
=============================================================================
