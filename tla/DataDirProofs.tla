---------------------------- MODULE DataDirProofs ----------------------------
(***************************************************************************)
(* Proofs about DataDir for every set of paths and daemons.                *)
(***************************************************************************)
EXTENDS DataDir, TLAPS

-----------------------------------------------------------------------------
(***************************************************************************)
(* Inductive invariants.                                                   *)
(***************************************************************************)

\* What resolving at once would give now is on record; the first read of
\* resolve_root() stays right, because set_root() writes the other variable.
MomentInv ==
  /\ step = "first" => policy = "BigfredThenDataDir"
  /\ step # "idle" => RootIn(env, policy, rule) \in seen
  /\ step = "second" /\ policy = "BigfredThenDataDir" =>
       ~Usable(env["BIGFRED_DATA_DIR"], rule)
  /\ step = "done" => root \in seen

\* A root found under AbsoluteOnly is absolute.
AbsoluteInv == step = "done" /\ rule = "AbsoluteOnly" => root.abs

\* DATA_DIR is what set_root() stored last, and that is on record.
StickInv ==
  /\ step = "first" => policy = "BigfredThenDataDir"
  /\ last # Unset => last.abs /\ env["DATA_DIR"] = last
  /\ step # "idle" => last \in since
  /\ SetRootSticks

-----------------------------------------------------------------------------
(***************************************************************************)
(* Operators.                                                              *)
(***************************************************************************)

\* Names and extensions of components; the literals are named because the
\* provers do not know a literal for a STRING.
Words == STRING \cup {"", "data", "etc", "run", "json", "sock"}

PathSet == [abs : BOOLEAN, parts : Seq(Words \X Words), utf8 : BOOLEAN]

\* A path is a record of its parts; Unset is no path.
LEMMA PathType ==
  ASSUME NEW p \in Paths \cup {DefaultRoot}
  PROVE  p \in PathSet
<1>1. CASE p \in Paths
  <2>1. p \in [abs : BOOLEAN, parts : Seq(STRING \X STRING), utf8 : BOOLEAN]
    BY <1>1, ConstAssumption
  <2>2. STRING \X STRING \subseteq Words \X Words
    BY DEF Words
  <2>3. p.parts \in Seq(Words \X Words)
    BY <2>1, <2>2
  <2> QED
    BY <2>1, <2>3 DEF PathSet
<1>2. CASE p = DefaultRoot
  <2>1. <<"data", "">> \in Words \X Words
    BY DEF Words
  <2>2. <<<<"data", "">>>> \in Seq(Words \X Words)
    <3>1. \A x \in Words \X Words : <<x>> \in Seq(Words \X Words)
      OBVIOUS
    <3> QED
      BY <2>1, <3>1, Zenon
  <2> QED
    BY <1>2, <2>2 DEF DefaultRoot, PathSet
<1> QED
  BY <1>1, <1>2

\* from_env() accepts a variable's value exactly when the reference says it is
\* usable, and returns it unchanged.
LEMMA FromEnvUsable ==
  ASSUME NEW value \in Paths \cup {Unset}, NEW how \in Rules
  PROVE  FromEnv(value, how) = IF Usable(value, how) THEN value ELSE Unset
<1>1. CASE value = Unset
  BY <1>1, ConstAssumption DEF FromEnv, Usable, Rules
<1>2. CASE value # Unset
  BY <1>2, ConstAssumption DEF FromEnv, Usable, Rules, IsEmpty
<1> QED
  BY <1>1, <1>2

\* Joining two parts is two pushes.
LEMMA JoinTwo ==
  ASSUME NEW dir, NEW parts, Len(parts) = 2
  PROVE  Join(dir, parts) = PushPath(PushPath(dir, parts[1]), parts[2])
<1> DEFINE Good(f) == f = [i \in 0 .. Len(parts) |->
                            IF i = 0 THEN dir ELSE PushPath(f[i - 1], parts[i])]
           g == [i \in 0 .. 2 |->
                   IF i = 0 THEN dir
                   ELSE IF i = 1 THEN PushPath(dir, parts[1])
                   ELSE PushPath(PushPath(dir, parts[1]), parts[2])]
           f == CHOOSE f : Good(f)
<1>1. Good(g)
  OBVIOUS
<1>2. Good(f)
  <2> HIDE DEF Good, g
  <2> QED
    BY <1>1
<1> HIDE DEF f
<1>3. f[0] = dir /\ f[1] = PushPath(f[0], parts[1]) /\ f[2] = PushPath(f[1], parts[2])
  BY <1>2
<1>4. Join(dir, parts) = f[2]
  BY DEF Join, f
<1> QED
  BY <1>3, <1>4

\* Joining three parts is three pushes.
LEMMA JoinThree ==
  ASSUME NEW dir, NEW parts, Len(parts) = 3
  PROVE  Join(dir, parts)
           = PushPath(PushPath(PushPath(dir, parts[1]), parts[2]), parts[3])
<1> DEFINE Good(f) == f = [i \in 0 .. Len(parts) |->
                            IF i = 0 THEN dir ELSE PushPath(f[i - 1], parts[i])]
           g == [i \in 0 .. 3 |->
                   IF i = 0 THEN dir
                   ELSE IF i = 1 THEN PushPath(dir, parts[1])
                   ELSE IF i = 2 THEN PushPath(PushPath(dir, parts[1]), parts[2])
                   ELSE PushPath(PushPath(PushPath(dir, parts[1]), parts[2]), parts[3])]
           f == CHOOSE f : Good(f)
<1>1. Good(g)
  OBVIOUS
<1>2. Good(f)
  <2> HIDE DEF Good, g
  <2> QED
    BY <1>1
<1> HIDE DEF f
<1>3. /\ f[0] = dir
      /\ f[1] = PushPath(f[0], parts[1])
      /\ f[2] = PushPath(f[1], parts[2])
      /\ f[3] = PushPath(f[2], parts[3])
  BY <1>2
<1>4. Join(dir, parts) = f[3]
  BY DEF Join, f
<1> QED
  BY <1>3, <1>4

\* PathBuf::push() of a relative name stays under the path and is absolute
\* if the path is.
LEMMA PushUnder ==
  ASSUME NEW s \in Seq(Words \X Words), NEW name \in Words, NEW ext \in Words,
         NEW p \in PathSet, IsPrefix(s, p.parts)
  PROVE  LET q == PushPath(p, Relative(name, ext)) IN
         /\ q \in PathSet
         /\ q.abs = p.abs
         /\ IsPrefix(s, q.parts)
<1> USE DEF PathSet
<1> DEFINE part == <<<<name, ext>>>>
           q == PushPath(p, Relative(name, ext))
<1>1. part \in Seq(Words \X Words)
  OBVIOUS
<1> HIDE DEF part
<1>2. q = [p EXCEPT !.parts = @ \o part]
  BY DEF PushPath, Relative, part
<1>3. /\ p.parts \in Seq(Words \X Words)
      /\ p.parts \o part \in Seq(Words \X Words)
  BY <1>1
<1>4. q.parts = p.parts \o part /\ q.abs = p.abs /\ q.utf8 = p.utf8
  BY <1>2
<1>5. IsPrefix(s, p.parts \o part)
  BY <1>1, <1>3 DEF IsPrefix
<1> QED
  BY <1>2, <1>3, <1>4, <1>5

-----------------------------------------------------------------------------
\* Every step of resolve() and set_root() keeps the types: resolve_root()
\* never ends without a root.
LEMMA TypeStep == TypeOK /\ [Next]_vars => TypeOK'
<1> SUFFICES ASSUME TypeOK, [Next]_vars PROVE TypeOK'
  OBVIOUS
<1> USE DEF TypeOK, Vars, Policies, Rules
<1>0. ASSUME NEW e \in [Vars -> Paths \cup {Unset}],
             NEW which \in Policies, NEW how \in Rules
      PROVE  RootIn(e, which, how) \in Paths \cup {DefaultRoot}
  BY DEF RootIn, Usable
<1>1. ASSUME NEW which \in Policies, NEW how \in Rules, Resolve(which, how)
      PROVE  TypeOK'
  BY <1>0, <1>1 DEF Resolve
<1>2. CASE ReadBigfred
  BY <1>2, FromEnvUsable DEF ReadBigfred, Return, Usable
<1>3. CASE ReadDataDir
  BY <1>3, FromEnvUsable DEF ReadDataDir, Return, Usable
<1>4. ASSUME NEW path \in Paths, SetRoot(path) PROVE TypeOK'
  BY <1>0, <1>4 DEF SetRoot
<1>5. CASE UNCHANGED vars
  BY <1>5 DEF vars
<1> QED
  BY <1>1, <1>2, <1>3, <1>4, <1>5 DEF Next

\* Type correctness of datadir.rs; a resolution always ends with a root.
THEOREM TypeCorrect == Spec => []TypeOK
<1>1. Init => TypeOK
  BY DEF Init, TypeOK
<1> QED
  BY <1>1, TypeStep, PTL DEF Spec

\* Every step keeps MomentInv.
LEMMA MomentStep == TypeOK /\ MomentInv /\ [Next]_vars => MomentInv'
<1> SUFFICES ASSUME TypeOK, MomentInv, [Next]_vars PROVE MomentInv'
  OBVIOUS
<1> USE DEF TypeOK, MomentInv, Vars, Policies, Rules
<1>1. ASSUME NEW which \in Policies, NEW how \in Rules, Resolve(which, how)
      PROVE  MomentInv'
  BY <1>1 DEF Resolve
<1>2. CASE ReadBigfred
  BY <1>2, FromEnvUsable, ConstAssumption DEF ReadBigfred, Return, RootIn, Usable
<1>3. CASE ReadDataDir
  BY <1>3, FromEnvUsable, ConstAssumption DEF ReadDataDir, Return, RootIn, Usable
<1>4. ASSUME NEW path \in Paths, SetRoot(path) PROVE MomentInv'
  BY <1>4 DEF SetRoot, Usable
<1>5. CASE UNCHANGED vars
  BY <1>5 DEF vars
<1> QED
  BY <1>1, <1>2, <1>3, <1>4, <1>5 DEF Next

\* resolve_root() reads two variables in two steps and still returns what one
\* moment of the call would have given, however often set_root() is called in
\* between and whatever it is given.
THEOREM MomentCorrect == Spec => []RootOfOneMoment
<1>1. Init => MomentInv
  BY DEF Init, MomentInv
<1>2. MomentInv => RootOfOneMoment
  BY DEF MomentInv, RootOfOneMoment
<1> QED
  BY <1>1, <1>2, MomentStep, TypeCorrect, PTL DEF Spec

\* Every step keeps AbsoluteInv: from_env() returns absolute paths only, and
\* the default is one.
LEMMA AbsoluteStep == TypeOK /\ AbsoluteInv /\ [Next]_vars => AbsoluteInv'
<1> SUFFICES ASSUME TypeOK, AbsoluteInv, [Next]_vars PROVE AbsoluteInv'
  OBVIOUS
<1> USE DEF TypeOK, AbsoluteInv, Vars, Rules
<1>1. ASSUME NEW which \in Policies, NEW how \in Rules, Resolve(which, how)
      PROVE  AbsoluteInv'
  BY <1>1 DEF Resolve
<1>2. CASE ReadBigfred
  BY <1>2, FromEnvUsable DEF ReadBigfred, Return, Usable
<1>3. CASE ReadDataDir
  BY <1>3, FromEnvUsable DEF ReadDataDir, Return, Usable, DefaultRoot
<1>4. ASSUME NEW path \in Paths, SetRoot(path) PROVE AbsoluteInv'
  BY <1>4 DEF SetRoot
<1>5. CASE UNCHANGED vars
  BY <1>5 DEF vars
<1> QED
  BY <1>1, <1>2, <1>3, <1>4, <1>5 DEF Next

\* Under AbsoluteOnly neither the root nor anything a daemon derives from it
\* (etc_file(), etc_dir(), run_socket(), run_nested_socket()) is relative or
\* outside the root, for any environment and any names.
THEOREM CwdCorrect == Spec => []NeverUnderCwd
<1>1. Init => AbsoluteInv
  BY DEF Init, AbsoluteInv
<1>2. TypeOK /\ AbsoluteInv => NeverUnderCwd
  <2> SUFFICES ASSUME TypeOK, AbsoluteInv, step = "done", rule = "AbsoluteOnly",
                      NEW name \in Daemons,
                      NEW p \in {root, EtcFile(root, name, "json"), EtcDir(root, name),
                                 RunSocket(root, name), RunNestedSocket(root, name)}
               PROVE  p.abs /\ IsPrefix(root.parts, p.parts)
    BY DEF NeverUnderCwd
  <2> DEFINE Under(q) == q \in PathSet /\ q.abs /\ IsPrefix(root.parts, q.parts)
  <2>1. root \in PathSet /\ root.abs
    BY PathType DEF TypeOK, AbsoluteInv
  <2>2. root.parts \in Seq(Words \X Words)
    BY <2>1 DEF PathSet
  <2>3. Under(root)
    BY <2>1, <2>2 DEF IsPrefix
  <2>4. ASSUME NEW q, Under(q), NEW n \in Words, NEW ext \in Words
        PROVE  Under(PushPath(q, Relative(n, ext)))
    BY <2>2, <2>4, PushUnder
  <2>5. name \in Words /\ {"", "etc", "run", "json", "sock"} \subseteq Words
    BY ConstAssumption DEF Words
  <2> HIDE DEF Under
  <2>6. Under(PushPath(root, Relative("etc", ""))) /\ Under(PushPath(root, Relative("run", "")))
    BY <2>3, <2>4, <2>5
  <2>7. ASSUME NEW top \in {"etc", "run"}, NEW ext \in {"", "json", "sock"}
        PROVE  Under(Join(root, <<Relative(top, ""), Relative(name, ext)>>))
    <3> DEFINE parts == <<Relative(top, ""), Relative(name, ext)>>
    <3>1. Len(parts) = 2 /\ parts[1] = Relative(top, "") /\ parts[2] = Relative(name, ext)
      OBVIOUS
    <3> HIDE DEF parts
    <3>2. Join(root, parts) = PushPath(PushPath(root, Relative(top, "")), Relative(name, ext))
      BY <3>1, JoinTwo
    <3>3. Under(PushPath(PushPath(root, Relative(top, "")), Relative(name, ext)))
      BY <2>4, <2>5, <2>6
    <3> QED
      BY <3>2, <3>3 DEF parts
  <2>8. Under(RunNestedSocket(root, name))
    <3> DEFINE parts == <<Relative("run", ""), Relative(name, ""), Relative(name, "sock")>>
    <3>1. /\ Len(parts) = 3
          /\ parts[1] = Relative("run", "")
          /\ parts[2] = Relative(name, "")
          /\ parts[3] = Relative(name, "sock")
      OBVIOUS
    <3>2. RunNestedSocket(root, name) = Join(root, parts)
      BY DEF RunNestedSocket
    <3> HIDE DEF parts
    <3>3. Join(root, parts)
            = PushPath(PushPath(PushPath(root, Relative("run", "")), Relative(name, "")),
                       Relative(name, "sock"))
      BY <3>1, JoinThree
    <3>4. Under(PushPath(PushPath(root, Relative("run", "")), Relative(name, "")))
      BY <2>4, <2>5, <2>6
    <3> QED
      BY <2>4, <2>5, <3>2, <3>3, <3>4
  <2>9. /\ Under(EtcFile(root, name, "json"))
        /\ Under(EtcDir(root, name))
        /\ Under(RunSocket(root, name))
    BY <2>7 DEF EtcFile, EtcDir, RunSocket
  <2> QED
    BY <2>3, <2>8, <2>9 DEF Under
<1> QED
  BY <1>1, <1>2, AbsoluteStep, TypeCorrect, PTL DEF Spec

\* Every step keeps StickInv.
LEMMA StickStep == TypeOK /\ StickInv /\ [Next]_vars => StickInv'
<1> SUFFICES ASSUME TypeOK, StickInv, [Next]_vars PROVE StickInv'
  OBVIOUS
<1> USE ConstAssumption DEF TypeOK, StickInv, SetRootSticks, Vars, Policies, Rules
<1>1. ASSUME NEW which \in Policies, NEW how \in Rules, Resolve(which, how)
      PROVE  StickInv'
  BY <1>1 DEF Resolve
<1>2. CASE ReadBigfred
  BY <1>2 DEF ReadBigfred, Return
<1>3. CASE ReadDataDir
  BY <1>3, FromEnvUsable DEF ReadDataDir, Return, Usable
<1>4. ASSUME NEW path \in Paths, SetRoot(path) PROVE StickInv'
  BY <1>4 DEF SetRoot
<1>5. CASE UNCHANGED vars
  BY <1>5 DEF vars
<1> QED
  BY <1>1, <1>2, <1>3, <1>4, <1>5 DEF Next

\* An absolute path given to set_root() is what every later resolution by
\* DATA_DIR gives, until another one replaces it.
THEOREM StickCorrect == Spec => []SetRootSticks
<1>1. Init => StickInv
  BY DEF Init, StickInv, SetRootSticks
<1> QED
  BY <1>1, StickStep, TypeCorrect, PTL DEF Spec, StickInv
=============================================================================
