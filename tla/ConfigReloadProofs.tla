-------------------------- MODULE ConfigReloadProofs --------------------------
(***************************************************************************)
(* Proofs about ConfigReload for every set of reloaders and every bound.   *)
(***************************************************************************)
EXTENDS ConfigReload, TLAPS

-----------------------------------------------------------------------------
(***************************************************************************)
(* Inductive invariants.                                                   *)
(***************************************************************************)

\* A value load() may return: one the file has held, or the default where
\* the seed provides it.
Genuine(v) == v \in held \/ (v = Default /\ seed # "ErrorIfMissing")

\* What is in the file is among what it has held; a thread on its way to
\* Live::replace() carries a genuine value.  T::default() is written to the
\* file under CreateFile only.
GenuineInv ==
  /\ Loadable(disk) => disk \in held
  /\ \A r \in Reloader :
       /\ pc[r] \in {"create", "fill"} =>
            seed = "CreateFile" /\ got[r] = Default
       /\ pc[r] = "replace" => Genuine(got[r])

\* Versions only grow: a version in the file is the newest it has held, and
\* the live value is no newer than that.  A thread that nobody has passed
\* since it read carries nothing older than the live value, unless it
\* carries the default.
VersionInv ==
  /\ \A v \in held : v <= edits
  /\ Default < disk => \A v \in held : v <= disk
  /\ live = Default \/ live \in held
  /\ \A r \in Reloader :
       pc[r] = "replace" /\ ~passed[r] => got[r] = Default \/ live <= got[r]

\* A reload that is sure to bring what the file holds now.
Fresh(r) == pc[r] = "read" \/ (pc[r] = "replace" /\ got[r] = disk)

\* Since a reload has begun after the last change, and none has failed or
\* been passed: the file's version is live, and no thread will replace it
\* unnoticed, or a thread is bringing it.
FreshInv ==
  ~due /\ ~raced /\ ~failed /\ Loadable(disk) =>
    \/ \E r \in Reloader : Fresh(r)
    \/ /\ live = disk
       /\ \A r \in Reloader : pc[r] \in {"fill", "replace"} => passed[r]

\* Nobody is between the call of try_reload() and its return.
Quiet == \A r \in Reloader : pc[r] \in {"idle", "dead"}

\* What the daemon relies on after a reload: when no thread is reloading and a
\* reload has begun since the last change, the live value is what the file
\* holds, unless a load failed since or threads have passed each other.  This
\* is the safety part of Converges.
QuietIsCurrent ==
  Quiet /\ ~due /\ ~raced /\ ~failed /\ Loadable(disk) => live = disk

-----------------------------------------------------------------------------
\* Every step of the operator and of the reloaders keeps the types: what the
\* parser refuses (Empty, Torn) never gets into "got" or "live".
LEMMA TypeStep == TypeOK /\ [Next]_vars => TypeOK'
<1> SUFFICES ASSUME TypeOK, [Next]_vars PROVE TypeOK'
  OBVIOUS
<1> USE ConstAssumption DEF TypeOK, Missing, Empty, Torn, Default, Loadable, Goto
<1>1. ASSUME NEW v \in {edits + 1, Torn}, Rename(v) PROVE TypeOK'
  BY <1>1 DEF Rename, Edit
<1>2. CASE Remove
  BY <1>2 DEF Remove, Edit
<1>3. CASE Truncate
  BY <1>3 DEF Truncate, Edit
<1>4. CASE Save
  <2>1. disk' \in Missing .. MaxEdits
    BY <1>4 DEF Save, Written
  <2>2. held' \subseteq Default .. MaxEdits
    BY <1>4, <2>1 DEF Save
  <2> QED
    BY <1>4, <2>1, <2>2 DEF Save
<1>5. ASSUME NEW r \in Reloader, Begin(r) PROVE TypeOK'
  BY <1>5 DEF Begin
<1>6. ASSUME NEW r \in Reloader, Read(r) PROVE TypeOK'
  BY <1>6 DEF Read
<1>7. ASSUME NEW r \in Reloader, Create(r) PROVE TypeOK'
  BY <1>7 DEF Create
<1>8. ASSUME NEW r \in Reloader, Fill(r) PROVE TypeOK'
  BY <1>8 DEF Fill, Written
<1>9. ASSUME NEW r \in Reloader, LoadFails(r) PROVE TypeOK'
  BY <1>9 DEF LoadFails
<1>10. ASSUME NEW r \in Reloader, Replace(r) PROVE TypeOK'
  <2>1. passed' \in [Reloader -> BOOLEAN] /\ raced' \in BOOLEAN
    BY <1>10, Zenon DEF Replace
  <2>2. poisoned' \in BOOLEAN
    BY <1>10, Zenon DEF Replace, Unlock
  <2>3. /\ live' \in Default .. MaxEdits
        /\ faults' \in 0 .. MaxFaults
        /\ pc' \in [Reloader -> {"idle", "read", "create", "fill", "replace", "dead"}]
    BY <1>10 DEF Replace, Unlock
  <2>4. UNCHANGED <<seed, disk, editing, got, mine, due, failed, edits, held>>
    BY <1>10 DEF Replace
  <2> QED
    BY <2>1, <2>2, <2>3, <2>4
<1>11. CASE UNCHANGED vars
  BY <1>11 DEF vars
<1> QED
  BY <1>1, <1>2, <1>3, <1>4, <1>5, <1>6, <1>7, <1>8, <1>9, <1>10, <1>11
  DEF Next, Step

\* Type correctness of try_reload(), Live and JsonFile::load(): a thread that
\* is about to replace the live value holds a whole one.
THEOREM TypeCorrect == Spec => []TypeOK
<1>1. Init => TypeOK
  <2> SUFFICES ASSUME Init PROVE TypeOK
    OBVIOUS
  <2>1. /\ mine \in [Reloader -> BOOLEAN]
        /\ passed \in [Reloader -> BOOLEAN]
        /\ raced \in BOOLEAN /\ poisoned \in BOOLEAN /\ failed \in BOOLEAN
        /\ due \in BOOLEAN /\ editing \in BOOLEAN
    BY Zenon DEF Init
  <2>2. held \subseteq Default .. MaxEdits
    BY ConstAssumption DEF Init, Missing, Default
  <2>3. /\ pc \in [Reloader -> {"idle", "read", "create", "fill", "replace", "dead"}]
        /\ got \in [Reloader -> Default .. MaxEdits]
    BY ConstAssumption DEF Init, Default
  <2> QED
    BY <2>1, <2>2, <2>3, ConstAssumption DEF Init, TypeOK, Missing, Default
<1> QED
  BY <1>1, TypeStep, PTL DEF Spec

\* Every step keeps GenuineInv: Read() is the only way to "replace" with a
\* version, and it takes the one in the file.
LEMMA GenuineStep == TypeOK /\ GenuineInv /\ [Next]_vars => GenuineInv'
<1> SUFFICES ASSUME TypeOK, GenuineInv, [Next]_vars PROVE GenuineInv'
  OBVIOUS
<1> USE ConstAssumption
    DEF TypeOK, GenuineInv, Genuine, Missing, Empty, Torn, Default, Loadable, Goto
<1>1. ASSUME NEW v \in {edits + 1, Torn}, Rename(v) PROVE GenuineInv'
  BY <1>1 DEF Rename, Edit
<1>2. CASE Remove
  BY <1>2 DEF Remove, Edit
<1>3. CASE Truncate
  BY <1>3 DEF Truncate, Edit
<1>4. CASE Save
  BY <1>4 DEF Save, Written
<1>5. ASSUME NEW r \in Reloader, Begin(r) PROVE GenuineInv'
  BY <1>5 DEF Begin
<1>6. ASSUME NEW r \in Reloader, Read(r) PROVE GenuineInv'
  BY <1>6 DEF Read
<1>7. ASSUME NEW r \in Reloader, Create(r) PROVE GenuineInv'
  BY <1>7 DEF Create
<1>8. ASSUME NEW r \in Reloader, Fill(r) PROVE GenuineInv'
  BY <1>8 DEF Fill, Written
<1>9. ASSUME NEW r \in Reloader, LoadFails(r) PROVE GenuineInv'
  BY <1>9 DEF LoadFails
<1>10. ASSUME NEW r \in Reloader, Replace(r) PROVE GenuineInv'
  BY <1>10 DEF Replace, Unlock
<1>11. CASE UNCHANGED vars
  BY <1>11 DEF vars
<1> QED
  BY <1>1, <1>2, <1>3, <1>4, <1>5, <1>6, <1>7, <1>8, <1>9, <1>10, <1>11
  DEF Next, Step

\* GenuineInv holds in every reachable state.
LEMMA GenuineAlways == Spec => []GenuineInv
<1>1. Init => GenuineInv
  BY DEF Init, GenuineInv, Genuine, Missing, Loadable
<1> QED
  BY <1>1, GenuineStep, TypeCorrect, PTL DEF Spec

\* Live::replace() is the only step that changes the live value.
LEMMA ReplaceOnly ==
  [Next]_vars /\ live' # live => \E r \in Reloader : Replace(r)
  BY DEF Next, Step, vars, Rename, Remove, Truncate, Save, Edit, Begin, Read,
         Create, Fill, LoadFails

\* A failed load never reaches Live, for any number of threads that reload
\* while the file is edited: try_reload() hands on only what the parser
\* accepted or the seed provides.
THEOREM GenuineCorrect == Spec => LiveIsGenuine
<1>1. TypeOK /\ GenuineInv /\ [Next]_vars =>
        [live' # live =>
           live' \in held \/ (live' = Default /\ seed # "ErrorIfMissing")]_vars
  <2> SUFFICES ASSUME TypeOK, GenuineInv, [Next]_vars, live' # live
               PROVE  live' \in held \/ (live' = Default /\ seed # "ErrorIfMissing")
    OBVIOUS
  <2>1. PICK r \in Reloader : Replace(r)
    BY ReplaceOnly
  <2> QED
    BY <2>1 DEF Replace, GenuineInv, Genuine
<1> QED
  BY <1>1, TypeCorrect, GenuineAlways, PTL DEF Spec, LiveIsGenuine

\* Every step keeps VersionInv.
LEMMA VersionStep ==
  TypeOK /\ GenuineInv /\ VersionInv /\ [Next]_vars => VersionInv'
<1> SUFFICES ASSUME TypeOK, GenuineInv, VersionInv, [Next]_vars PROVE VersionInv'
  OBVIOUS
<1> USE ConstAssumption
    DEF TypeOK, VersionInv, Missing, Empty, Torn, Default, Loadable, Goto
<1>1. ASSUME NEW v \in {edits + 1, Torn}, Rename(v) PROVE VersionInv'
  BY <1>1 DEF Rename, Edit
<1>2. CASE Remove
  BY <1>2 DEF Remove, Edit
<1>3. CASE Truncate
  BY <1>3 DEF Truncate, Edit
<1>4. CASE Save
  BY <1>4 DEF Save, Written
<1>5. ASSUME NEW r \in Reloader, Begin(r) PROVE VersionInv'
  BY <1>5 DEF Begin
<1>6. ASSUME NEW r \in Reloader, Read(r) PROVE VersionInv'
  BY <1>6 DEF Read
<1>7. ASSUME NEW r \in Reloader, Create(r) PROVE VersionInv'
  BY <1>7 DEF Create
<1>8. ASSUME NEW r \in Reloader, Fill(r) PROVE VersionInv'
  BY <1>8 DEF Fill, Written, GenuineInv
<1>9. ASSUME NEW r \in Reloader, LoadFails(r) PROVE VersionInv'
  BY <1>9 DEF LoadFails
<1>10. ASSUME NEW r \in Reloader, Replace(r) PROVE VersionInv'
  BY <1>10 DEF Replace, Unlock, GenuineInv, Genuine
<1>11. CASE UNCHANGED vars
  BY <1>11 DEF vars
<1> QED
  BY <1>1, <1>2, <1>3, <1>4, <1>5, <1>6, <1>7, <1>8, <1>9, <1>10, <1>11
  DEF Next, Step

\* The live value goes back to an older version only by a thread that was
\* passed between its load() and its Live::replace(), for any number of
\* threads and edits: without passing, reloads never lose an update.
THEOREM RegressCorrect == Spec => OnlyRacersRegress
<1>1. Init => VersionInv
  BY DEF Init, VersionInv, Missing, Default
<1>2. Spec => []VersionInv
  BY <1>1, VersionStep, TypeCorrect, GenuineAlways, PTL DEF Spec
<1>3. TypeOK /\ VersionInv /\ [Next]_vars =>
        [Default < live' /\ live' < live =>
           \E r \in Reloader : pc[r] = "replace" /\ passed[r] /\ live' = got[r]]_vars
  <2> SUFFICES ASSUME TypeOK, VersionInv, [Next]_vars, Default < live', live' < live
               PROVE  \E r \in Reloader :
                        pc[r] = "replace" /\ passed[r] /\ live' = got[r]
    OBVIOUS
  <2>1. PICK r \in Reloader : Replace(r)
    BY ReplaceOnly DEF TypeOK, Default
  <2>2. pc[r] = "replace" /\ live' = got[r]
    BY <2>1 DEF Replace
  <2>3. passed[r]
    BY <2>2 DEF VersionInv, TypeOK, Default
  <2> QED
    BY <2>2, <2>3
<1> QED
  BY <1>2, <1>3, TypeCorrect, PTL DEF Spec, OnlyRacersRegress

\* Every step keeps FreshInv: a change makes a reload due, an error of load()
\* is remembered, and Live::replace() by one thread passes all others.
LEMMA FreshStep == TypeOK /\ FreshInv /\ [Next]_vars => FreshInv'
<1> SUFFICES ASSUME TypeOK, FreshInv, [Next]_vars PROVE FreshInv'
  OBVIOUS
<1> USE ConstAssumption
    DEF TypeOK, FreshInv, Fresh, Missing, Empty, Torn, Default, Loadable, Goto
<1>1. ASSUME NEW v \in {edits + 1, Torn}, Rename(v) PROVE FreshInv'
  BY <1>1 DEF Rename, Edit
<1>2. CASE Remove
  BY <1>2 DEF Remove, Edit
<1>3. CASE Truncate
  BY <1>3 DEF Truncate, Edit
<1>4. CASE Save
  BY <1>4 DEF Save, Written
<1>5. ASSUME NEW r \in Reloader, Begin(r) PROVE FreshInv'
  BY <1>5 DEF Begin
<1>6. ASSUME NEW r \in Reloader, Read(r) PROVE FreshInv'
  BY <1>6 DEF Read
<1>7. ASSUME NEW r \in Reloader, Create(r) PROVE FreshInv'
  BY <1>7 DEF Create
<1>8. ASSUME NEW r \in Reloader, Fill(r) PROVE FreshInv'
  BY <1>8 DEF Fill, Written
<1>9. ASSUME NEW r \in Reloader, LoadFails(r) PROVE FreshInv'
  BY <1>9 DEF LoadFails
<1>10. ASSUME NEW r \in Reloader, Replace(r) PROVE FreshInv'
  BY <1>10 DEF Replace, Unlock
<1>11. CASE UNCHANGED vars
  BY <1>11 DEF vars
<1> QED
  BY <1>1, <1>2, <1>3, <1>4, <1>5, <1>6, <1>7, <1>8, <1>9, <1>10, <1>11
  DEF Next, Step

\* Once nobody is reloading, the live value is what the file holds, whatever
\* order any number of threads took their steps in, unless they passed each
\* other or the last load failed.
THEOREM QuietCorrect == Spec => []QuietIsCurrent
<1>1. Init => FreshInv
  BY DEF Init, FreshInv
<1>2. FreshInv => QuietIsCurrent
  BY DEF FreshInv, Fresh, QuietIsCurrent, Quiet
<1> QED
  BY <1>1, <1>2, FreshStep, TypeCorrect, PTL DEF Spec
=============================================================================
