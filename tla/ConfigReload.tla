----------------------------- MODULE ConfigReload -----------------------------
(***************************************************************************)
(* try_reload() and Live of config/mod.rs with the JsonFile loader of      *)
(* config/json.rs, run by several threads (the watcher's callback, a       *)
(* SIGHUP loop, a command) while an operator edits the file.               *)
(*                                                                         *)
(* The file is missing, empty (truncated and not written yet), unparsable, *)
(* or holds a version: 0 is T::default(), the operator's are 1, 2, ...     *)
(* fs::write() truncates, then writes, to the inode it opened; "mine[r]"   *)
(* says whether the path still names that inode.                           *)
(***************************************************************************)
EXTENDS Integers

CONSTANTS Reloader,   \* threads that call try_reload() on one Live
          MaxEdits,   \* bound: versions and other edits of the file, with the first
          MaxFaults   \* bound: failing calls and panics

ASSUME ConstAssumption == MaxEdits \in Nat \ {0} /\ MaxFaults \in Nat

Missing == -3
Empty   == -2
Torn    == -1
Default == 0
Loadable(d) == d >= 0

VARIABLES seed,      \* JsonFile.seed (never changes)
          disk,      \* what the file holds
          editing,   \* the operator has truncated it and not written yet
          pc,        \* pc[r]: the next step of r
          got,       \* got[r]: the value load() is about to return
          mine,      \* mine[r]: the path names the inode r has truncated
          live,      \* the value in Live
          poisoned,  \* its RwLock is poisoned
          due,       \* a change that no reload has begun after yet
          failed,    \* a load has failed and no reload has begun since
          edits,     \* edits so far; also the operator's last version
          faults,    \* faults so far
          held,      \* versions the file has held (history)
          passed,    \* passed[r]: another thread replaced live since r read
                     \* (history)
          raced      \* somebody replaced live after being passed (history)

vars == <<seed, disk, editing, pc, got, mine, live, poisoned, due, failed,
          edits, faults, held, passed, raced>>

Goto(r, next) == pc' = [pc EXCEPT ![r] = next]

\* Bytes written at the start of an inode that holds d: over another content
\* the tail of that content may remain.
Written(d, v) == IF d \in {Empty, v} THEN {v} ELSE {v, Torn}

-----------------------------------------------------------------------------
Init ==
  /\ seed \in {"ErrorIfMissing", "DefaultInMemory", "CreateFile"}
  /\ disk \in {Missing, 1} /\ editing = FALSE
  /\ pc = [r \in Reloader |-> "idle"]
  /\ got = [r \in Reloader |-> Default]
  /\ mine = [r \in Reloader |-> FALSE]
  /\ live = Default /\ poisoned = FALSE /\ due = TRUE /\ failed = FALSE
  /\ edits = 1 /\ faults = 0
  /\ held = {disk} \cap Nat
  /\ passed = [r \in Reloader |-> FALSE] /\ raced = FALSE

\* ------------------------------ the operator ------------------------------
Edit ==
  /\ edits < MaxEdits
  /\ edits' = edits + 1
  /\ due' = TRUE
  /\ UNCHANGED <<seed, pc, got, live, poisoned, failed, faults, passed, raced>>

\* a new version is renamed onto the path, or one the parser refuses
Rename(v) ==
  /\ ~editing /\ Edit
  /\ disk' = v
  /\ held' = held \cup ({v} \cap Nat)
  /\ mine' = [r \in Reloader |-> FALSE]
  /\ UNCHANGED editing

Remove ==
  /\ ~editing /\ disk # Missing /\ Edit
  /\ disk' = Missing
  /\ mine' = [r \in Reloader |-> FALSE]
  /\ UNCHANGED <<editing, held>>

\* an editor that writes in place truncates first ...
Truncate ==
  /\ ~editing /\ disk # Missing /\ Edit
  /\ disk' = Empty /\ editing' = TRUE
  /\ UNCHANGED <<mine, held>>

\* ... and then writes, which is a change of its own
Save ==
  /\ editing
  /\ editing' = FALSE
  /\ disk' \in Written(disk, edits)
  /\ held' = held \cup ({disk'} \cap Nat)
  /\ due' = TRUE
  /\ UNCHANGED <<seed, pc, got, mine, live, poisoned, failed, edits, faults,
                 passed, raced>>

\* ------------------------------ a reloader --------------------------------
\* try_reload() is called: after a change, or just so (a SIGHUP)
Begin(r) ==
  /\ pc[r] = "idle"
  /\ due' = FALSE /\ failed' = FALSE
  /\ Goto(r, "read")
  /\ UNCHANGED <<seed, disk, editing, got, mine, live, poisoned, edits, faults,
                 held, passed, raced>>

\* Mutant: a file that does not parse counts as a missing one.
ReadTornAsMissing(r) ==
  /\ pc[r] = "read"
  /\ LET missing == seed = "ErrorIfMissing" /\ disk = Missing IN
     /\ Goto(r, IF missing THEN "idle"
                ELSE IF disk = Missing /\ seed = "CreateFile" THEN "create"
                ELSE "replace")
     /\ got' = [got EXCEPT ![r] = IF Loadable(disk) THEN disk ELSE Default]
  /\ passed' = [passed EXCEPT ![r] = FALSE]
  /\ UNCHANGED <<seed, disk, editing, mine, live, poisoned, due, failed, edits,
                 faults, held, raced>>

\* Mutant: the parser's error does not stop try_reload().
ReadIgnoresError(r) ==
  /\ pc[r] = "read"
  /\ Goto(r, IF disk = Missing /\ seed = "ErrorIfMissing" THEN "idle"
             ELSE IF disk = Missing /\ seed = "CreateFile" THEN "create"
             ELSE "replace")
  /\ got' = [got EXCEPT ![r] = IF disk = Missing THEN Default ELSE disk]
  /\ passed' = [passed EXCEPT ![r] = FALSE]
  /\ UNCHANGED <<seed, disk, editing, mine, live, poisoned, due, failed, edits,
                 faults, held, raced>>

\* Mutant: the loader keeps the first value it has read.
ReadCached(r) ==
  /\ pc[r] = "read"
  /\ Goto(r, CASE Loadable(disk) -> "replace"
               [] disk \in {Empty, Torn} -> "idle"
               [] disk = Missing /\ seed = "ErrorIfMissing"  -> "idle"
               [] disk = Missing /\ seed = "DefaultInMemory" -> "replace"
               [] disk = Missing /\ seed = "CreateFile"      -> "create")
  /\ got' = [got EXCEPT ![r] = IF Loadable(disk) /\ @ = Default THEN disk ELSE @]
  /\ passed' = [passed EXCEPT ![r] = FALSE]
  /\ UNCHANGED <<seed, disk, editing, mine, live, poisoned, due, failed, edits,
                 faults, held, raced>>

\* fs::read_to_string() and the parser: a value, an error that leaves Live
\* alone, or, when the file is missing, what the seed says
Read(r) ==
  /\ pc[r] = "read"
  /\ Goto(r, CASE Loadable(disk) -> "replace"
               [] disk \in {Empty, Torn} -> "idle"
               [] disk = Missing /\ seed = "ErrorIfMissing"  -> "idle"
               [] disk = Missing /\ seed = "DefaultInMemory" -> "replace"
               [] disk = Missing /\ seed = "CreateFile"      -> "create")
  /\ got' = [got EXCEPT ![r] = IF Loadable(disk) THEN disk ELSE Default]
  /\ passed' = [passed EXCEPT ![r] = FALSE]
  /\ UNCHANGED <<seed, disk, editing, mine, live, poisoned, due, failed, edits,
                 faults, held, raced>>

\* fs::write() opens with truncation, whatever is there by now
Create(r) ==
  /\ pc[r] = "create"
  /\ Goto(r, "fill")
  /\ mine' = [mine EXCEPT ![r] = TRUE]
  /\ disk' = Empty
  /\ due' = TRUE
  /\ UNCHANGED <<seed, editing, got, live, poisoned, failed, edits, faults, held,
                 passed, raced>>

\* ... and writes T::default() to what it has opened
Fill(r) ==
  /\ pc[r] = "fill"
  /\ Goto(r, "replace")
  /\ disk' \in IF mine[r] THEN Written(disk, Default) ELSE {disk}
  /\ held' = held \cup ({disk'} \cap Nat)
  /\ due' = (due \/ mine[r])
  /\ mine' = [mine EXCEPT ![r] = FALSE]
  /\ UNCHANGED <<seed, editing, got, live, poisoned, failed, edits, faults,
                 passed, raced>>

\* any call of load() fails: try_reload() returns the error; nobody retries
LoadFails(r) ==
  /\ pc[r] \in {"read", "create", "fill"}
  /\ faults < MaxFaults /\ faults' = faults + 1
  /\ Goto(r, "idle")
  /\ mine' = [mine EXCEPT ![r] = FALSE]
  /\ failed' = TRUE
  /\ UNCHANGED <<seed, disk, editing, got, live, poisoned, due, edits, held,
                 passed, raced>>

\* The lock's guard is dropped: normally, or by a panic (of the old value's
\* destructor), which poisons the lock and ends the thread.
Unlock(r) ==
  \/ Goto(r, "idle") /\ UNCHANGED <<poisoned, faults>>
  \/ /\ faults < MaxFaults /\ faults' = faults + 1
     /\ poisoned' = TRUE /\ Goto(r, "dead")

\* Mutant: a poisoned lock keeps the old value.
ReplaceUnlessPoisoned(r) ==
  /\ pc[r] = "replace"
  /\ live' = IF poisoned THEN live ELSE got[r]
  /\ Unlock(r)
  /\ passed' = [q \in Reloader |-> q # r \/ passed[q]]
  /\ raced' = (raced \/ passed[r])
  /\ UNCHANGED <<seed, disk, editing, got, mine, due, failed, edits, held>>

\* Live::replace(), on a poisoned lock too
Replace(r) ==
  /\ pc[r] = "replace"
  /\ live' = got[r]
  /\ Unlock(r)
  /\ passed' = [q \in Reloader |-> q # r \/ passed[q]]
  /\ raced' = (raced \/ passed[r])
  /\ UNCHANGED <<seed, disk, editing, got, mine, due, failed, edits, held>>

Step(r) == Begin(r) \/ Read(r) \/ Create(r) \/ Fill(r) \/ Replace(r)

Next ==
  \/ Remove \/ Truncate \/ Save
  \/ \E v \in {edits + 1, Torn} : Rename(v)
  \/ \E r \in Reloader : Step(r) \/ LoadFails(r)

Spec == Init /\ [][Next]_vars

\* Reloaders are scheduled, a change leads to a reload (what ConfigWatch
\* promises), and an operator who truncated the file goes on to write it.
FairSpec ==
  /\ Spec /\ WF_vars(Save)
  /\ \A r \in Reloader : WF_vars((due \/ pc[r] # "idle") /\ Step(r))

-----------------------------------------------------------------------------
\* Type invariant; a loader that is about to replace holds a whole value.
TypeOK ==
  /\ seed \in {"ErrorIfMissing", "DefaultInMemory", "CreateFile"}
  /\ disk \in Missing .. MaxEdits /\ editing \in BOOLEAN
  /\ pc \in [Reloader -> {"idle", "read", "create", "fill", "replace", "dead"}]
  /\ got \in [Reloader -> Default .. MaxEdits]
  /\ mine \in [Reloader -> BOOLEAN]
  /\ live \in Default .. MaxEdits /\ poisoned \in BOOLEAN
  /\ due \in BOOLEAN /\ failed \in BOOLEAN
  /\ edits \in 1 .. MaxEdits /\ faults \in 0 .. MaxFaults
  /\ held \subseteq Default .. MaxEdits
  /\ passed \in [Reloader -> BOOLEAN] /\ raced \in BOOLEAN

\* A failed load never reaches Live ("must not call Live::replace"): the live
\* value is one the file has held, or the default where the seed provides it.
LiveIsGenuine ==
  [][live' # live =>
       live' \in held \/ (live' = Default /\ seed # "ErrorIfMissing")]_vars

\* The live value goes back to an older version only when the thread that
\* writes it was passed by another between its load and its replace.
OnlyRacersRegress ==
  [][Default < live' /\ live' < live =>
       \E r \in Reloader : pc[r] = "replace" /\ passed[r] /\ live' = got[r]]_vars

\* Once the operator is done the live value becomes and stays what the file
\* holds, on a poisoned lock too, unless reloads have passed each other, the
\* last load failed, or every reloader has died of a panic.
Converges ==
  <>[](Loadable(disk) =>
         live = disk \/ raced \/ failed \/ \A r \in Reloader : pc[r] = "dead")
=============================================================================
