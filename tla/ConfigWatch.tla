----------------------------- MODULE ConfigWatch -----------------------------
(***************************************************************************)
(* The inotify thread of config/watch.rs: watch_loop(), attach_pending(),  *)
(* attach_spec() and fire_reload(), beside the file system, the notify     *)
(* library and the application that reads the configuration again.         *)
(*                                                                         *)
(* Every spec is a file (its parent directory is watched), a directory     *)
(* watched non-recursively, or a recursive tree.  "there" holds the specs  *)
(* whose directory exists.  Concerns says, beside the filters of the       *)
(* specs, which names hold configuration of a spec: what the filters are   *)
(* there to find out.                                                      *)
(*                                                                         *)
(* Time is counted in ticks.  Clocks stop at the value they are compared   *)
(* with, so behaviours are infinite in finitely many states.  The thread   *)
(* may always be late.                                                     *)
(***************************************************************************)
EXTENDS Naturals, FiniteSets, Sequences, PathFilter

CONSTANTS Files, Dirs, Trees,  \* the specs, by kind
          Bare,       \* files given by a name without a directory
          Names,      \* names of files that change
          Filter,     \* Filter[s]: the filter of spec s
          DirName,    \* DirName[s]: the name of its directory
          Concerns,   \* Concerns[s]: the names that are configuration of s
          Debounce,   \* ticks of silence before a reload
          Poll,       \* ticks recv_timeout() waits when nothing is pending
          MaxEvents,  \* bound: changes of the file system
          MaxFaults   \* bound: failing calls

Specs == Files \cup Dirs \cup Trees

ASSUME ConstAssumption ==
  /\ IsFiniteSet(Specs) /\ Bare \subseteq Files
  /\ DOMAIN Filter = Specs /\ DOMAIN DirName = Specs
  /\ DOMAIN Concerns = Specs
  /\ Debounce \in Nat \ {0} /\ Poll \in Nat
  /\ MaxEvents \in Nat /\ MaxFaults \in Nat

VARIABLES wpc,       \* the next step of the watcher thread
          round,     \* what the thread is handling, or "start"
          todo,      \* specs attach_pending() has still to look at
          newly,     \* its result so far
          attached,  \* specs with attached[i] = true
          watch,     \* watch[s]: the directory notify watches for s
          there,     \* specs whose directory exists
          stale,     \* specs with a change to be reported that the
                     \* application has not read yet (history)
          cause,     \* a change that concerns some spec, or a late attach,
                     \* has not been answered by a reload yet (history)
          raw,       \* the channel from notify to the thread
          age,       \* ticks since "pending" was set, or NotPending
          wait,      \* ticks until recv_timeout() gives up
          quiet,     \* ticks since the thread last fired a reload, took a
                     \* relevant event or attached a spec late (history)
          signals,   \* Reload signals not received yet
          stop,      \* the stop flag
          extra,     \* reloads fired since it was set (history)
          events,    \* changes of the file system so far
          faults     \* failing calls so far

thread == <<wpc, round, todo, newly, attached, watch, age, wait>>
bounds == <<events, faults>>
news == <<stale, cause>>
vars == <<wpc, round, todo, newly, attached, watch, there, news, raw, age,
          wait, quiet, signals, stop, extra, events, faults>>

NotPending == Debounce + 1

-----------------------------------------------------------------------------
Init ==
  /\ wpc = "new" /\ round = "start" /\ todo = {} /\ newly = FALSE
  /\ attached = {} /\ watch = [s \in Specs |-> "none"]
  /\ there \in {S \in SUBSET Specs : Bare \subseteq S}  \* theirs is "."
  /\ stale = {} /\ cause = FALSE /\ raw = <<>>
  /\ age = NotPending /\ wait = 0 /\ quiet = Debounce
  /\ signals = 0 /\ stop = FALSE /\ extra = 0
  /\ events = 0 /\ faults = 0

\* ------------------------- the watcher thread -----------------------------
\* attach_pending() begins: it skips what is attached
BeginAttach(what) ==
  /\ wpc' = "attach"
  /\ round' = what
  /\ todo' = Specs \ attached
  /\ newly' = FALSE

\* RecommendedWatcher::new(), then the first attach_pending()
NewWatcher ==
  /\ wpc = "new"
  /\ BeginAttach("start")
  /\ UNCHANGED <<attached, watch, there, news, raw, age, wait, quiet,
                 signals, stop, extra, bounds>>

\* The directory attach_spec() registers: watch_dir_for() takes the parent
\* of anything that is not a directory yet, but not for recursive specs.  The
\* parent of a bare name is the empty path, which is no directory and which
\* create_dir_all() does not make one.
Target(s) ==
  CASE s \in Bare                      -> "none"
    [] s \in (Files \cup there) \ Bare -> "target"
    [] s \in Dirs \ there              -> "parent"
    [] s \in Trees \ there             -> "none"

\* Mutant: attached[i] is not set.
AttachForgets(s) ==
  /\ wpc = "attach" /\ s \in todo
  /\ todo' = todo \ {s}
  /\ there' = IF s \in Files THEN there \cup {s} ELSE there
  /\ watch' = [watch EXCEPT ![s] = Target(s)]
  /\ newly' = (newly \/ Target(s) # "none")
  /\ UNCHANGED <<wpc, round, attached, news, raw, age, wait, quiet, signals,
                 stop, extra, bounds>>

\* attach_spec() of one spec.  A spec attached late, in a later round than the
\* first, owes the application a reload.
AttachSpec(s) ==
  /\ wpc = "attach" /\ s \in todo
  /\ todo' = todo \ {s}
  /\ there' = IF s \in Files THEN there \cup {s} ELSE there
  /\ watch' = [watch EXCEPT ![s] = Target(s)]
  /\ attached' = IF Target(s) = "none" THEN attached ELSE attached \cup {s}
  /\ newly' = (newly \/ Target(s) # "none")
  /\ stale' = IF Target(s) = "target" /\ round # "start"
              THEN stale \cup {s} ELSE stale
  /\ cause' = (cause \/ (Target(s) # "none" /\ round # "start"))
  /\ quiet' = IF Target(s) # "none" /\ round # "start" THEN 0 ELSE quiet
  /\ UNCHANGED <<wpc, round, raw, age, wait, signals, stop, extra, bounds>>

\* create_dir_all() or watch() fails: logged, skipped until the next round.
\* When it is watch(), the directory of a file has been made by then.
AttachFails(s) ==
  /\ wpc = "attach" /\ s \in todo
  /\ faults < MaxFaults /\ faults' = faults + 1
  /\ todo' = todo \ {s}
  /\ there' \in {there, there \cup ({s} \cap Files)}
  /\ UNCHANGED <<wpc, round, newly, attached, watch, news, raw, age, wait,
                 quiet, signals, stop, extra, events>>

\* Mutant: a late attach does not ask for a reload.
AttachedNoReload ==
  /\ wpc = "attach" /\ todo = {}
  /\ wpc' = IF round = "timeout" THEN "check" ELSE "top"
  /\ age' = IF round = "relevant" THEN 0 ELSE age
  /\ UNCHANGED <<round, todo, newly, attached, watch, there, news, raw, wait,
                 quiet, signals, stop, extra, bounds>>

\* Mutant: the debounce runs from the first change, not from the last.
AttachedKeepsFirst ==
  /\ wpc = "attach" /\ todo = {}
  /\ wpc' = IF round = "timeout" THEN "check" ELSE "top"
  /\ age' = IF /\ round = "relevant" \/ (newly /\ round # "start")
               /\ age = NotPending
            THEN 0 ELSE age
  /\ UNCHANGED <<round, todo, newly, attached, watch, there, news, raw, wait,
                 quiet, signals, stop, extra, bounds>>

\* attach_pending() returned: its result, except for the first call, and a
\* relevant event start the debounce over
Attached ==
  /\ wpc = "attach" /\ todo = {}
  /\ wpc' = IF round = "timeout" THEN "check" ELSE "top"
  /\ age' = IF round = "relevant" \/ (newly /\ round # "start") THEN 0 ELSE age
  /\ UNCHANGED <<round, todo, newly, attached, watch, there, news, raw, wait,
                 quiet, signals, stop, extra, bounds>>

\* Mutant: the flag is looked at only when there is nothing left to do.
TopDrainsFirst ==
  /\ wpc = "top"
  /\ IF stop /\ age = NotPending /\ raw = <<>>
     THEN wpc' = "done" /\ UNCHANGED wait
     ELSE /\ wpc' = "recv"
          /\ wait' = IF age = NotPending THEN Poll ELSE Debounce - age
  /\ UNCHANGED <<round, todo, newly, attached, watch, there, news, raw, age,
                 quiet, signals, stop, extra, bounds>>

\* Mutant: the loop does not look at the flag.
TopIgnoresStop ==
  /\ wpc = "top"
  /\ wpc' = "recv"
  /\ wait' = IF age = NotPending THEN Poll ELSE Debounce - age
  /\ UNCHANGED <<round, todo, newly, attached, watch, there, news, raw, age,
                 quiet, signals, stop, extra, bounds>>

\* the head of the loop: the stop flag, then the timeout
Top ==
  /\ wpc = "top"
  /\ IF stop
     THEN wpc' = "done" /\ UNCHANGED wait
     ELSE /\ wpc' = "recv"
          /\ wait' = IF age = NotPending THEN Poll ELSE Debounce - age
  /\ UNCHANGED <<round, todo, newly, attached, watch, there, news, raw, age,
                 quiet, signals, stop, extra, bounds>>

\* recv_timeout() returns what notify sent; an error is only logged
RecvEvent ==
  /\ wpc = "recv" /\ raw # <<>>
  /\ raw' = Tail(raw)
  /\ IF Head(raw).kind = "error"
     THEN wpc' = "top" /\ UNCHANGED <<round, todo, newly>>
     ELSE BeginAttach(IF Head(raw).relevant THEN "relevant" ELSE "junk")
  /\ quiet' = IF wpc' = "attach" /\ round' = "relevant" THEN 0 ELSE quiet
  /\ UNCHANGED <<attached, watch, there, news, age, wait, signals, stop,
                 extra, bounds>>

\* Mutant: pending specs are retried on events only.
RecvTimeoutNoRetry ==
  /\ wpc = "recv" /\ raw = <<>> /\ wait = 0
  /\ wpc' = "check"
  /\ UNCHANGED <<round, todo, newly, attached, watch, there, news, raw, age,
                 wait, quiet, signals, stop, extra, bounds>>

\* recv_timeout() gives up: with nothing in the channel only
RecvTimeout ==
  /\ wpc = "recv" /\ raw = <<>> /\ wait = 0
  /\ BeginAttach("timeout")
  /\ UNCHANGED <<attached, watch, there, news, raw, age, wait, quiet, signals,
                 stop, extra, bounds>>

\* fire_reload(): one signal, or one call of the callback
FireReload ==
  /\ signals' = signals + 1
  /\ cause' = \E i \in 1 .. Len(raw) : raw[i].concerns
  /\ quiet' = 0
  /\ extra' = IF stop THEN extra + 1 ELSE 0

\* the end of the Timeout arm: a reload once the debounce is over
Check ==
  /\ wpc = "check"
  /\ wpc' = "top"
  /\ IF age = Debounce
     THEN age' = NotPending /\ FireReload
     ELSE UNCHANGED <<age, signals, cause, quiet, extra>>
  /\ UNCHANGED <<round, todo, newly, attached, watch, there, stale, raw, wait,
                 stop, bounds>>

\* The thread ends with a log line, and nobody else is told.
Ends(at) ==
  /\ wpc = at
  /\ faults < MaxFaults /\ faults' = faults + 1
  /\ wpc' = "done"
  /\ UNCHANGED <<round, todo, newly, attached, watch, there, news, raw, age,
                 wait, quiet, signals, stop, extra, events>>

\* RecommendedWatcher::new() fails
NewFails == Ends("new")

\* notify hangs up: RecvTimeoutError::Disconnected
Disconnected == raw = <<>> /\ Ends("recv")

\* ------------------------------ around it ---------------------------------
\* The application takes a Reload signal, or runs as the callback, and reads
\* the configuration.
Reload ==
  /\ signals > 0
  /\ signals' = signals - 1
  /\ stale' = {}
  /\ UNCHANGED <<thread, there, cause, raw, quiet, stop, extra, bounds>>

SetStop ==
  /\ ~stop
  /\ stop' = TRUE
  /\ UNCHANGED <<thread, there, news, raw, quiet, signals, extra, bounds>>

\* any spec's filter lets the name through, wherever the event comes from
Relevant(kind, name) ==
  /\ kind = "modify"
  /\ \E s \in Specs : IsRelevantPath(name, Filter[s])

Concerning(name) == \E s \in Specs : name \in Concerns[s]

\* What the thread will find when it takes the event from the channel: the
\* filters never change.
Event(kind, name) ==
  [kind |-> "event", relevant |-> Relevant(kind, name),
   concerns |-> kind = "modify" /\ Concerning(name)]

\* notify reports a name in the directory of s, or that directory's own name,
\* if s has one of the given watches
Reports(s, where, name) ==
  IF watch[s] \in where
  THEN /\ raw' = Append(raw, Event("modify", name))
       /\ stale' = IF name \in Concerns[s] THEN stale \cup {s} ELSE stale
       /\ cause' = (cause \/ Concerning(name))
  ELSE UNCHANGED <<raw, news>>

FileSystem ==
  /\ events < MaxEvents /\ events' = events + 1
  /\ UNCHANGED <<wpc, round, todo, newly, attached, age, wait, quiet, signals,
                 stop, extra, faults>>

\* a file in the directory of s is created, written, renamed or removed
Change(s, name) ==
  /\ s \in there
  /\ Reports(s, {"target"}, name)
  /\ UNCHANGED <<there, watch>>
  /\ FileSystem

\* the directory of s is created, with files in it
Appears(s) ==
  /\ s \notin there
  /\ there' = there \cup {s}
  /\ Reports(s, {"parent"}, DirName[s])
  /\ UNCHANGED watch
  /\ FileSystem

\* it is removed, and inotify drops the watch on it
Vanishes(s) ==
  /\ s \in there \ Bare
  /\ there' = there \ {s}
  /\ Reports(s, {"target", "parent"}, DirName[s])
  /\ watch' = [watch EXCEPT ![s] = IF @ = "target" THEN "none" ELSE @]
  /\ FileSystem

\* an event of a kind that changes nothing (EventKind::Access)
Access(name) ==
  /\ \E s \in Specs : watch[s] # "none"
  /\ raw' = Append(raw, Event("access", name))
  /\ UNCHANGED <<there, watch, news>>
  /\ FileSystem

NotifyError == [kind |-> "error", concerns |-> FALSE]

\* an error of notify
Error ==
  /\ \E s \in Specs : watch[s] # "none"
  /\ raw' = Append(raw, NotifyError)
  /\ UNCHANGED <<there, watch, news>>
  /\ FileSystem

Up(n, limit) == IF n < limit THEN n + 1 ELSE n

\* one tick of the monotonic clock
Tick ==
  /\ wpc # "done"
  /\ age' = Up(age, IF age = NotPending THEN age ELSE Debounce)
  /\ wait' = IF wpc = "recv" /\ wait > 0 THEN wait - 1 ELSE wait
  /\ quiet' = Up(quiet, Debounce)
  /\ <<age, wait, quiet>>' # <<age, wait, quiet>>
  /\ UNCHANGED <<wpc, round, todo, newly, attached, watch, there, news, raw,
                 signals, stop, extra, bounds>>

Thread ==
  \/ NewWatcher \/ Attached \/ Top \/ RecvEvent \/ RecvTimeout \/ Check
  \/ \E s \in Specs : AttachSpec(s)

Next ==
  \/ Thread \/ NewFails \/ Disconnected \/ Reload \/ SetStop \/ Tick
  \/ \E s \in Specs : AttachFails(s) \/ Appears(s) \/ Vanishes(s)
  \/ \E s \in Specs, name \in Names : Change(s, name)
  \/ Error \/ \E name \in Names : Access(name)

Spec == Init /\ [][Next]_vars

\* The thread and the application are scheduled, and time passes.  Nothing
\* is assumed of the file system.
FairSpec == Spec /\ WF_vars(Thread) /\ WF_vars(Reload) /\ WF_vars(Tick)

-----------------------------------------------------------------------------
Notices == [kind : {"event"}, relevant : BOOLEAN, concerns : BOOLEAN] \cup {NotifyError}

\* Type invariant; every watch belongs to a spec that counts as attached.
TypeOK ==
  /\ wpc \in {"new", "attach", "top", "recv", "check", "done"}
  /\ round \in {"start", "timeout", "relevant", "junk"}
  /\ todo \subseteq Specs /\ newly \in BOOLEAN
  /\ attached \subseteq Specs
  /\ watch \in [Specs -> {"none", "target", "parent"}]
  /\ \A s \in Specs : watch[s] # "none" => s \in attached
  /\ there \subseteq Specs /\ stale \subseteq Specs /\ cause \in BOOLEAN
  /\ raw \in Seq(Notices)
  /\ age \in 0 .. NotPending
  /\ wait \in Nat /\ quiet \in 0 .. Debounce
  /\ signals \in Nat /\ extra \in Nat /\ stop \in BOOLEAN
  /\ events \in 0 .. MaxEvents /\ faults \in 0 .. MaxFaults

\* A reload comes a whole debounce after the last relevant event the thread
\* took, the last late attach and the reload before it, whichever is latest:
\* each of them starts the debounce over, however changes, late attaches and
\* timeouts fall (watch_loop(), "pending").
ReloadsDebounced == [][signals' > signals => quiet = Debounce]_vars

\* After the stop flag is set at most one more reload fires, the one the
\* thread is already committed to.
OneReloadAfterStop == extra <= 1

\* No reload without a reason of its own: since the one before it a name that
\* is configuration of some spec was reported, or a spec attached late.
\* "Editor/temp artifacts ... must not trigger reload" (is_junk_name()), nor do
\* polls, failed attaches, accesses and errors.
ReloadHasCause == [][signals' > signals => cause]_vars

\* A change to the configuration of a spec in its watched directory, and a
\* directory attached late, reach the application: it reads the configuration
\* afterwards, once the changes pause.  (unless the watcher is stopped or dies)
ChangeIsReloaded ==
  \A s \in Specs : s \in stale ~> (s \notin stale \/ wpc = "done")

\* The stop flag ends the thread, without any event to wake it.
StopEndsThread == stop ~> wpc = "done"

\* The directory of s, once it is there to stay, has got a watch: it is
\* found by the poll, without an event, and after failed attempts.
Attaches(s) == <>[](s \in there) => <>(watch[s] = "target" \/ wpc = "done")

\* "Specs whose path is not a directory yet are retried until they appear
\* (late-attach)" (spawn_signal()).
LateAttach == \A s \in Specs : Attaches(s)

\* What holds of it: files, whose directory attach_spec() creates, are
\* attached unless their path is a bare name, and so are recursive trees.
FilesAndTreesAttach == \A s \in (Files \ Bare) \cup Trees : Attaches(s)
=============================================================================
