-------------------------- MODULE ConfigWatchProofs --------------------------
(***************************************************************************)
(* Proofs about ConfigWatch for any specs, filters, names, debounce and    *)
(* poll interval, and for any number of changes and failing calls.         *)
(***************************************************************************)
EXTENDS ConfigWatch, TLAPS

-----------------------------------------------------------------------------
(***************************************************************************)
(* Inductive invariants.                                                   *)
(***************************************************************************)

\* A reload fired with the stop flag set leaves the thread at the head of the
\* loop, which looks at the flag next.
StopInv ==
  /\ ~stop => extra = 0
  /\ extra = 0 \/ (extra = 1 /\ wpc \in {"top", "done"})

\* The attach round in progress will set "pending".
WillPend == wpc = "attach" /\ (round = "relevant" \/ (newly /\ round # "start"))

\* "pending" is never older than the last reload, relevant event or late
\* attach, except in the round that is about to set it again.
DebounceInv == age # NotPending => age <= quiet \/ WillPend

\* Every name the watcher may be told of.
AllNames == Names \cup {DirName[s] : s \in Specs}

\* The filters let nothing through that is nobody's configuration.
FiltersSound ==
  \A name \in AllNames :
    (\E s \in Specs : IsRelevantPath(name, Filter[s])) => Concerning(name)

\* The filter of a spec lets its configuration through.
FiltersComplete ==
  \A s \in Specs : \A name \in AllNames \cap Concerns[s] :
    IsRelevantPath(name, Filter[s])

\* Whatever leads to a reload has a cause that is not answered yet: events in
\* the channel, the attach round, "pending".
CauseInv ==
  /\ \A i \in 1 .. Len(raw) : raw[i].kind = "event" /\ raw[i].relevant => raw[i].concerns
  /\ (\E i \in 1 .. Len(raw) : raw[i].concerns) => cause
  /\ age # NotPending => cause
  /\ WillPend => cause

\* Between a change and the application's reading it there is always one of: a
\* relevant event in the channel, an attach round that will set "pending",
\* "pending" itself, a reload that was fired.  So nothing the thread does in
\* between drops it: the safety that ChangeIsReloaded rests on.
NothingForgotten ==
  stale # {} /\ wpc # "done" =>
    \/ signals > 0
    \/ age # NotPending
    \/ WillPend
    \/ \E i \in 1 .. Len(raw) : raw[i].kind = "event" /\ raw[i].relevant

-----------------------------------------------------------------------------
\* What attach_spec() registers.
LEMMA TargetType == \A s \in Specs : Target(s) \in {"none", "target", "parent"}
<1> SUFFICES ASSUME NEW s \in Specs PROVE Target(s) \in {"none", "target", "parent"}
  OBVIOUS
<1>1. CASE s \in Bare
  BY <1>1, ConstAssumption, Zenon DEF Target
<1>2. CASE s \in (Files \cup there) \ Bare
  BY <1>2, Zenon DEF Target
<1>3. CASE s \in Dirs /\ s \notin Bare /\ s \notin Files \cup there
  BY <1>3, Zenon DEF Target
<1>4. CASE s \in Trees /\ s \notin Dirs /\ s \notin Bare /\ s \notin Files \cup there
  BY <1>4, Zenon DEF Target
<1> QED
  BY <1>1, <1>2, <1>3, <1>4 DEF Specs

\* What notify puts in the channel.
LEMMA NoticeType ==
  ASSUME NEW r \in BOOLEAN, NEW c \in BOOLEAN
  PROVE  [kind |-> "event", relevant |-> r, concerns |-> c] \in Notices
  BY DEF Notices

\* The thread's filters tell of any event whether it is relevant.
LEMMA EventType ==
  ASSUME NEW kind, NEW name
  PROVE  /\ Event(kind, name) \in Notices
         /\ Event(kind, name).kind = "event"
         /\ Event(kind, name).relevant = Relevant(kind, name)
         /\ Event(kind, name).concerns = (kind = "modify" /\ Concerning(name))
<1> DEFINE c == kind = "modify" /\ Concerning(name)
<1>1. Relevant(kind, name) \in BOOLEAN /\ c \in BOOLEAN
  BY Zenon DEF Relevant
<1>2. Event(kind, name) = [kind |-> "event", relevant |-> Relevant(kind, name), concerns |-> c]
  BY DEF Event
<1> HIDE DEF c
<1>3. Event(kind, name) \in Notices
  BY <1>1, <1>2, NoticeType DEF Notices
<1>4. Event(kind, name).concerns = c
  BY <1>2
<1> QED
  BY <1>2, <1>3, <1>4 DEF c

\* What is reported of a name.
LEMMA ReportsEffect ==
  ASSUME NEW s, NEW where, NEW name, Reports(s, where, name)
  PROVE  \/ UNCHANGED <<raw, stale, cause>>
         \/ /\ raw' = Append(raw, Event("modify", name))
            /\ stale' = IF name \in Concerns[s] THEN stale \cup {s} ELSE stale
            /\ cause' = (cause \/ Concerning(name))
  BY Zenon DEF Reports, news

\* The channel is a queue that notify fills and the thread empties.
LEMMA RawStep ==
  [Next]_vars =>
    \/ raw' = raw
    \/ wpc = "recv" /\ raw # <<>> /\ raw' = Tail(raw)
    \/ \E e \in Notices : raw' = Append(raw, e)
<1> SUFFICES ASSUME [Next]_vars
             PROVE  \/ raw' = raw
                    \/ wpc = "recv" /\ raw # <<>> /\ raw' = Tail(raw)
                    \/ \E e \in Notices : raw' = Append(raw, e)
  OBVIOUS
<1>1. CASE Thread \/ NewFails \/ Disconnected \/ Reload \/ SetStop \/ Tick
  BY <1>1 DEF Thread, NewWatcher, Attached, Top, RecvEvent, RecvTimeout, Check,
              AttachSpec, NewFails, Disconnected, Ends, Reload, SetStop, Tick
<1>2. ASSUME NEW s \in Specs, NEW name, NEW where, Reports(s, where, name)
      PROVE  raw' = raw \/ \E e \in Notices : raw' = Append(raw, e)
  BY <1>2, ReportsEffect, EventType
<1>3. ASSUME NEW s \in Specs, AttachFails(s) \/ Appears(s) \/ Vanishes(s)
      PROVE  raw' = raw \/ \E e \in Notices : raw' = Append(raw, e)
  BY <1>2, <1>3 DEF AttachFails, Appears, Vanishes
<1>4. ASSUME NEW s \in Specs, NEW name \in Names, Change(s, name)
      PROVE  raw' = raw \/ \E e \in Notices : raw' = Append(raw, e)
  BY <1>2, <1>4 DEF Change
<1>5. CASE Error \/ \E name \in Names : Access(name)
  BY <1>5, EventType DEF Error, Access, Notices
<1>6. CASE UNCHANGED vars
  BY <1>6 DEF vars
<1> QED
  BY <1>1, <1>3, <1>4, <1>5, <1>6 DEF Next

\* The end of the Timeout arm: a reload is fired, or nothing happens.
LEMMA CheckEffect ==
  ASSUME Check
  PROVE  /\ wpc = "check" /\ wpc' = "top"
         /\ UNCHANGED <<round, newly, stale, raw, wait, stop, events, faults>>
         /\ \/ /\ age = Debounce /\ age' = NotPending /\ quiet' = 0
               /\ signals' = signals + 1
               /\ extra' = IF stop THEN extra + 1 ELSE 0
            \/ age # Debounce /\ UNCHANGED <<age, signals, cause, quiet, extra>>
  BY Zenon DEF Check, FireReload, bounds

\* The thread's clocks and counters stay in their ranges.
LEMMA CounterStep ==
  TypeOK /\ [Next]_vars =>
    /\ age' \in 0 .. NotPending /\ wait' \in Nat /\ quiet' \in 0 .. Debounce
    /\ signals' \in Nat /\ extra' \in Nat
    /\ events' \in 0 .. MaxEvents /\ faults' \in 0 .. MaxFaults
<1> SUFFICES ASSUME TypeOK, [Next]_vars
             PROVE  /\ age' \in 0 .. NotPending /\ wait' \in Nat /\ quiet' \in 0 .. Debounce
                    /\ signals' \in Nat /\ extra' \in Nat
                    /\ events' \in 0 .. MaxEvents /\ faults' \in 0 .. MaxFaults
  OBVIOUS
<1>0. /\ age \in 0 .. NotPending /\ wait \in Nat /\ quiet \in 0 .. Debounce
      /\ signals \in Nat /\ extra \in Nat
      /\ events \in 0 .. MaxEvents /\ faults \in 0 .. MaxFaults
  BY DEF TypeOK
<1> USE <1>0, ConstAssumption DEF NotPending
<1>1. CASE Attached \/ Top
  BY <1>1 DEF Attached, Top, bounds
<1>2. CASE Check
  BY <1>2, CheckEffect
<1>3. CASE Tick
  BY <1>3 DEF Tick, Up, bounds
<1>4. CASE Reload \/ NewFails \/ Disconnected
  BY <1>4 DEF Reload, NewFails, Disconnected, Ends, thread, bounds
<1>5. CASE FileSystem \/ \E s \in Specs : AttachFails(s)
  BY <1>5 DEF FileSystem, AttachFails
<1>6. CASE UNCHANGED <<age, wait, signals, extra, bounds>> /\ quiet' \in {0, quiet}
  BY <1>6 DEF bounds
<1> QED
  BY <1>1, <1>2, <1>3, <1>4, <1>5, <1>6
  DEF Next, Thread, NewWatcher, RecvEvent, RecvTimeout, AttachSpec, SetStop, Change,
      Appears, Vanishes, Access, Error, vars, thread, bounds

\* Every step keeps the types.
LEMMA TypeStep == TypeOK /\ [Next]_vars => TypeOK'
<1> SUFFICES ASSUME TypeOK, [Next]_vars PROVE TypeOK'
  OBVIOUS
<1> DEFINE Control ==
      /\ wpc \in {"new", "attach", "top", "recv", "check", "done"}
      /\ round \in {"start", "timeout", "relevant", "junk"}
      /\ todo \subseteq Specs /\ attached \subseteq Specs
      Watches ==
      /\ watch \in [Specs -> {"none", "target", "parent"}]
      /\ \A s \in Specs : watch[s] # "none" => s \in attached
      /\ there \subseteq Specs /\ stale \subseteq Specs
<1>1. raw' \in Seq(Notices)
  <2>1. raw \in Seq(Notices)
    BY DEF TypeOK
  <2>2. CASE raw' = raw
    BY <2>1, <2>2
  <2>3. CASE raw # <<>> /\ raw' = Tail(raw)
    BY <2>1, <2>3
  <2>4. ASSUME NEW e \in Notices, raw' = Append(raw, e) PROVE raw' \in Seq(Notices)
    BY <2>1, <2>4
  <2> QED
    BY <2>2, <2>3, <2>4, RawStep
<1>2. Control'
  BY DEF TypeOK, Next, Thread, NewWatcher, Attached, Top, RecvEvent, RecvTimeout,
      Check, BeginAttach, AttachSpec, AttachFails, NewFails, Disconnected,
      Ends, Reload, SetStop, Tick, Change, Appears, Vanishes, FileSystem, Access,
      Error, vars, thread
<1>3. newly' \in BOOLEAN /\ cause' \in BOOLEAN /\ stop' \in BOOLEAN
  BY Zenon DEF TypeOK, Next, Thread, NewWatcher, Attached, Top, RecvEvent, RecvTimeout,
      Check, BeginAttach, FireReload, AttachSpec, AttachFails, NewFails, Disconnected,
      Ends, Reload, SetStop, Tick, Change, Appears, Vanishes, FileSystem, Access,
      Error, vars, thread, news, Reports
<1>4. Watches'
  <2>0. ASSUME NEW s \in Specs, AttachFails(s) PROVE Watches'
    BY <2>0 DEF AttachFails, news, TypeOK
  <2>1. ASSUME NEW s \in Specs, AttachSpec(s) PROVE Watches'
    BY <2>1, TargetType DEF AttachSpec, TypeOK, Specs
  <2>2. ASSUME NEW s \in Specs, Vanishes(s) PROVE Watches'
    BY <2>2, ReportsEffect DEF Vanishes, FileSystem, TypeOK
  <2>3. ASSUME NEW s \in Specs, Appears(s) PROVE Watches'
    BY <2>3, ReportsEffect DEF Appears, FileSystem, TypeOK
  <2>4. ASSUME NEW s \in Specs, NEW name \in Names, Change(s, name) PROVE Watches'
    BY <2>4, ReportsEffect DEF Change, FileSystem, TypeOK
  <2>5. CASE UNCHANGED <<watch, attached, there>> /\ (stale' = stale \/ stale' = {})
    BY <2>5 DEF TypeOK
  <2> QED
    BY <2>0, <2>1, <2>2, <2>3, <2>4, <2>5
    DEF Next, Thread, NewWatcher, Attached, Top, RecvEvent, RecvTimeout, Check,
        NewFails, Disconnected, Ends, Reload, SetStop, Tick, FileSystem,
        Access, Error, vars, thread, news
<1> QED
  BY <1>1, <1>2, <1>3, <1>4, CounterStep DEF TypeOK

\* Type correctness of the watcher thread; every watch belongs to a spec that
\* counts as attached.
THEOREM TypeCorrect == Spec => []TypeOK
<1>1. Init => TypeOK
  <2> SUFFICES ASSUME Init PROVE TypeOK
    OBVIOUS
  <2>1. newly \in BOOLEAN /\ cause \in BOOLEAN /\ stop \in BOOLEAN
    BY Zenon DEF Init
  <2>2. raw \in Seq(Notices)
    BY DEF Init
  <2> QED
    BY <2>1, <2>2, ConstAssumption DEF Init, TypeOK, NotPending
<1> QED
  BY <1>1, TypeStep, PTL DEF Spec

-----------------------------------------------------------------------------
\* Only Check fires a reload.
LEMMA OnlyCheckFires == [Next]_vars /\ ~Check => signals' = signals \/ signals' = signals - 1
  BY DEF Next, Thread, NewWatcher, Attached, Top, RecvEvent, RecvTimeout, AttachSpec,
      AttachFails, NewFails, Disconnected, Ends, Reload, SetStop, Tick, FileSystem,
      Change, Appears, Vanishes, Access, Error, vars

\* Every step keeps "pending" younger than what it waits for.
LEMMA DebounceStep == TypeOK /\ DebounceInv /\ [Next]_vars => DebounceInv'
<1> SUFFICES ASSUME TypeOK, DebounceInv, [Next]_vars PROVE DebounceInv'
  OBVIOUS
<1>1. age \in 0 .. NotPending /\ quiet \in 0 .. Debounce
  BY DEF TypeOK
<1> USE ConstAssumption DEF DebounceInv, NotPending
<1>2. CASE Attached
  <2>1. age' = 0 \/ (age' = age /\ ~WillPend)
    BY <1>2, Zenon DEF Attached, WillPend
  <2>2. quiet' = quiet
    BY <1>2 DEF Attached
  <2> QED
    BY <1>1, <2>1, <2>2
<1>3. CASE Check
  <2>1. ~WillPend
    BY <1>3, CheckEffect DEF WillPend
  <2> QED
    BY <1>1, <1>3, <2>1, CheckEffect
<1>4. CASE Tick
  <2>1. WillPend' <=> WillPend
    BY <1>4 DEF Tick, WillPend
  <2> QED
    BY <1>1, <1>4, <2>1 DEF Tick, Up
<1>5. CASE UNCHANGED <<age, quiet>> /\ (WillPend => WillPend')
  BY <1>5
<1>6. CASE RecvEvent
  <2>1. age' = age /\ ~WillPend
    BY <1>6 DEF RecvEvent, WillPend
  <2>2. quiet' = quiet \/ WillPend'
    BY <1>6 DEF RecvEvent, WillPend
  <2> QED
    BY <2>1, <2>2
<1>7. ASSUME NEW s \in Specs, AttachSpec(s) PROVE DebounceInv'
  <2>1. WillPend => WillPend'
    BY <1>7, Zenon DEF AttachSpec, WillPend
  <2>2. quiet' = quiet \/ WillPend'
    BY <1>7, Zenon DEF AttachSpec, WillPend
  <2>3. age' = age
    BY <1>7 DEF AttachSpec
  <2> QED
    BY <2>1, <2>2, <2>3
<1>8. CASE NewWatcher \/ Top \/ RecvTimeout \/ NewFails \/ Disconnected
  <2>1. UNCHANGED <<age, quiet>> /\ ~WillPend
    BY <1>8 DEF NewWatcher, Top, RecvTimeout, NewFails, Disconnected, Ends, WillPend
  <2> QED
    BY <1>5, <2>1
<1>9. CASE UNCHANGED <<wpc, round, newly, age, quiet>>
  BY <1>5, <1>9 DEF WillPend
<1> QED
  BY <1>2, <1>3, <1>4, <1>6, <1>7, <1>8, <1>9
  DEF Next, Thread, AttachFails, Reload, SetStop, FileSystem, Change, Appears,
      Vanishes, Access, Error, vars, thread

\* A reload comes a whole debounce after the last relevant event, the last late
\* attach and the last reload, for any debounce and poll interval and however
\* changes, late attaches and timeouts fall.
THEOREM DebounceCorrect == Spec => ReloadsDebounced
<1>1. Init => DebounceInv
  BY DEF Init, DebounceInv
<1>2. TypeOK /\ DebounceInv /\ [Next]_vars => [signals' > signals => quiet = Debounce]_vars
  <2> SUFFICES ASSUME TypeOK, DebounceInv, [Next]_vars, signals' > signals
               PROVE  quiet = Debounce
    OBVIOUS
  <2>1. age \in 0 .. NotPending /\ quiet \in 0 .. Debounce /\ signals \in Nat
    BY DEF TypeOK
  <2>2. Check
    BY <2>1, OnlyCheckFires
  <2>3. age = Debounce
    BY <2>1, <2>2, CheckEffect
  <2>4. ~WillPend
    BY <2>2, CheckEffect DEF WillPend
  <2> QED
    BY <2>1, <2>3, <2>4, ConstAssumption DEF DebounceInv, NotPending
<1> QED
  BY <1>1, <1>2, DebounceStep, TypeCorrect, PTL DEF Spec, ReloadsDebounced

-----------------------------------------------------------------------------
\* Every step keeps count of the reloads after the stop flag.
LEMMA StopStep == TypeOK /\ StopInv /\ [Next]_vars => StopInv'
<1> SUFFICES ASSUME TypeOK, StopInv, [Next]_vars PROVE StopInv'
  OBVIOUS
<1> USE DEF StopInv
<1>1. CASE Check
  BY <1>1, CheckEffect
<1>2. CASE Top
  BY <1>2 DEF Top
<1>3. CASE SetStop
  BY <1>3 DEF SetStop, thread
<1>4. CASE UNCHANGED <<stop, extra>> /\ (wpc' = wpc \/ wpc' = "done" \/ wpc \notin {"top", "done"})
  BY <1>4
<1> QED
  BY <1>1, <1>2, <1>3, <1>4
  DEF Next, Thread, NewWatcher, Attached, RecvEvent, RecvTimeout, AttachSpec,
      AttachFails, NewFails, Disconnected, Ends, Reload, FileSystem, Change, Appears,
      Vanishes, Access, Error, Tick, vars, thread

\* After the stop flag at most one more reload fires, wherever in its loop the
\* thread is when the flag is set.
THEOREM StopCorrect == Spec => []OneReloadAfterStop
<1>1. Init => StopInv
  BY DEF Init, StopInv
<1>2. TypeOK /\ StopInv => OneReloadAfterStop
  BY DEF StopInv, OneReloadAfterStop
<1> QED
  BY <1>1, <1>2, StopStep, TypeCorrect, PTL DEF Spec

-----------------------------------------------------------------------------
\* What is known of the channel.
LEMMA RawType ==
  ASSUME TypeOK
  PROVE  /\ Len(raw) \in Nat
         /\ \A i \in 1 .. Len(raw) : raw[i] \in Notices
         /\ raw # <<>> => Len(raw) > 0 /\ 1 \in 1 .. Len(raw) /\ Head(raw) = raw[1]
<1>1. raw \in Seq(Notices)
  BY DEF TypeOK
<1> QED
  BY <1>1

\* What it holds once an event is taken from it.
LEMMA RawTail ==
  ASSUME TypeOK, raw # <<>>, raw' = Tail(raw)
  PROVE  /\ Len(raw') = Len(raw) - 1
         /\ \A i \in 1 .. Len(raw') : i + 1 \in 1 .. Len(raw) /\ raw'[i] = raw[i + 1]
         /\ \A i \in 2 .. Len(raw) : i - 1 \in 1 .. Len(raw') /\ raw'[i - 1] = raw[i]
<1>1. raw \in Seq(Notices)
  BY DEF TypeOK
<1> QED
  BY <1>1, RawType

\* What it holds once an event is put into it.
LEMMA RawAppend ==
  ASSUME TypeOK, NEW e \in Notices, raw' = Append(raw, e)
  PROVE  /\ Len(raw') = Len(raw) + 1 /\ raw'[Len(raw) + 1] = e
         /\ \A i \in 1 .. Len(raw) : i \in 1 .. Len(raw') /\ raw'[i] = raw[i]
         /\ \A i \in 1 .. Len(raw') : i \in 1 .. Len(raw) \/ i = Len(raw) + 1
         /\ Len(raw) + 1 \in 1 .. Len(raw')
<1>1. raw \in Seq(Notices)
  BY DEF TypeOK
<1> QED
  BY <1>1, RawType

\* The thread takes the first notice: an error, or an event to be handled.
LEMMA RecvEffect ==
  ASSUME TypeOK, RecvEvent
  PROVE  /\ wpc = "recv" /\ raw # <<>> /\ raw' = Tail(raw)
         /\ UNCHANGED <<stale, cause, age, signals>>
         /\ \/ wpc' = "top"
            \/ wpc' = "attach" /\ newly' = FALSE /\ round' \in {"relevant", "junk"}
         /\ (wpc' = "attach" /\ round' = "relevant")
              <=> (raw[1].kind # "error" /\ raw[1].relevant)
  BY RawType DEF RecvEvent, BeginAttach, news

\* The steps of the file system and of notify, and what they tell the thread:
\* nothing, an event nobody has to know of, or a change.
Outside ==
  \/ Error \/ \E name \in Names : Access(name)
  \/ \E s \in Specs : Appears(s) \/ Vanishes(s)
  \/ \E s \in Specs, name \in Names : Change(s, name)

Told(e) ==
  \/ stale' = stale /\ cause' = cause /\ ~(e.kind = "event" /\ e.relevant) /\ ~e.concerns
  \/ \E s \in Specs, name \in AllNames :
       /\ e = Event("modify", name)
       /\ stale' = IF name \in Concerns[s] THEN stale \cup {s} ELSE stale
       /\ cause' = (cause \/ Concerning(name))

\* They change nothing else that leads to a reload.
LEMMA OutsideEffect ==
  ASSUME Outside
  PROVE  /\ UNCHANGED <<wpc, round, newly, age, signals>>
         /\ \/ UNCHANGED <<raw, stale, cause>>
            \/ \E e \in Notices : raw' = Append(raw, e) /\ Told(e)
<1>1. ASSUME NEW s \in Specs, NEW name \in AllNames, NEW where, Reports(s, where, name)
      PROVE  \/ UNCHANGED <<raw, stale, cause>>
             \/ \E e \in Notices : raw' = Append(raw, e) /\ Told(e)
  <2>1. CASE UNCHANGED <<raw, stale, cause>>
    BY <2>1
  <2>2. CASE raw' = Append(raw, Event("modify", name))
    <3>1. Told(Event("modify", name)) \/ UNCHANGED <<raw, stale, cause>>
      BY <1>1, ReportsEffect, Zenon DEF Told
    <3>2. Event("modify", name) \in Notices
      BY EventType
    <3> QED
      BY <2>2, <3>1, <3>2
  <2> QED
    BY <1>1, <2>1, <2>2, ReportsEffect
<1>2. ASSUME NEW s \in Specs, Appears(s) \/ Vanishes(s)
      PROVE  \/ UNCHANGED <<raw, stale, cause>>
             \/ \E e \in Notices : raw' = Append(raw, e) /\ Told(e)
  <2>1. DirName[s] \in AllNames
    BY DEF AllNames
  <2> QED
    BY <1>1, <1>2, <2>1 DEF Appears, Vanishes
<1>3. ASSUME NEW s \in Specs, NEW name \in Names, Change(s, name)
      PROVE  \/ UNCHANGED <<raw, stale, cause>>
             \/ \E e \in Notices : raw' = Append(raw, e) /\ Told(e)
  BY <1>1, <1>3 DEF Change, AllNames
<1>4. ASSUME NEW name \in Names, Access(name)
      PROVE  \E e \in Notices : raw' = Append(raw, e) /\ Told(e)
  <2> DEFINE e == Event("access", name)
  <2>1. e \in Notices /\ ~Relevant("access", name)
    BY EventType DEF Relevant
  <2>2. ~e.relevant /\ ~e.concerns
    BY <2>1, EventType, Zenon
  <2>3. raw' = Append(raw, e) /\ stale' = stale /\ cause' = cause
    BY <1>4 DEF Access, news
  <2> HIDE DEF e
  <2> QED
    BY <2>1, <2>2, <2>3, Zenon DEF Told
<1>5. ASSUME Error PROVE \E e \in Notices : raw' = Append(raw, e) /\ Told(e)
  <2>1. NotifyError \in Notices /\ NotifyError.kind # "event" /\ ~NotifyError.concerns
    BY DEF NotifyError, Notices
  <2>2. raw' = Append(raw, NotifyError) /\ stale' = stale /\ cause' = cause
    BY <1>5 DEF Error, news
  <2>3. Told(NotifyError)
    BY <2>1, <2>2 DEF Told
  <2> QED
    BY <2>1, <2>2, <2>3
<1>6. UNCHANGED <<wpc, round, newly, age, signals>>
  BY DEF Outside, Error, Access, Appears, Vanishes, Change, FileSystem
<1> QED
  BY <1>2, <1>3, <1>4, <1>5, <1>6 DEF Outside

\* Every step keeps a cause behind what leads to a reload.
LEMMA CauseStep ==
  ASSUME FiltersSound
  PROVE  TypeOK /\ CauseInv /\ [Next]_vars => CauseInv'
<1> SUFFICES ASSUME TypeOK, CauseInv, [Next]_vars PROVE CauseInv'
  OBVIOUS
<1>1. cause \in BOOLEAN
  BY DEF TypeOK
<1>2. CASE Outside
  <2>1. UNCHANGED <<age, WillPend>>
    BY <1>2, OutsideEffect DEF WillPend
  <2>2. CASE UNCHANGED <<raw, stale, cause>>
    BY <2>1, <2>2, Zenon DEF CauseInv
  <2>3. ASSUME NEW e \in Notices, raw' = Append(raw, e), Told(e) PROVE CauseInv'
    <3>1. /\ e.kind = "event" /\ e.relevant => e.concerns
          /\ e.concerns => cause'
          /\ cause => cause'
      <4>1. CASE stale' = stale /\ cause' = cause /\ ~(e.kind = "event" /\ e.relevant) /\ ~e.concerns
        BY <4>1, Zenon
      <4>2. ASSUME NEW s \in Specs, NEW name \in AllNames, e = Event("modify", name),
                   cause' = (cause \/ Concerning(name))
            PROVE  /\ e.kind = "event" /\ e.relevant => e.concerns
                   /\ e.concerns => cause'
                   /\ cause => cause'
        <5>1. (e.relevant <=> Relevant("modify", name)) /\ (e.concerns <=> Concerning(name))
          BY <4>2, EventType, Zenon
        <5>2. Relevant("modify", name) => Concerning(name)
          BY Zenon DEF FiltersSound, Relevant
        <5> QED
          BY <4>2, <5>1, <5>2, Zenon
      <4> QED
        BY <2>3, <4>1, <4>2, Zenon DEF Told
    <3>2. \A i \in 1 .. Len(raw') : raw'[i] = e \/ (i \in 1 .. Len(raw) /\ raw'[i] = raw[i])
      BY <2>3, RawAppend
    <3> QED
      BY <2>1, <3>1, <3>2, Zenon DEF CauseInv
  <2> QED
    BY <1>2, <2>2, <2>3, OutsideEffect
<1>3. CASE RecvEvent
  <2>1. /\ raw # <<>> /\ raw' = Tail(raw) /\ UNCHANGED <<cause, age>>
        /\ WillPend' => raw[1].kind # "error" /\ raw[1].relevant
    BY <1>3, RecvEffect DEF WillPend
  <2>2. \A i \in 1 .. Len(raw') : i + 1 \in 1 .. Len(raw) /\ raw'[i] = raw[i + 1]
    BY <2>1, RawTail
  <2>3. WillPend' => cause
    <3>1. raw[1] \in Notices /\ 1 \in 1 .. Len(raw)
      BY <2>1, RawType
    <3>2. raw[1].kind \in {"error", "event"}
      BY <3>1 DEF Notices, NotifyError
    <3> QED
      BY <2>1, <3>1, <3>2, Zenon DEF CauseInv
  <2> QED
    BY <2>1, <2>2, <2>3, Zenon DEF CauseInv
<1>4. ASSUME NEW s \in Specs, AttachSpec(s) PROVE CauseInv'
  BY <1>4, Zenon DEF AttachSpec, CauseInv, WillPend
<1>5. CASE Attached
  BY <1>5, Zenon DEF Attached, CauseInv, WillPend, news
<1>6. CASE Check
  <2>1. wpc' # "attach" /\ raw' = raw
    BY <1>6, CheckEffect
  <2>2. CASE age = Debounce
    BY <1>6, <2>1, <2>2, Zenon DEF Check, FireReload, CauseInv, WillPend, NotPending
  <2>3. CASE age # Debounce
    BY <1>6, <2>1, <2>3, Zenon DEF Check, CauseInv, WillPend
  <2> QED
    BY <2>2, <2>3
<1>7. CASE Tick
  <2>1. age = NotPending => age' = NotPending
    BY <1>7, ConstAssumption DEF Tick, Up, NotPending, TypeOK
  <2> QED
    BY <1>7, <2>1, Zenon DEF Tick, CauseInv, WillPend, news
<1>8. CASE UNCHANGED <<raw, cause, age>> /\ (WillPend' => WillPend)
  BY <1>8, Zenon DEF CauseInv
<1>9. CASE NewWatcher \/ RecvTimeout
  <2>1. UNCHANGED <<raw, cause, age>> /\ newly' = FALSE /\ round' # "relevant"
    BY <1>9 DEF NewWatcher, RecvTimeout, BeginAttach, news
  <2> QED
    BY <1>8, <2>1 DEF WillPend
<1>10. CASE Top \/ NewFails \/ Disconnected
  <2>1. UNCHANGED <<raw, cause, age>> /\ wpc' # "attach"
    BY <1>10 DEF Top, NewFails, Disconnected, Ends, news
  <2> QED
    BY <1>8, <2>1 DEF WillPend
<1>11. CASE UNCHANGED <<wpc, round, newly, raw, cause, age>>
  BY <1>8, <1>11 DEF WillPend
<1> QED
  BY <1>2, <1>3, <1>4, <1>5, <1>6, <1>7, <1>9, <1>10, <1>11
  DEF Next, Thread, Outside, AttachFails, Reload, SetStop, vars, thread, news

\* No reload without a reason of its own, for any filters that let nothing
\* through but configuration: neither junk and foreign names nor polls, failed
\* attaches, accesses and errors lead to one.
THEOREM CauseCorrect == ASSUME FiltersSound PROVE Spec => ReloadHasCause
<1>1. Init => CauseInv
  BY DEF Init, CauseInv, WillPend
<1>2. TypeOK /\ CauseInv /\ [Next]_vars => [signals' > signals => cause]_vars
  <2> SUFFICES ASSUME TypeOK, CauseInv, [Next]_vars, signals' > signals
               PROVE  cause
    OBVIOUS
  <2>1. Check
    BY OnlyCheckFires DEF TypeOK
  <2>2. age = Debounce
    BY <2>1, CheckEffect DEF TypeOK
  <2>3. age # NotPending
    BY <2>2, ConstAssumption DEF NotPending
  <2> QED
    BY <2>3 DEF CauseInv
<1> QED
  BY <1>1, <1>2, CauseStep, TypeCorrect, PTL DEF Spec, ReloadHasCause

-----------------------------------------------------------------------------
\* Every step passes a change on towards its reload.
LEMMA ForgottenStep ==
  ASSUME FiltersComplete
  PROVE  TypeOK /\ NothingForgotten /\ [Next]_vars => NothingForgotten'
<1> SUFFICES ASSUME TypeOK, NothingForgotten, [Next]_vars PROVE NothingForgotten'
  OBVIOUS
<1> DEFINE InChannel == \E i \in 1 .. Len(raw) : raw[i].kind = "event" /\ raw[i].relevant
<1>1. signals \in Nat /\ age \in 0 .. NotPending
  BY DEF TypeOK
<1>2. CASE Outside
  <2>1. UNCHANGED <<wpc, signals, age, WillPend>>
    BY <1>2, OutsideEffect DEF WillPend
  <2>2. CASE UNCHANGED <<raw, stale, cause>>
    BY <2>1, <2>2 DEF NothingForgotten
  <2>3. ASSUME NEW e \in Notices, raw' = Append(raw, e), Told(e) PROVE NothingForgotten'
    <3>1. InChannel => InChannel'
      BY <2>3, RawAppend
    <3>2. stale' = stale \/ (e.kind = "event" /\ e.relevant)
      <4>1. ASSUME NEW s \in Specs, NEW name \in AllNames, e = Event("modify", name),
                   name \in Concerns[s]
            PROVE  e.kind = "event" /\ e.relevant
        <5>1. Relevant("modify", name)
          BY <4>1, Zenon DEF FiltersComplete, Relevant
        <5> QED
          BY <4>1, <5>1, EventType, Zenon
      <4> QED
        BY <2>3, <4>1, Zenon DEF Told
    <3>3. e.kind = "event" /\ e.relevant => InChannel'
      BY <2>3, RawAppend
    <3> QED
      BY <2>1, <3>1, <3>2, <3>3, Zenon DEF NothingForgotten
  <2> QED
    BY <1>2, <2>2, <2>3, OutsideEffect
<1>3. CASE RecvEvent
  <2>1. /\ wpc = "recv" /\ raw # <<>> /\ raw' = Tail(raw)
        /\ UNCHANGED <<stale, age, signals>>
        /\ raw[1].kind = "event" /\ raw[1].relevant => WillPend'
    BY <1>3, RecvEffect DEF WillPend
  <2>2. InChannel => InChannel' \/ WillPend'
    <3> SUFFICES ASSUME NEW i \in 1 .. Len(raw), raw[i].kind = "event", raw[i].relevant
                 PROVE  InChannel' \/ WillPend'
      OBVIOUS
    <3>1. CASE i = 1
      BY <2>1, <3>1
    <3>2. CASE i # 1
      <4>1. i - 1 \in 1 .. Len(raw') /\ raw'[i - 1] = raw[i]
        BY <2>1, <3>2, RawTail, RawType
      <4> QED
        BY <4>1
    <3> QED
      BY <3>1, <3>2
  <2>3. ~WillPend
    BY <2>1 DEF WillPend
  <2> QED
    BY <2>1, <2>2, <2>3, Zenon DEF NothingForgotten
<1>4. ASSUME NEW s \in Specs, AttachSpec(s) PROVE NothingForgotten'
  <2>1. /\ WillPend => WillPend'
        /\ stale' = stale \/ WillPend'
    BY <1>4, Zenon DEF AttachSpec, WillPend
  <2> QED
    BY <1>4, <2>1 DEF AttachSpec, NothingForgotten
<1>5. CASE Attached
  <2>1. WillPend => age' = 0 /\ age' # NotPending'
    BY <1>5, ConstAssumption DEF Attached, WillPend, NotPending
  <2>2. age' = age \/ age' # NotPending'
    <3>1. age' = age \/ age' = 0
      BY <1>5, Zenon DEF Attached
    <3> QED
      BY <3>1, ConstAssumption DEF NotPending
  <2> QED
    BY <1>5, <2>1, <2>2 DEF Attached, NothingForgotten, news, NotPending
<1>6. CASE Check
  BY <1>1, <1>6, CheckEffect DEF NothingForgotten, WillPend
<1>7. CASE Tick
  <2>1. age # NotPending => age' # NotPending
    BY <1>1, <1>7, ConstAssumption DEF Tick, Up, NotPending
  <2> QED
    BY <1>7, <2>1 DEF Tick, NothingForgotten, WillPend, news, NotPending
<1>8. CASE Reload
  BY <1>8 DEF Reload, NothingForgotten
<1>9. CASE NewFails \/ Disconnected
  BY <1>9 DEF NewFails, Disconnected, Ends, NothingForgotten
<1>10. CASE NewWatcher \/ Top \/ RecvTimeout
  <2>1. UNCHANGED <<stale, raw, age, signals>> /\ ~WillPend /\ wpc # "done"
    BY <1>10 DEF NewWatcher, Top, RecvTimeout, WillPend, news
  <2> QED
    BY <2>1 DEF NothingForgotten, NotPending
<1>11. CASE UNCHANGED <<wpc, round, newly, stale, raw, age, signals>>
  BY <1>11 DEF NothingForgotten, WillPend, NotPending
<1> QED
  BY <1>2, <1>3, <1>4, <1>5, <1>6, <1>7, <1>8, <1>9, <1>10, <1>11
  DEF Next, Thread, Outside, AttachFails, SetStop, vars, thread, news

\* No change is forgotten on its way to the application, for any filters that
\* let the configuration of their spec through, whatever other events, errors,
\* failing attaches and timeouts come in between.
THEOREM NothingForgottenCorrect == ASSUME FiltersComplete PROVE Spec => []NothingForgotten
<1>1. Init => NothingForgotten
  BY DEF Init, NothingForgotten
<1> QED
  BY <1>1, ForgottenStep, TypeCorrect, PTL DEF Spec
=============================================================================
