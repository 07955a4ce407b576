--------------------------- MODULE AcceptLoopProofs ---------------------------
(***************************************************************************)
(* The slot counter of AcceptLoop is exact and the cap holds, for every    *)
(* set of clients, every cap and every backlog.                            *)
(*                                                                         *)
(* CounterExact alone is not inductive.  Accept must know that the head of *)
(* the backlog holds no slot, Add that the stream in hand is not counted   *)
(* yet, and Load's answer must survive until Add: QueueInv, HandInv and    *)
(* CapInv say so.                                                          *)
(***************************************************************************)
EXTENDS AcceptLoop, FiniteSetTheorems, TLAPS

\* The backlog lists queued connections, each once.
QueueInv ==
  /\ \A i \in DOMAIN backlog : conn[backlog[i]] = "queued"
  /\ \A i, j \in DOMAIN backlog : backlog[i] = backlog[j] => i = j

\* What the acceptor holds in each of its steps.
HandInv ==
  /\ acc \in {"accept"} \cup Stopped <=> cur = NoClient
  /\ acc \in {"load", "reject", "add"} => capped /\ conn[cur] = "accepted"
  /\ acc = "spawn" => conn[cur] = IF capped THEN "counted" ELSE "accepted"

\* Between load and fetch_add the counter stays below the cap.
CapInv ==
  /\ capped => clients <= MaxClients
  /\ acc = "add" => clients < MaxClients

IInv == TypeOK /\ QueueInv /\ HandInv /\ CounterExact /\ CapInv

-----------------------------------------------------------------------------
\* The connections that hold a slot are finitely many.
LEMMA SlotsFinite ==
  ASSUME TypeOK
  PROVE  IsFiniteSet(Slots) /\ Cardinality(Slots) \in Nat
<1>1. Slots \subseteq Client  BY DEF Slots
<1>2. IsFiniteSet(Slots)  BY <1>1, ConstAssumption, FS_Subset
<1> QED  BY <1>2, FS_CardinalityType

\* A step that changes connection c only, between two states that both hold
\* a slot or both hold none, leaves the slots as they are.
LEMMA SlotsSame ==
  ASSUME TypeOK, NEW c \in Client, NEW s \in ConnStates, SetConn(c, s),
         conn[c] \in {"counted", "running", "release"}
           <=> s \in {"counted", "running", "release"}
  PROVE  Slots' = Slots
BY DEF TypeOK, SetConn, Slots

\* Taking a slot (fetch_add) makes the set of slots one larger.
LEMMA SlotTaken ==
  ASSUME TypeOK, NEW c \in Client, conn[c] = "accepted", SetConn(c, "counted")
  PROVE  Cardinality(Slots') = Cardinality(Slots) + 1
<1>1. Slots' = Slots \cup {c} /\ c \notin Slots  BY DEF TypeOK, SetConn, Slots
<1> QED  BY <1>1, SlotsFinite, FS_AddElement

\* Leaving a slot (the handler ends, or the acceptor unwinds) makes the set
\* of slots one smaller.
LEMMA SlotLeft ==
  ASSUME TypeOK, NEW c \in Client, c \in Slots, Slots' = Slots \ {c}
  PROVE  Cardinality(Slots') = Cardinality(Slots) - 1 /\ Cardinality(Slots) > 0
<1>1. Cardinality(Slots \ {c}) = Cardinality(Slots) - 1
  BY SlotsFinite, FS_RemoveElement
<1>2. IsFiniteSet(Slots \ {c}) /\ Cardinality(Slots \ {c}) \in Nat
  BY SlotsFinite, FS_RemoveElement, FS_CardinalityType
<1> QED  BY <1>1, <1>2, SlotsFinite

-----------------------------------------------------------------------------
\* Every step of the acceptor, of the handlers and of the environment keeps
\* the invariant.
LEMMA InvStep == IInv /\ [Next]_vars => IInv'
<1> SUFFICES ASSUME IInv, [Next]_vars PROVE IInv'
  OBVIOUS
<1> USE ConstAssumption DEF IInv
<1>1. CASE UNCHANGED vars
  BY <1>1 DEF vars, TypeOK, QueueInv, HandInv, CounterExact, CapInv, Slots
<1>2. CASE Accept
  <2>1. /\ Head(backlog) = backlog[1] /\ 1 \in DOMAIN backlog
        /\ backlog[1] \in Client /\ conn[backlog[1]] = "queued"
    BY <1>2 DEF Accept, TypeOK, QueueInv
  <2>2. TypeOK'
    BY <1>2, <2>1 DEF Accept, TypeOK, SetConn, AccStates, ConnStates
  <2>3. QueueInv'
    BY <1>2, <2>1 DEF Accept, TypeOK, QueueInv, SetConn
  <2>4. HandInv'
    BY <1>2, <2>1 DEF Accept, TypeOK, HandInv, SetConn, Stopped
  <2>5. Slots' = Slots
    BY <1>2, <2>1, SlotsSame DEF Accept, ConnStates
  <2>6. CounterExact' /\ CapInv'
    BY <1>2, <2>5 DEF Accept, CounterExact, CapInv
  <2> QED  BY <2>2, <2>3, <2>4, <2>6
<1>3. CASE Load
  <2>1. TypeOK' /\ QueueInv' /\ HandInv'
    BY <1>3 DEF Load, TypeOK, QueueInv, HandInv, AccStates, Stopped
  <2>2. CounterExact' /\ CapInv'
    BY <1>3 DEF Load, TypeOK, CounterExact, CapInv, Slots
  <2> QED  BY <2>1, <2>2
<1>4. CASE Reject
  <2>1. cur \in Client /\ conn[cur] = "accepted"
    BY <1>4 DEF Reject, HandInv, TypeOK, Stopped
  <2>2. TypeOK' /\ QueueInv' /\ HandInv'
    BY <1>4, <2>1
    DEF Reject, TypeOK, QueueInv, HandInv, SetConn, AccStates, ConnStates, Stopped
  <2>3. Slots' = Slots
    BY <1>4, <2>1, SlotsSame DEF Reject, ConnStates
  <2>4. CounterExact' /\ CapInv'
    BY <1>4, <2>3 DEF Reject, CounterExact, CapInv
  <2> QED  BY <2>2, <2>4
<1>5. CASE Add
  <2>1. cur \in Client /\ conn[cur] = "accepted" /\ capped
    BY <1>5 DEF Add, HandInv, TypeOK, Stopped
  <2>2. TypeOK' /\ QueueInv' /\ HandInv'
    BY <1>5, <2>1
    DEF Add, TypeOK, QueueInv, HandInv, SetConn, AccStates, ConnStates, Stopped
  <2>3. Cardinality(Slots') = Cardinality(Slots) + 1
    BY <1>5, <2>1, SlotTaken DEF Add
  <2>4. CounterExact' /\ CapInv'
    BY <1>5, <2>1, <2>3, SlotsFinite DEF Add, TypeOK, CounterExact, CapInv
  <2> QED  BY <2>2, <2>4
<1>6. CASE Spawn
  <2>1. cur \in Client /\ conn[cur] = IF capped THEN "counted" ELSE "accepted"
    BY <1>6 DEF Spawn, HandInv, TypeOK, Stopped
  <2>2. TypeOK' /\ QueueInv' /\ HandInv'
    BY <1>6, <2>1
    DEF Spawn, TypeOK, QueueInv, HandInv, SetConn, AccStates, ConnStates, Stopped
  <2>3. capped => Slots' = Slots
    BY <1>6, <2>1, SlotsSame DEF Spawn, ConnStates
  <2>4. CounterExact' /\ CapInv'
    BY <1>6, <2>3 DEF Spawn, CounterExact, CapInv
  <2> QED  BY <2>2, <2>4
<1>7. CASE AcceptErr
  <2>1. CASE path # "gone"
    BY <1>7, <2>1
    DEF AcceptErr, vars, TypeOK, QueueInv, HandInv, CounterExact, CapInv, Slots
  <2>2. CASE path = "gone"
    <3>1. cur = NoClient
      BY <1>7 DEF AcceptErr, HandInv
    <3>2. TypeOK' /\ QueueInv' /\ HandInv'
      BY <1>7, <2>2, <3>1
      DEF AcceptErr, Stop, TypeOK, QueueInv, HandInv, AccStates, ConnStates, Stopped
    <3>3. Slots' = Slots
      BY <1>7, <2>2, <3>1 DEF AcceptErr, Stop, TypeOK, Slots
    <3>4. CounterExact' /\ CapInv'
      BY <1>7, <2>2, <3>3 DEF AcceptErr, Stop, CounterExact, CapInv
    <3> QED  BY <3>2, <3>4
  <2> QED  BY <2>1, <2>2
<1>8. CASE AcceptorPanic
  <2>1. cur \in Client /\ cur # NoClient
    BY <1>8 DEF AcceptorPanic, HandInv, TypeOK, Stopped
  <2>2. TypeOK' /\ QueueInv' /\ HandInv'
    BY <1>8, <2>1
    DEF AcceptorPanic, Stop, TypeOK, QueueInv, HandInv, AccStates, ConnStates, Stopped
  <2>3. CASE acc = "spawn" /\ capped
    <3>1. cur \in Slots /\ Slots' = Slots \ {cur}
      BY <1>8, <2>1, <2>3 DEF AcceptorPanic, Stop, TypeOK, HandInv, Slots
    <3>2. Cardinality(Slots') = Cardinality(Slots) - 1
      BY <2>1, <3>1, SlotLeft
    <3>3. CounterExact' /\ CapInv'
      BY <1>8, <2>3, <3>2, SlotsFinite
      DEF AcceptorPanic, Stop, TypeOK, CounterExact, CapInv
    <3> QED  BY <2>2, <3>3
  <2>4. CASE ~(acc = "spawn" /\ capped)
    <3>1. capped => Slots' = Slots
      BY <1>8, <2>1, <2>4 DEF AcceptorPanic, Stop, TypeOK, HandInv, Slots
    <3> QED
      BY <1>8, <2>2, <2>4, <3>1
      DEF AcceptorPanic, Stop, CounterExact, CapInv
  <2> QED  BY <2>3, <2>4
<1>9. CASE PathChange
  <2>1. TypeOK' /\ QueueInv' /\ HandInv'
    BY <1>9 DEF PathChange, TypeOK, QueueInv, HandInv
  <2>2. CounterExact' /\ CapInv'
    BY <1>9 DEF PathChange, CounterExact, CapInv, Slots
  <2> QED  BY <2>1, <2>2
<1>10. ASSUME NEW c \in Client, Connect(c) PROVE IInv'
  <2>1. TypeOK'
    BY <1>10 DEF Connect, TypeOK, SetConn, ConnStates
  <2>2. QueueInv'
    <3>1. /\ DOMAIN backlog = 1 .. Len(backlog) /\ Len(backlog) \in Nat
          /\ DOMAIN backlog' = 1 .. Len(backlog) + 1
          /\ backlog'[Len(backlog) + 1] = c
          /\ \A i \in 1 .. Len(backlog) : backlog'[i] = backlog[i]
      BY <1>10 DEF Connect, TypeOK
    <3>2. \A i \in 1 .. Len(backlog) : backlog[i] # c
      BY <1>10, <3>1 DEF Connect, QueueInv
    <3>3. \A i \in 1 .. Len(backlog) : backlog[i] \in Client
      BY <3>1 DEF TypeOK
    <3> QED
      BY <1>10, <3>1, <3>2, <3>3 DEF Connect, QueueInv, SetConn, TypeOK
  <2>3. HandInv'
    BY <1>10 DEF Connect, TypeOK, HandInv, SetConn
  <2>4. Slots' = Slots
    BY <1>10, SlotsSame DEF Connect, ConnStates
  <2>5. CounterExact' /\ CapInv'
    BY <1>10, <2>4 DEF Connect, CounterExact, CapInv
  <2> QED  BY <2>1, <2>2, <2>3, <2>5
<1>11. ASSUME NEW c \in Client, HandlerReturn(c) PROVE IInv'
  <2>1. TypeOK' /\ QueueInv' /\ HandInv'
    BY <1>11 DEF HandlerReturn, TypeOK, QueueInv, HandInv, SetConn, ConnStates
  <2>2. Slots' = Slots
    BY <1>11, SlotsSame DEF HandlerReturn, ConnStates
  <2>3. CounterExact' /\ CapInv'
    BY <1>11, <2>2 DEF HandlerReturn, CounterExact, CapInv
  <2> QED  BY <2>1, <2>3
<1>12. ASSUME NEW c \in Client, Release(c) PROVE IInv'
  <2>1. c \in Slots /\ Slots' = Slots \ {c}
    BY <1>12 DEF Release, TypeOK, SetConn, Slots
  <2>2. Cardinality(Slots') = Cardinality(Slots) - 1 /\ Cardinality(Slots) > 0
    BY <2>1, SlotLeft
  <2>3. CounterExact' /\ CapInv' /\ clients' \in Nat
    BY <1>12, <2>2, SlotsFinite DEF Release, TypeOK, CounterExact, CapInv
  <2>4. TypeOK' /\ QueueInv' /\ HandInv'
    BY <1>12, <2>3
    DEF Release, TypeOK, QueueInv, HandInv, SetConn, ConnStates
  <2> QED  BY <2>3, <2>4
<1>13. ASSUME NEW c \in Client, HandlerPanic(c) PROVE IInv'
  <2>1. c \in Slots /\ Slots' = Slots \ {c}
    BY <1>13 DEF HandlerPanic, TypeOK, SetConn, Slots
  <2>2. Cardinality(Slots') = Cardinality(Slots) - 1 /\ Cardinality(Slots) > 0
    BY <2>1, SlotLeft
  <2>3. CounterExact' /\ CapInv'
    BY <1>13, <2>2, SlotsFinite DEF HandlerPanic, TypeOK, CounterExact, CapInv
  <2>4. TypeOK' /\ QueueInv' /\ HandInv'
    BY <1>13 DEF HandlerPanic, TypeOK, QueueInv, HandInv, SetConn, ConnStates
  <2> QED  BY <2>3, <2>4
<1> QED
  BY <1>1, <1>2, <1>3, <1>4, <1>5, <1>6, <1>7, <1>8, <1>9, <1>10, <1>11,
     <1>12, <1>13 DEF Next, AcceptorStep

\* The inductive invariant holds from the start of serve_listener() on.
LEMMA InvAlways == Spec => []IInv
<1>1. Init => IInv
  <2> SUFFICES ASSUME Init PROVE IInv
    OBVIOUS
  <2>1. TypeOK /\ QueueInv /\ HandInv /\ Slots = {}
    BY ConstAssumption
    DEF Init, TypeOK, QueueInv, HandInv, Slots, AccStates, ConnStates, Stopped
  <2>2. CounterExact /\ CapInv
    BY <2>1, FS_EmptySet, ConstAssumption DEF Init, CounterExact, CapInv
  <2> QED  BY <2>1, <2>2 DEF IInv
<1> QED  BY <1>1, InvStep, PTL DEF Spec

\* The state is well typed; in particular the usize counter never wraps
\* below zero in fetch_sub.
THEOREM TypeCorrect == Spec => []TypeOK
<1>1. IInv => TypeOK  BY DEF IInv
<1> QED  BY <1>1, InvAlways, PTL

\* The counter that serve_listener() compares with the cap is exact, for
\* every number of clients and every interleaving with the handlers.
THEOREM CounterCorrect == Spec => []CounterExact
<1>1. IInv => CounterExact  BY DEF IInv
<1> QED  BY <1>1, InvAlways, PTL

\* No more than max_clients connections are ever being handled, although
\* the test and the increment are two atomic operations.
THEOREM CapCorrect == Spec => []CapRespected
<1>1. IInv => CapRespected
  BY SlotsFinite, ConstAssumption DEF IInv, CounterExact, CapInv, CapRespected, TypeOK
<1> QED  BY <1>1, InvAlways, PTL

\* Busy is honest as long as no panic has lost a slot: then so many
\* handlers have really not finished.
THEOREM BusyHonest ==
  ASSUME MaxLeaks = 0
  PROVE  Spec => BusyMeansFull
<1>1. IInv /\ [Next]_vars =>
        [acc = "load" /\ acc' = "reject" => Cardinality(Slots) >= MaxClients]_vars
  <2> SUFFICES ASSUME IInv, Next, acc = "load", acc' = "reject"
               PROVE  Cardinality(Slots) >= MaxClients
    BY DEF vars
  <2>1. Load
    BY DEF Next, AcceptorStep, Accept, Load, Reject, Add, Spawn, AcceptErr,
           AcceptorPanic, PathChange, Connect, HandlerReturn, Release,
           HandlerPanic, Stop, vars
  <2>2. clients >= MaxClients
    BY <2>1 DEF Load
  <2>3. capped /\ leaked = 0
    BY MaxLeaks = 0 DEF IInv, HandInv, TypeOK
  <2> QED  BY <2>2, <2>3, SlotsFinite DEF IInv, CounterExact
<1> QED  BY <1>1, InvAlways, PTL DEF Spec, BusyMeansFull
=============================================================================
