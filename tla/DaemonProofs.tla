---------------------------- MODULE DaemonProofs ----------------------------
(***************************************************************************)
(* What AcceptLoopProofs shows of the counter holds in the daemon, whose   *)
(* acceptor and slots are those of AcceptLoop; and no request of a peer    *)
(* that the policy refuses is ever executed.                               *)
(***************************************************************************)
EXTENDS Daemon, AcceptLoopProofs

\* A session that has got past the check belongs to a peer the policy allows.
AllowedInv ==
  \A c \in Client : sess[c] \in {"read", "exec"} => Allows(policy, Peer[c])

\* Every step of the daemon is a step of the accept loop or leaves it alone.
LEMMA StepRefines == [DNext]_dvars => [Next]_vars
<1> SUFFICES ASSUME [DNext]_dvars PROVE [Next]_vars
  OBVIOUS
<1>1. CASE Acceptor
  BY <1>1 DEF Acceptor, Next
<1>2. CASE (AcceptErr \/ AcceptorPanic \/ PathChange) /\ LoopStep
  BY <1>2 DEF Next
<1>3. ASSUME NEW c \in Client, Arrive(c) PROVE Next
  BY <1>3 DEF Arrive, Next
<1>4. ASSUME NEW c \in Client, Send(c) \/ Leave(c) \/ ReadRequest(c)
      PROVE UNCHANGED vars
  BY <1>4 DEF Send, Leave, ReadRequest, GoesOn
<1>5. ASSUME NEW c \in Client, CheckAuth(c) \/ ReadEnd(c) \/ Execute(c) \/ ReadFails(c)
      PROVE [Next]_vars
  BY <1>5 DEF CheckAuth, ReadEnd, Execute, ReadFails, GoesOn, Ends, Next
<1>6. ASSUME NEW c \in Client, GiveBack(c) \/ Panics(c) PROVE Next
  BY <1>6 DEF GiveBack, Panics, Next
<1>7. CASE UNCHANGED dvars
  BY <1>7 DEF dvars
<1> QED
  BY <1>1, <1>2, <1>3, <1>4, <1>5, <1>6, <1>7 DEF DNext, Handler

\* The invariants of AcceptLoop are invariants of the daemon.
LEMMA LoopInside == DSpec => Spec
<1>1. DInit => Init
  BY DEF DInit
<1> QED
  BY <1>1, StepRefines, PTL DEF DSpec, Spec

\* The counter of serve_listener() is exact in the daemon as a whole.
THEOREM DaemonCounter == DSpec => []CounterExact
  BY LoopInside, CounterCorrect

\* The cap of serve_listener() holds in the daemon as a whole.
THEOREM DaemonCap == DSpec => []CapRespected
  BY LoopInside, CapCorrect

-----------------------------------------------------------------------------
LEMMA DTypeStep == TypeOK /\ TypeOK' /\ DTypeOK /\ [DNext]_dvars => DTypeOK'
<1> SUFFICES ASSUME TypeOK, TypeOK', DTypeOK, [DNext]_dvars PROVE DTypeOK'
  OBVIOUS
<1> USE DEF DTypeOK
<1>1. ASSUME LoopStep PROVE DTypeOK'
  BY <1>1 DEF LoopStep, TypeOK
<1>2. ASSUME NEW c \in Client, Arrive(c) PROVE DTypeOK'
  BY <1>2 DEF Arrive, Connect, SetConn, TypeOK
<1>3. ASSUME NEW c \in Client, Send(c) \/ Leave(c) PROVE DTypeOK'
  BY <1>3 DEF Send, Leave, vars
<1>4. ASSUME NEW c \in Client, NEW s \in {"read", "exec"}, sess[c] # "none",
             sent' \in [Client -> BOOLEAN], GoesOn(c, s)
      PROVE DTypeOK'
  BY <1>4 DEF GoesOn, SetSess, vars
<1>5. ASSUME NEW c \in Client, Handler(c) \/ ReadFails(c) \/ Panics(c) PROVE DTypeOK'
  <2>1. CASE CheckAuth(c) \/ Execute(c)
    BY <2>1, <1>1, <1>4 DEF CheckAuth, Execute, Ends
  <2>2. CASE ReadRequest(c)
    <3>1. sent' \in [Client -> BOOLEAN]  BY <2>2 DEF ReadRequest
    <3> QED  BY <2>2, <3>1, <1>4 DEF ReadRequest
  <2>3. CASE ReadEnd(c) \/ GiveBack(c) \/ ReadFails(c) \/ Panics(c)
    BY <2>3, <1>1 DEF ReadEnd, GiveBack, ReadFails, Panics, Ends
  <2> QED
    BY <1>5, <2>1, <2>2, <2>3 DEF Handler
<1>6. CASE UNCHANGED dvars
  BY <1>6 DEF dvars, vars
<1> QED
  BY <1>1, <1>2, <1>3, <1>5, <1>6 DEF DNext, Acceptor

\* The daemon is well typed, and a session exists exactly while its
\* handle_conn() runs.
THEOREM DTypeCorrect == DSpec => []DTypeOK
<1>1. DInit /\ TypeOK => DTypeOK
  BY DEF DInit, Init, DTypeOK
<1>2. DSpec => []TypeOK
  BY LoopInside, TypeCorrect
<1> QED
  BY <1>1, <1>2, DTypeStep, PTL DEF DSpec

LEMMA AllowedStep == DTypeOK /\ AllowedInv /\ [DNext]_dvars => AllowedInv'
<1> SUFFICES ASSUME DTypeOK, AllowedInv, [DNext]_dvars PROVE AllowedInv'
  OBVIOUS
<1> USE DEF AllowedInv
<1>1. ASSUME LoopStep PROVE AllowedInv'
  BY <1>1 DEF LoopStep
<1>2. ASSUME NEW c \in Client, Arrive(c) \/ Send(c) \/ Leave(c) PROVE AllowedInv'
  BY <1>2 DEF Arrive, Send, Leave
<1>3. ASSUME NEW c \in Client, NEW s, Allows(policy, Peer[c]), GoesOn(c, s)
      PROVE AllowedInv'
  BY <1>3 DEF GoesOn, SetSess, DTypeOK
<1>4. ASSUME NEW c \in Client, Handler(c) \/ ReadFails(c) \/ Panics(c) PROVE AllowedInv'
  BY <1>4, <1>1, <1>3
  DEF Handler, CheckAuth, ReadRequest, ReadEnd, Execute, GiveBack, ReadFails, Panics, Ends
<1>5. CASE UNCHANGED dvars
  BY <1>5 DEF dvars
<1> QED
  BY <1>1, <1>2, <1>4, <1>5 DEF DNext, Acceptor

\* What is known of a peer that a policy allows, unless the policy is open.
LEMMA AllowedPeer ==
  ASSUME NEW a, IsAuth(a), NEW peer \in PeerType, Allows(a, peer),
         a # AuthNone, \A root \in BOOLEAN : a # PeerUser({}, root, FALSE)
  PROVE  /\ peer.uid # NoUid
         /\ a.type = "PeerUser" =>
              /\ a.allow_users # {}
              /\ peer.name = NoName => peer.uid = 0 /\ a.root_always
<1>1. CASE a.type = "PeerUid"
  BY <1>1 DEF Allows
<1>2. CASE /\ a.type = "PeerUser"
           /\ a = PeerUser(a.allow_users, a.root_always, a.fail_closed_if_empty)
           /\ a.root_always \in BOOLEAN /\ a.fail_closed_if_empty \in BOOLEAN
  <2>1. CASE a.allow_users = {}
    <3>1. ~a.fail_closed_if_empty
      BY <1>2, <2>1 DEF Allows
    <3>2. a.fail_closed_if_empty = FALSE
      BY <1>2, <3>1
    <3>3. a = PeerUser({}, a.root_always, FALSE)
      BY <1>2, <2>1, <3>2
    <3> QED
      BY <1>2, <3>3
  <2>2. CASE a.allow_users # {}
    BY <1>2, <2>2, Zenon DEF Allows
  <2> QED
    BY <2>1, <2>2
<1> QED
  BY <1>1, <1>2 DEF IsAuth

\* Under a policy that is not open nobody gets a request executed of whom the
\* kernel and the passwd database do not say enough (StrangersStayOut).
THEOREM OnlyAllowedExecute == DSpec => []StrangersStayOut
<1>1. DInit => AllowedInv
  BY DEF DInit, AllowedInv
<1>2. DTypeOK /\ AllowedInv => StrangersStayOut
  <2> SUFFICES ASSUME DTypeOK, AllowedInv, NEW c \in Client, sess[c] = "exec", ~OpenToAll
               PROVE  /\ Peer[c].uid # NoUid
                      /\ policy.type = "PeerUser" =>
                           /\ policy.allow_users # {}
                           /\ Peer[c].name = NoName => Peer[c].uid = 0 /\ policy.root_always
    BY DEF StrangersStayOut
  <2>1. IsAuth(policy) /\ Peer[c] \in PeerType /\ Allows(policy, Peer[c])
    BY PeerAssumption, PolicyAssumption DEF DTypeOK, AllowedInv
  <2>2. policy # AuthNone /\ \A root \in BOOLEAN : policy # PeerUser({}, root, FALSE)
    BY DEF OpenToAll
  <2> QED
    BY <2>1, <2>2, AllowedPeer
<1> QED
  BY <1>1, <1>2, AllowedStep, DTypeCorrect, PTL DEF DSpec
=============================================================================
