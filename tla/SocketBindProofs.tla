--------------------------- MODULE SocketBindProofs ---------------------------
(***************************************************************************)
(* Proofs about SocketBind for every set of processes.                     *)
(***************************************************************************)
EXTENDS SocketBind, TLAPS

-----------------------------------------------------------------------------
(***************************************************************************)
(* Inductive invariants.                                                   *)
(***************************************************************************)

\* The attributes of a process's own inode follow its program counter, as
\* long as the path names that inode.
PermsInv ==
  \A p \in Proc : path = p =>
    /\ pc[p] = "chown" => "mode" \in attrs
    /\ pc[p] = "serving" => AllAttrs \subseteq attrs

\* With one start at a time: an open socket owns the path, one process is
\* inside bind(), and what it is about to unlink belongs to nobody.
SerialInv ==
  serial =>
    /\ \A p \in Proc : HasSocket(p) => path = p
    /\ \A p, q \in Proc : pc[p] \in Starting /\ pc[q] \in Starting => p = q
    /\ \A p \in Proc : pc[p] \in {"unlink", "bind"} => path \notin Proc

-----------------------------------------------------------------------------
\* The type invariant holds of every step: bind.rs moves through its system
\* calls in order, and the path names a process only while that process has
\* an open socket bound to the inode.
LEMMA TypeStep == TypeOK /\ [Next]_vars => TypeOK'
<1> SUFFICES ASSUME TypeOK, [Next]_vars PROVE TypeOK'
  OBVIOUS
<1> USE ConstAssumption DEF TypeOK, Starting, Idle, HasSocket, Inodes, Goto, Close
<1>1. ASSUME NEW p \in Proc, Start(p) PROVE TypeOK'
  BY <1>1 DEF Start
<1>2. ASSUME NEW p \in Proc, Probe(p) PROVE TypeOK'
  BY <1>2 DEF Probe
<1>3. ASSUME NEW p \in Proc, Unlink(p) PROVE TypeOK'
  BY <1>3 DEF Unlink
<1>4. ASSUME NEW p \in Proc, BindSock(p) PROVE TypeOK'
  BY <1>4 DEF BindSock
<1>5. ASSUME NEW p \in Proc, Listen(p) PROVE TypeOK'
  BY <1>5 DEF Listen
<1>6. ASSUME NEW p \in Proc, Chmod(p) PROVE TypeOK'
  BY <1>6 DEF Chmod, SetAttr
<1>7. ASSUME NEW p \in Proc, Chown(p) PROVE TypeOK'
  BY <1>7 DEF Chown, SetAttr
<1>8. ASSUME NEW p \in Proc, IoError(p) PROVE TypeOK'
  BY <1>8 DEF IoError
<1>9. ASSUME NEW p \in Proc, Exit(p) PROVE TypeOK'
  BY <1>9 DEF Exit
<1>10. CASE UNCHANGED vars
  BY <1>10 DEF vars
<1> QED
  BY <1>1, <1>2, <1>3, <1>4, <1>5, <1>6, <1>7, <1>8, <1>9, <1>10 DEF Next, Step

\* Type correctness of the claim protocol of bind.rs.
THEOREM TypeCorrect == Spec => []TypeOK
<1>1. Init => TypeOK
  BY ConstAssumption DEF Init, TypeOK, Idle, Inodes, HasSocket
<1> QED
  BY <1>1, TypeStep, PTL DEF Spec

\* Every step keeps the attributes of a process's own inode in step with its
\* program counter: a chmod by another process only adds an attribute, and
\* an inode that lost the path never gets it back.
LEMMA PermsStep == TypeOK /\ PermsInv /\ [Next]_vars => PermsInv'
<1> SUFFICES ASSUME TypeOK, PermsInv, [Next]_vars PROVE PermsInv'
  OBVIOUS
<1> USE ConstAssumption
    DEF TypeOK, PermsInv, AllAttrs, Starting, Idle, HasSocket, Inodes, Goto, Close
<1>1. ASSUME NEW p \in Proc, Start(p) PROVE PermsInv'
  BY <1>1 DEF Start
<1>2. ASSUME NEW p \in Proc, Probe(p) PROVE PermsInv'
  BY <1>2 DEF Probe
<1>3. ASSUME NEW p \in Proc, Unlink(p) PROVE PermsInv'
  BY <1>3 DEF Unlink
<1>4. ASSUME NEW p \in Proc, BindSock(p) PROVE PermsInv'
  BY <1>4 DEF BindSock
<1>5. ASSUME NEW p \in Proc, Listen(p) PROVE PermsInv'
  BY <1>5 DEF Listen
<1>6. ASSUME NEW p \in Proc, Chmod(p) PROVE PermsInv'
  BY <1>6 DEF Chmod, SetAttr
<1>7. ASSUME NEW p \in Proc, Chown(p) PROVE PermsInv'
  BY <1>7 DEF Chown, SetAttr
<1>8. ASSUME NEW p \in Proc, IoError(p) PROVE PermsInv'
  BY <1>8 DEF IoError
<1>9. ASSUME NEW p \in Proc, Exit(p) PROVE PermsInv'
  BY <1>9 DEF Exit
<1>10. CASE UNCHANGED vars
  BY <1>10 DEF vars
<1> QED
  BY <1>1, <1>2, <1>3, <1>4, <1>5, <1>6, <1>7, <1>8, <1>9, <1>10 DEF Next, Step

\* However many processes race through bind(), one whose bind() returned Ok
\* and that the path names has its own mode and owner on the inode.
THEOREM PermsAlways == Spec => []PermsApplied
<1>1. Init => PermsInv
  BY ConstAssumption DEF Init, PermsInv, Inodes
<1>2. PermsInv => PermsApplied
  BY DEF PermsInv, PermsApplied
<1> QED
  BY <1>1, <1>2, PermsStep, TypeCorrect, PTL DEF Spec

\* However many processes race through bind(), a live socket is only
\* threatened by processes whose connect() preceded its listen().
THEOREM StealersProbedFirst == Spec => []OnlyRacersSteal
<1>1. Init => OnlyRacersSteal
  BY DEF Init, OnlyRacersSteal
<1>2. TypeOK /\ OnlyRacersSteal /\ [Next]_vars => OnlyRacersSteal'
  <2> SUFFICES ASSUME TypeOK, OnlyRacersSteal, [Next]_vars PROVE OnlyRacersSteal'
    OBVIOUS
  <2> USE ConstAssumption
      DEF TypeOK, OnlyRacersSteal, Listening, HasSocket, Starting, Idle, Inodes,
          Goto, Close
  <2>1. ASSUME NEW p \in Proc, Start(p) PROVE OnlyRacersSteal'
    BY <2>1 DEF Start
  <2>2. ASSUME NEW p \in Proc, Probe(p) PROVE OnlyRacersSteal'
    BY <2>2 DEF Probe, LivePeer
  <2>3. ASSUME NEW p \in Proc, Unlink(p) PROVE OnlyRacersSteal'
    BY <2>3 DEF Unlink
  <2>4. ASSUME NEW p \in Proc, BindSock(p) PROVE OnlyRacersSteal'
    BY <2>4 DEF BindSock
  <2>5. ASSUME NEW p \in Proc, Listen(p) PROVE OnlyRacersSteal'
    BY <2>5 DEF Listen
  <2>6. ASSUME NEW p \in Proc, Chmod(p) PROVE OnlyRacersSteal'
    BY <2>6 DEF Chmod, SetAttr
  <2>7. ASSUME NEW p \in Proc, Chown(p) PROVE OnlyRacersSteal'
    BY <2>7 DEF Chown, SetAttr
  <2>8. ASSUME NEW p \in Proc, IoError(p) PROVE OnlyRacersSteal'
    BY <2>8 DEF IoError
  <2>9. ASSUME NEW p \in Proc, Exit(p) PROVE OnlyRacersSteal'
    BY <2>9 DEF Exit
  <2>10. CASE UNCHANGED vars
    BY <2>10 DEF vars
  <2> QED
    BY <2>1, <2>2, <2>3, <2>4, <2>5, <2>6, <2>7, <2>8, <2>9, <2>10 DEF Next, Step
<1> QED
  BY <1>1, <1>2, TypeCorrect, PTL DEF Spec

-----------------------------------------------------------------------------
(***************************************************************************)
(* One start at a time.                                                    *)
(***************************************************************************)

\* The whole of SerialInv is preserved when the supervisor starts one process
\* at a time.
LEMMA SerialStep == TypeOK /\ SerialInv /\ [Next]_vars => SerialInv'
<1> SUFFICES ASSUME TypeOK, SerialInv, [Next]_vars PROVE SerialInv'
  OBVIOUS
<1> USE ConstAssumption
    DEF TypeOK, SerialInv, Starting, Idle, HasSocket, Inodes, Goto, Close
<1>1. ASSUME NEW p \in Proc, Start(p) PROVE SerialInv'
  BY <1>1 DEF Start
<1>2. ASSUME NEW p \in Proc, Probe(p) PROVE SerialInv'
  BY <1>2 DEF Probe, LivePeer, Listening
<1>3. ASSUME NEW p \in Proc, Unlink(p) PROVE SerialInv'
  BY <1>3 DEF Unlink
<1>4. ASSUME NEW p \in Proc, BindSock(p) PROVE SerialInv'
  BY <1>4 DEF BindSock
<1>5. ASSUME NEW p \in Proc, Listen(p) PROVE SerialInv'
  BY <1>5 DEF Listen
<1>6. ASSUME NEW p \in Proc, Chmod(p) PROVE SerialInv'
  BY <1>6 DEF Chmod, SetAttr
<1>7. ASSUME NEW p \in Proc, Chown(p) PROVE SerialInv'
  BY <1>7 DEF Chown, SetAttr
<1>8. ASSUME NEW p \in Proc, IoError(p) PROVE SerialInv'
  BY <1>8 DEF IoError
<1>9. ASSUME NEW p \in Proc, Exit(p) PROVE SerialInv'
  BY <1>9 DEF Exit
<1>10. CASE UNCHANGED vars
  BY <1>10 DEF vars
<1> QED
  BY <1>1, <1>2, <1>3, <1>4, <1>5, <1>6, <1>7, <1>8, <1>9, <1>10 DEF Next, Step

\* The serial-start invariant holds in every run of the claim protocol.
LEMMA SerialCorrect == Spec => []SerialInv
<1>1. Init => SerialInv
  BY DEF Init, SerialInv, Starting, HasSocket
<1> QED
  BY <1>1, SerialStep, TypeCorrect, PTL DEF Spec

\* With one start at a time, a process whose bind() returned Ok is the one
\* clients reach, through an inode with the configured mode and owner.
THEOREM ServingReachable == Spec => []ServingIsReachable
<1>1. SerialInv /\ PermsApplied => ServingIsReachable
  BY DEF SerialInv, PermsApplied, ServingIsReachable, HasSocket
<1> QED
  BY <1>1, SerialCorrect, PermsAlways, PTL

\* With one start at a time the claim protocol implements the singleton:
\* listen(2) acquires, closing the listener releases, and no other step is
\* visible; in particular nobody unlinks a live socket.
THEOREM Refinement == Spec => LockSpec
<1> USE ConstAssumption DEF Inodes, NoPeer
<1>1. Init => Lock!Init
  BY DEF Init, Lock!Init, Listening, LivePeer
<1>2. TypeOK /\ SerialInv /\ [Next]_vars
        => [Lock!Next]_<<{p \in Proc : serial /\ Listening(p)},
                         IF serial /\ LivePeer THEN path ELSE NoPeer>>
  <2> SUFFICES ASSUME TypeOK, SerialInv, [Next]_vars
               PROVE  [Lock!Next]_<<{p \in Proc : serial /\ Listening(p)},
                                     IF serial /\ LivePeer THEN path ELSE NoPeer>>
    OBVIOUS
  <2> DEFINE L == {p \in Proc : serial /\ Listening(p)}
             R == IF serial /\ LivePeer THEN path ELSE NoPeer
  <2> USE DEF TypeOK, SerialInv, Listening, LivePeer, HasSocket, Starting, Idle,
              Goto, Close
  <2>1. ASSUME NEW p \in Proc, Start(p) PROVE L' = L /\ R' = R
    BY <2>1 DEF Start
  <2>2. ASSUME NEW p \in Proc, Probe(p) PROVE L' = L /\ R' = R
    BY <2>2 DEF Probe
  <2>3. ASSUME NEW p \in Proc, Unlink(p) PROVE L' = L /\ R' = R
    BY <2>3 DEF Unlink
  <2>4. ASSUME NEW p \in Proc, BindSock(p) PROVE L' = L /\ R' = R
    BY <2>4 DEF BindSock
  <2>5. ASSUME NEW p \in Proc, Listen(p)
        PROVE  Lock!Acquire(p) \/ (L' = L /\ R' = R)
    BY <2>5 DEF Listen, Lock!Acquire
  <2>6. ASSUME NEW p \in Proc, Chmod(p) PROVE L' = L /\ R' = R
    BY <2>6 DEF Chmod, SetAttr
  <2>7. ASSUME NEW p \in Proc, Chown(p) PROVE L' = L /\ R' = R
    BY <2>7 DEF Chown, SetAttr
  <2>8. ASSUME NEW p \in Proc, IoError(p) \/ Exit(p)
        PROVE  Lock!Release(p) \/ (L' = L /\ R' = R)
    <3>1. CASE serial /\ Listening(p)
      <4>1. path = p /\ \A q \in Proc : Listening(q) => q = p
        BY <3>1
      <4>2. L = {p}
        BY <3>1, <4>1
      <4>3. path' = "stale" /\ \A q \in Proc : ~Listening(q)'
        BY <2>8, <4>1 DEF IoError, Exit
      <4>4. L' = {} /\ R' = NoPeer
        BY <4>3
      <4> QED
        BY <4>2, <4>4 DEF Lock!Release
    <3>2. CASE ~(serial /\ Listening(p))
      BY <2>8, <3>2 DEF IoError, Exit
    <3> QED
      BY <3>1, <3>2
  <2>9. CASE UNCHANGED vars
    BY <2>9 DEF vars
  <2> QED
    BY <2>1, <2>2, <2>3, <2>4, <2>5, <2>6, <2>7, <2>8, <2>9 DEF Next, Step, Lock!Next
<1> QED
  BY <1>1, <1>2, SerialCorrect, TypeCorrect, PTL DEF Spec, LockSpec, Lock!Spec
=============================================================================
