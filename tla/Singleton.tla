------------------------------ MODULE Singleton ------------------------------
(***************************************************************************)
(* What the control socket promises: "IPC is always a singleton".  At any  *)
(* time at most one process listens, a client that connects reaches that   *)
(* process, and it stops being reachable only by closing its own listener. *)
(***************************************************************************)
CONSTANTS Proc,     \* processes of one daemon
          None      \* no process; not a member of Proc

VARIABLES listeners,    \* processes that hold a listening socket
          reachable     \* the process that connect(path) reaches, or None

Init == listeners = {} /\ reachable = None

Acquire(p) ==
  /\ listeners = {}
  /\ listeners' = {p}
  /\ reachable' = p

Release(p) ==
  /\ listeners = {p}
  /\ listeners' = {}
  /\ reachable' = None

Next == \E p \in Proc : Acquire(p) \/ Release(p)

Spec == Init /\ [][Next]_<<listeners, reachable>>
=============================================================================
