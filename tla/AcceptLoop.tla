------------------------------ MODULE AcceptLoop ------------------------------
(***************************************************************************)
(* serve_listener() of ipc/server.rs: one acceptor thread, one handler     *)
(* thread per admitted connection, and the atomic counter "clients" that   *)
(* caps how many handlers run.  The load, the fetch_add, the spawn and the *)
(* fetch_sub are separate steps: handlers run between any two of them.     *)
(*                                                                         *)
(* What a handler does is module Session; here it runs, then its stream is *)
(* closed, then its slot is given back.  A client that is done may connect *)
(* again, so behaviours are not bounded by the number of clients.          *)
(***************************************************************************)
EXTENDS Naturals, FiniteSets, Sequences

CONSTANTS Client,      \* peers, each with at most one connection at a time
          MaxClients,  \* the cap in AcceptPolicy.max_clients, if there is one
          Backlog,     \* length of the listen(2) queue
          MaxLeaks     \* bound: slots lost to panics

NoClient == "none"

ASSUME ConstAssumption ==
  /\ IsFiniteSet(Client)
  /\ NoClient \notin Client
  /\ MaxClients \in Nat
  /\ Backlog \in Nat
  /\ MaxLeaks \in Nat

VARIABLES acc,      \* the next step of the acceptor, or how it stopped
          cur,      \* the client whose stream the acceptor holds
          conn,     \* conn[c]: where the connection of c is
          backlog,  \* connections the kernel has queued, oldest first
          clients,  \* the atomic counter
          leaked,   \* slots that no thread will give back (history)
          path,     \* what the socket path names
          capped    \* AcceptPolicy.max_clients is Some (never changes)

vars == <<acc, cur, conn, backlog, clients, leaked, path, capped>>

Stopped   == {"ended", "dead"}
AccStates == {"accept", "load", "reject", "add", "spawn"} \cup Stopped
ConnStates ==
  {"idle", "queued", "accepted", "counted", "running", "release"}

\* connections that a slot of the counter stands for
Slots == {c \in Client : conn[c] \in {"counted", "running", "release"}}

SetConn(c, s) == conn' = [conn EXCEPT ![c] = s]

\* The listener is dropped: the kernel resets every queued connection, and
\* the stream in the acceptor's hands, if any, is closed.
Stop(how) ==
  /\ acc' = how
  /\ cur' = NoClient
  /\ backlog' = <<>>
  /\ conn' = [c \in Client |->
                IF conn[c] = "queued" \/ c = cur THEN "idle" ELSE conn[c]]

-----------------------------------------------------------------------------
Init ==
  /\ acc = "accept"
  /\ cur = NoClient
  /\ conn = [c \in Client |-> "idle"]
  /\ backlog = <<>>
  /\ clients = 0
  /\ leaked = 0
  /\ path = "ours"
  /\ capped \in BOOLEAN

\* connect(2) by a client
Connect(c) ==
  /\ conn[c] = "idle"
  /\ acc \notin Stopped
  /\ path = "ours"
  /\ Len(backlog) < Backlog
  /\ SetConn(c, "queued")
  /\ backlog' = Append(backlog, c)
  /\ UNCHANGED <<acc, cur, clients, leaked, path, capped>>

\* Somebody removes the socket file, or binds another socket there.
PathChange ==
  /\ path' = IF path = "gone" THEN "other" ELSE "gone"
  /\ UNCHANGED <<acc, cur, conn, backlog, clients, leaked, capped>>

\* listener.incoming() yields a stream; without a cap nothing is counted
Accept ==
  /\ acc = "accept"
  /\ backlog # <<>>
  /\ cur' = Head(backlog)
  /\ backlog' = Tail(backlog)
  /\ SetConn(Head(backlog), "accepted")
  /\ acc' = IF capped THEN "load" ELSE "spawn"
  /\ UNCHANGED <<clients, leaked, path, capped>>

\* accept(2) fails: the loop ends when the path names nothing, else it
\* goes on as if nothing had happened
AcceptErr ==
  /\ acc = "accept"
  /\ IF path = "gone"
     THEN Stop("ended") /\ UNCHANGED <<clients, leaked, path, capped>>
     ELSE UNCHANGED vars

\* Mutant: off by one in the comparison with the cap.
LoadOffByOne ==
  /\ acc = "load"
  /\ acc' = IF clients > MaxClients THEN "reject" ELSE "add"
  /\ UNCHANGED <<cur, conn, backlog, clients, leaked, path, capped>>

\* clients.load() compared with the cap
Load ==
  /\ acc = "load"
  /\ acc' = IF clients >= MaxClients THEN "reject" ELSE "add"
  /\ UNCHANGED <<cur, conn, backlog, clients, leaked, path, capped>>

\* hooks.reject(Busy) on the acceptor thread, then the stream is dropped
Reject ==
  /\ acc = "reject"
  /\ acc' = "accept"
  /\ SetConn(cur, "idle")
  /\ cur' = NoClient
  /\ UNCHANGED <<backlog, clients, leaked, path, capped>>

\* clients.fetch_add(1)
Add ==
  /\ acc = "add"
  /\ acc' = "spawn"
  /\ clients' = clients + 1
  /\ SetConn(cur, "counted")
  /\ UNCHANGED <<cur, backlog, leaked, path, capped>>

\* Mutant: handle_conn is called, not spawned, and its client stays.
SpawnInline ==
  /\ acc = "spawn"
  /\ SetConn(cur, "running")
  /\ UNCHANGED <<acc, cur, backlog, clients, leaked, path, capped>>

\* thread::spawn() starts the handler
Spawn ==
  /\ acc = "spawn"
  /\ acc' = "accept"
  /\ SetConn(cur, "running")
  /\ cur' = NoClient
  /\ UNCHANGED <<backlog, clients, leaked, path, capped>>

\* The acceptor unwinds: thread::spawn() panics when the system refuses a
\* thread, and hooks.reject() is the daemon's own code.  A slot that was
\* counted stays counted.
AcceptorPanic ==
  /\ acc \in {"reject", "spawn"}
  /\ acc = "spawn" /\ capped => leaked < MaxLeaks
  /\ Stop("dead")
  /\ leaked' = IF acc = "spawn" /\ capped THEN leaked + 1 ELSE leaked
  /\ UNCHANGED <<clients, path, capped>>

\* handle_conn() returns and has dropped the stream
HandlerReturn(c) ==
  /\ conn[c] = "running"
  /\ SetConn(c, "release")
  /\ UNCHANGED <<acc, cur, backlog, clients, leaked, path, capped>>

\* Mutant: the slot is given back whether or not it was counted.
ReleaseAlways(c) ==
  /\ conn[c] = "release"
  /\ SetConn(c, "idle")
  /\ clients' = clients - 1
  /\ UNCHANGED <<acc, cur, backlog, leaked, path, capped>>

\* Mutant: nothing gives the slot back.
ReleaseForgotten(c) ==
  /\ conn[c] = "release"
  /\ SetConn(c, "idle")
  /\ UNCHANGED <<acc, cur, backlog, clients, leaked, path, capped>>

\* clients.fetch_sub(1), the last step of the handler thread
Release(c) ==
  /\ conn[c] = "release"
  /\ SetConn(c, "idle")
  /\ clients' = IF capped THEN clients - 1 ELSE clients
  /\ UNCHANGED <<acc, cur, backlog, leaked, path, capped>>

\* A command or a hook panics: the handler thread unwinds past fetch_sub.
HandlerPanic(c) ==
  /\ conn[c] = "running"
  /\ capped => leaked < MaxLeaks
  /\ SetConn(c, "idle")
  /\ leaked' = IF capped THEN leaked + 1 ELSE leaked
  /\ UNCHANGED <<acc, cur, backlog, clients, path, capped>>

\* the straight-line code of the acceptor
AcceptorStep == Accept \/ Load \/ Reject \/ Add \/ Spawn

Next ==
  \/ AcceptorStep \/ AcceptErr \/ AcceptorPanic \/ PathChange
  \/ \E c \in Client :
       Connect(c) \/ HandlerReturn(c) \/ Release(c) \/ HandlerPanic(c)

Spec == Init /\ [][Next]_vars

\* The acceptor is scheduled again and again and accept(2) does not fail for
\* ever.  Nothing is assumed of handlers: a client may stay as long as it
\* likes.  A failing accept(2) is not assumed to happen at all.
FairSpec == Spec /\ WF_vars(AcceptorStep)

-----------------------------------------------------------------------------
\* Type invariant.  The counter is a usize that fetch_sub would wrap: that
\* it stays a natural number is part of it.
TypeOK ==
  /\ acc \in AccStates
  /\ cur \in Client \cup {NoClient}
  /\ conn \in [Client -> ConnStates]
  /\ backlog \in Seq(Client)
  /\ clients \in Nat
  /\ leaked \in 0 .. MaxLeaks
  /\ path \in {"ours", "gone", "other"}
  /\ capped \in BOOLEAN

\* The counter equals the connections that hold a slot plus the slots that
\* panics lost, at every point between fetch_add and fetch_sub.
CounterExact ==
  clients = IF capped THEN Cardinality(Slots) + leaked ELSE 0

\* The cap holds although load and fetch_add are two operations: handlers
\* only ever lower the counter in between.
CapRespected == capped => Cardinality(Slots) <= MaxClients

\* Every queued connection gets a handler, or (with a cap only) a Busy
\* answer, however long the handlers of other clients run.
QueuedIsAnswered ==
  \A c \in Client :
    conn[c] = "queued" ~> \/ conn[c] = "running"
                          \/ capped /\ acc = "reject" /\ cur = c
                          \/ acc \in Stopped

\* RejectReason::Busy means "Concurrent client cap reached": so many handler
\* threads have not finished.
BusyMeansFull ==
  [][acc = "load" /\ acc' = "reject" => Cardinality(Slots) >= MaxClients]_vars

\* "Blocking accept loop. Ends when the socket path disappears." (serve()),
\* here when it is gone for good.
LoopEnds == <>[](path = "gone") => <>(acc \in Stopped)
=============================================================================
