------------------------------ MODULE SocketBind ------------------------------
(***************************************************************************)
(* Claiming a Unix control socket: bind(), claim() and the permission      *)
(* helpers of ipc/bind.rs, run by several processes of one daemon on one   *)
(* path.  Every system call is one step, because other processes run       *)
(* between any two of them:                                                *)
(*                                                                         *)
(*   probe   connect(2)                              unlink  unlink(2)     *)
(*   bind    bind(2), the first half of UnixListener::bind                 *)
(*   listen  listen(2), its second half                                    *)
(*   chmod   metadata + set_permissions (by path)    chown   (by path)     *)
(*                                                                         *)
(* "path" is what the socket path names: nothing, a socket inode nobody    *)
(* listens on, a regular file, a directory, or the inode that the open     *)
(* socket of a process is bound to (then it is that process).              *)
(***************************************************************************)
EXTENDS Naturals, FiniteSets

CONSTANTS Proc,         \* processes that call bind() on this path
          Leftovers,    \* what the path may name before the first bind()
          WithChown,    \* BindOptions.chown is Some
          MaxFaults     \* bound: system calls that fail for any other reason

Inodes == {"absent", "stale", "file", "dir"}
NoPeer == "none"

ASSUME ConstAssumption ==
  /\ Proc \cap (Inodes \cup {NoPeer}) = {}
  /\ Leftovers \subseteq Inodes
  /\ WithChown \in BOOLEAN
  /\ MaxFaults \in Nat

VARIABLES pc,       \* pc[p]: the next step of p, or how its bind() returned
          path,     \* what the socket path names
          attrs,    \* attributes set on the inode that path names
          racers,   \* racers[p]: processes about to unlink when p listened
          faults,   \* system calls that failed so far
          serial    \* a supervisor starts one process at a time (never changes)

vars == <<pc, path, attrs, racers, faults, serial>>

Starting == {"probe", "unlink", "bind", "listen", "chmod", "chown"}
Idle     == {"down", "already_running", "io_error"}

HasSocket(p) == pc[p] \in {"listen", "chmod", "chown", "serving"}
Listening(p) == pc[p] \in {"chmod", "chown", "serving"}

\* connect(path) succeeds: the inode belongs to a socket that listens
LivePeer == path \in Proc /\ Listening(path)

AllAttrs == IF WithChown THEN {"mode", "owner"} ELSE {"mode"}

Goto(p, next) == pc' = [pc EXCEPT ![p] = next]

\* the fd of p is closed: if the path still names its inode, that is stale
Close(p) ==
  /\ path' = IF path = p THEN "stale" ELSE path
  /\ racers' = [racers EXCEPT ![p] = {}]

-----------------------------------------------------------------------------
Init ==
  /\ pc = [p \in Proc |-> "down"]
  /\ path \in Leftovers
  /\ attrs = {}
  /\ racers = [p \in Proc |-> {}]
  /\ faults = 0
  /\ serial \in BOOLEAN

\* A process calls bind(); the parent directory exists or is created.
Start(p) ==
  /\ pc[p] \in Idle
  /\ serial => \A q \in Proc : pc[q] \notin Starting
  /\ Goto(p, "probe")
  /\ UNCHANGED <<path, attrs, racers, faults, serial>>

\* Mutant: the probe takes every answer for a stale socket.
ProbeIgnoresPeer(p) ==
  /\ pc[p] = "probe"
  /\ Goto(p, "unlink")
  /\ UNCHANGED <<path, attrs, racers, faults, serial>>

\* Mutant: ECONNREFUSED is not in is_stale_socket_connect_error.
ProbeOnlyNotFound(p) ==
  /\ pc[p] = "probe"
  /\ Goto(p, IF LivePeer THEN "already_running"
             ELSE IF path = "absent" THEN "unlink" ELSE "io_error")
  /\ UNCHANGED <<path, attrs, racers, faults, serial>>

\* connect(path).  A path that names nothing is ENOENT, anything that no
\* socket listens on is ECONNREFUSED; both count as stale.
Probe(p) ==
  /\ pc[p] = "probe"
  /\ Goto(p, IF LivePeer THEN "already_running" ELSE "unlink")
  /\ UNCHANGED <<path, attrs, racers, faults, serial>>

\* remove_file(path): NotFound is fine, a directory is an error.
Unlink(p) ==
  /\ pc[p] = "unlink"
  /\ IF path = "dir"
     THEN Goto(p, "io_error") /\ UNCHANGED <<path, attrs>>
     ELSE Goto(p, "bind") /\ path' = "absent" /\ attrs' = {}
  /\ UNCHANGED <<racers, faults, serial>>

\* bind(2): EADDRINUSE when the path names anything.
BindSock(p) ==
  /\ pc[p] = "bind"
  /\ IF path = "absent"
     THEN Goto(p, "listen") /\ path' = p /\ attrs' = {}
     ELSE Goto(p, "io_error") /\ UNCHANGED <<path, attrs>>
  /\ UNCHANGED <<racers, faults, serial>>

\* Mutant: bind() returns without setting the permissions.
ListenSkipsPerms(p) ==
  /\ pc[p] = "listen"
  /\ Goto(p, "serving")
  /\ racers' = [racers EXCEPT ![p] = {q \in Proc : pc[q] = "unlink"}]
  /\ UNCHANGED <<path, attrs, faults, serial>>

\* listen(2).  racers is a history variable.
Listen(p) ==
  /\ pc[p] = "listen"
  /\ Goto(p, "chmod")
  /\ racers' = [racers EXCEPT ![p] = {q \in Proc : pc[q] = "unlink"}]
  /\ UNCHANGED <<path, attrs, faults, serial>>

\* Set one attribute of whatever the path names now.  When it names nothing
\* bind() returns the error and drops the listener.
SetAttr(p, attr, next) ==
  /\ IF path = "absent"
     THEN Goto(p, "io_error") /\ UNCHANGED attrs
     ELSE Goto(p, next) /\ attrs' = attrs \cup {attr}
  /\ UNCHANGED <<path, racers, faults, serial>>

Chmod(p) ==
  /\ pc[p] = "chmod"
  /\ SetAttr(p, "mode", IF WithChown THEN "chown" ELSE "serving")

Chown(p) ==
  /\ pc[p] = "chown"
  /\ SetAttr(p, "owner", "serving")

\* Mutant: the listener is still open when bind() has returned an error.
IoErrorKeepsSocket(p) ==
  /\ pc[p] \in Starting
  /\ faults < MaxFaults
  /\ faults' = faults + 1
  /\ Goto(p, "io_error")
  /\ UNCHANGED <<path, attrs, racers, serial>>

\* Any other error of a system call: every "?" of bind() and claim()
\* returns it, and a listener that exists already is dropped.
IoError(p) ==
  /\ pc[p] \in Starting
  /\ faults < MaxFaults
  /\ faults' = faults + 1
  /\ Goto(p, "io_error")
  /\ Close(p)
  /\ UNCHANGED <<attrs, serial>>

\* The process exits or crashes, or only the listener goes: serve_background()
\* cannot start its thread, or serve() returns.  Nothing unlinks the socket
\* file.
Exit(p) ==
  /\ pc[p] \notin Idle
  /\ Goto(p, "down")
  /\ Close(p)
  /\ UNCHANGED <<attrs, faults, serial>>

\* the straight-line code of bind()
Step(p) ==
  Probe(p) \/ Unlink(p) \/ BindSock(p) \/ Listen(p) \/ Chmod(p) \/ Chown(p)

Next == \E p \in Proc : Start(p) \/ Step(p) \/ IoError(p) \/ Exit(p)

Spec == Init /\ [][Next]_vars

\* A thread that runs straight-line code is scheduled again and again.
FairSpec == Spec /\ \A p \in Proc : WF_vars(Step(p))

-----------------------------------------------------------------------------
\* Type invariant; the path belongs to a process only while it has a socket.
TypeOK ==
  /\ pc \in [Proc -> Starting \cup Idle \cup {"serving"}]
  /\ path \in Inodes \cup Proc
  /\ path \in Proc => HasSocket(path)
  /\ attrs \subseteq {"mode", "owner"}
  /\ racers \in [Proc -> SUBSET Proc]
  /\ faults \in 0 .. MaxFaults
  /\ serial \in BOOLEAN

\* Whatever the processes interleave, chmod and chown go by path: a process
\* whose bind() returned Ok and whose inode the path still names has at least
\* the configured mode and owner on it (bind.rs, apply_socket_perms and
\* chown_socket called after UnixListener::bind).
PermsApplied ==
  \A p \in Proc : pc[p] = "serving" /\ path = p => AllAttrs \subseteq attrs

\* A live socket can only be unlinked by a process whose connect() came
\* before the socket listened: one that probes later gets AlreadyRunning
\* (claim(), between the connect and the remove_file).
OnlyRacersSteal ==
  \A p, q \in Proc :
    path = q /\ Listening(q) /\ pc[p] = "unlink" => p \in racers[q]

\* "A second process must never unlink a live socket" (bind.rs, module doc):
\* a listening socket loses the path only when its own process closes it.
LiveNeverUnlinked ==
  [][\A q \in Proc : path = q /\ Listening(q) /\ path' # q => ~Listening(q)']_vars

\* With one start at a time, a process whose bind() returned Ok is the one
\* clients reach, and its inode has the configured mode and owner.
ServingIsReachable ==
  serial => \A p \in Proc : pc[p] = "serving" => path = p /\ AllAttrs \subseteq attrs

\* With one start at a time the socket is a singleton: SocketBind implements
\* module Singleton.  (The mapping hides behaviours with racing starts.)
Lock == INSTANCE Singleton WITH
          None <- NoPeer,
          listeners <- {p \in Proc : serial /\ Listening(p)},
          reachable <- IF serial /\ LivePeer THEN path ELSE NoPeer

LockSpec == Lock!Spec

\* A leftover of a crash at any point of bind() never keeps a later process
\* out: with one start at a time, no live peer and no further failing system
\* call, a probing process gets to serve (unless it exits itself).
StaleRecovered ==
  \A p \in Proc :
    (serial /\ pc[p] = "probe" /\ path # "dir" /\ ~LivePeer /\ faults = MaxFaults)
      ~> (pc[p] \in {"serving", "down"})
=============================================================================
