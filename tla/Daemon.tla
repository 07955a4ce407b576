-------------------------------- MODULE Daemon --------------------------------
(***************************************************************************)
(* The accept loop and its sessions together: serve_listener() with the    *)
(* handle_conn() of every admitted client, each on a thread of its own,    *)
(* and clients that send, wait and leave when they like.  The probe of a   *)
(* second instance (claim() in ipc/bind.rs) is such a client: it connects  *)
(* and leaves.                                                             *)
(*                                                                         *)
(* The slots and the acceptor are those of AcceptLoop, whose actions are   *)
(* used as they are.  Of a session only what keeps its thread busy is left *)
(* here, module Session has the rest: it checks the peer, waits for a      *)
(* whole request, executes it, and reads on or ends.  Modes, answers and   *)
(* frames are abstracted.                                                  *)
(***************************************************************************)
EXTENDS AcceptLoop, Auth

CONSTANTS Policies,  \* the values of AcceptPolicy.auth to look at
          Peer       \* Peer[c]: who client c is

ASSUME PeerAssumption == Peer \in [Client -> PeerType]
ASSUME PolicyAssumption == \A a \in Policies : IsAuth(a)

VARIABLES policy,  \* AcceptPolicy.auth (never changes)
          sess,    \* sess[c]: the next step of the session of c, or "none"
          here,    \* here[c]: the client has its end of the connection open
          sent     \* sent[c]: a whole request waits to be read

dvars == <<vars, policy, sess, here, sent>>

SetSess(c, s) == sess' = [sess EXCEPT ![c] = s]

\* A step of AcceptLoop: a connection that is over loses its stream, and one
\* whose handler is started begins with the check of its peer.
LoopStep ==
  /\ sess' = [c \in Client |->
                IF conn'[c] # "running" THEN "none"
                ELSE IF conn[c] # "running" THEN "auth" ELSE sess[c]]
  /\ here' = [c \in Client |-> here[c] /\ conn'[c] \notin {"release", "idle"}]
  /\ sent' = [c \in Client |-> sent[c] /\ conn'[c] \notin {"release", "idle"}]
  /\ UNCHANGED policy

-----------------------------------------------------------------------------
DInit ==
  /\ Init
  /\ policy \in Policies
  /\ sess = [c \in Client |-> "none"]
  /\ here = [c \in Client |-> FALSE]
  /\ sent = [c \in Client |-> FALSE]

\* ------------------------------ the clients -------------------------------
\* it connects, and may have a request sent before anybody looks
Arrive(c) ==
  /\ Connect(c)
  /\ here' = [here EXCEPT ![c] = TRUE]
  /\ \E now \in BOOLEAN : sent' = [sent EXCEPT ![c] = now]
  /\ UNCHANGED <<policy, sess>>

\* it sends a request while the server waits for one
Send(c) ==
  /\ here[c] /\ ~sent[c] /\ sess[c] = "read"
  /\ sent' = [sent EXCEPT ![c] = TRUE]
  /\ UNCHANGED <<vars, policy, sess, here>>

\* what it has sent stays readable
Leave(c) ==
  /\ here[c]
  /\ here' = [here EXCEPT ![c] = FALSE]
  /\ UNCHANGED <<vars, policy, sess, sent>>

\* ------------------------------ the handlers ------------------------------
\* handle_conn() returns
Ends(c) == HandlerReturn(c) /\ LoopStep

\* the session of c goes on
GoesOn(c, next) == SetSess(c, next) /\ UNCHANGED <<vars, policy, here>>

\* Mutant: the peer is checked when its first request is there.
CheckAuthLate(c) ==
  /\ sess[c] = "auth" /\ (sent[c] \/ ~here[c])
  /\ IF Allows(policy, Peer[c])
     THEN GoesOn(c, "read") /\ UNCHANGED sent
     ELSE Ends(c)

\* auth.allows(), before anything is read; hooks.reject(Auth), then drop
CheckAuth(c) ==
  /\ sess[c] = "auth"
  /\ IF Allows(policy, Peer[c])
     THEN GoesOn(c, "read") /\ UNCHANGED sent
     ELSE Ends(c)

\* conn.read_value() returns a request
ReadRequest(c) ==
  /\ sess[c] = "read" /\ sent[c]
  /\ sent' = [sent EXCEPT ![c] = FALSE]
  /\ GoesOn(c, "exec")

\* Mutant: EOF is taken for "nothing to read yet".
ReadEndRetries(c) ==
  /\ sess[c] = "read" /\ ~sent[c] /\ ~here[c]
  /\ UNCHANGED dvars

\* EOF or reset, at the end of what the client has sent
ReadEnd(c) ==
  /\ sess[c] = "read" /\ ~sent[c] /\ ~here[c]
  /\ Ends(c)

\* the frame is refused, or read(2) fails otherwise
ReadFails(c) ==
  /\ sess[c] = "read"
  /\ Ends(c)

\* The request has been answered: a persistent session reads on, a one-shot
\* session (or Hangup) ends.
Execute(c) ==
  /\ sess[c] = "exec"
  /\ \/ GoesOn(c, "read") /\ UNCHANGED sent
     \/ Ends(c)

\* fetch_sub
GiveBack(c) == Release(c) /\ LoopStep

\* a command or a hook panics
Panics(c) ==
  /\ sess[c] = "exec" \/ (sess[c] = "auth" /\ ~Allows(policy, Peer[c]))
  /\ HandlerPanic(c) /\ LoopStep

Handler(c) ==
  CheckAuth(c) \/ ReadRequest(c) \/ ReadEnd(c) \/ Execute(c) \/ GiveBack(c)

Acceptor == AcceptorStep /\ LoopStep

DNext ==
  \/ Acceptor
  \/ (AcceptErr \/ AcceptorPanic \/ PathChange) /\ LoopStep
  \/ \E c \in Client :
       Arrive(c) \/ Send(c) \/ Leave(c) \/ Handler(c) \/ ReadFails(c) \/ Panics(c)

DSpec == DInit /\ [][DNext]_dvars

\* The acceptor and the handler threads are scheduled again and again, and
\* commands return.  Nothing is assumed of the clients.
DFairSpec ==
  DSpec /\ WF_dvars(Acceptor) /\ \A c \in Client : WF_dvars(Handler(c))

-----------------------------------------------------------------------------
\* Type invariant; there is a session exactly while handle_conn() runs.
DTypeOK ==
  /\ TypeOK
  /\ policy \in Policies
  /\ sess \in [Client -> {"none", "auth", "read", "exec"}]
  /\ here \in [Client -> BOOLEAN] /\ sent \in [Client -> BOOLEAN]
  /\ \A c \in Client : sess[c] # "none" <=> conn[c] = "running"

\* a policy that asks nothing of a peer: Auth::None, or an empty open list
OpenToAll == policy = AuthNone \/ \E root \in BOOLEAN : policy = PeerUser({}, root, FALSE)

\* Under any other policy a peer whose credentials cannot be read gets no
\* request executed; by user name, one whose name cannot be looked up only as
\* root under root_always; by an empty closed list, nobody at all, not even root.
StrangersStayOut ==
  \A c \in Client : sess[c] = "exec" /\ ~OpenToAll =>
    /\ Peer[c].uid # NoUid
    /\ policy.type = "PeerUser" =>
         /\ policy.allow_users # {}
         /\ Peer[c].name = NoName => Peer[c].uid = 0 /\ policy.root_always

\* The handler of a client that has left, in whatever state of its session and
\* with requests still unread, ends and the client may connect again; so does
\* that of one the policy refuses, even if it sends nothing and stays.  (A
\* handler that returns gives its slot back, one that panics has lost it: that
\* account is CounterExact.)
SlotsComeBack ==
  \A c \in Client :
    conn[c] = "running" /\ (~here[c] \/ ~Allows(policy, Peer[c]))
      ~> conn[c] = "idle"
=============================================================================
