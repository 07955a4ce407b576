--------------------------------- MODULE Auth ---------------------------------
(***************************************************************************)
(* Auth::allows() of ipc/auth.rs.  A peer is what the kernel and the       *)
(* passwd database say of it: its uid, or NoUid when SO_PEERCRED fails,    *)
(* and its login name, or NoName.                                          *)
(***************************************************************************)
EXTENDS Integers

NoUid  == -1
NoName == "nobody knows"

PeerType == [uid : Nat \cup {NoUid}, name : STRING]

\* the variants of enum Auth
AuthNone == [type |-> "None"]
PeerUid(daemon, uids) ==
  [type |-> "PeerUid", daemon_uid |-> daemon, allow_uids |-> uids]
PeerUser(users, root, closed) ==
  [type |-> "PeerUser", allow_users |-> users, root_always |-> root,
   fail_closed_if_empty |-> closed]

\* a value of enum Auth
IsAuth(a) ==
  \/ a = AuthNone
  \/ a.type = "PeerUid" /\ a = PeerUid(a.daemon_uid, a.allow_uids)
     /\ a.daemon_uid \in Nat /\ a.allow_uids \subseteq Nat
  \/ a.type = "PeerUser"
     /\ a = PeerUser(a.allow_users, a.root_always, a.fail_closed_if_empty)
     /\ a.root_always \in BOOLEAN /\ a.fail_closed_if_empty \in BOOLEAN

\* Mutant: a peer without credentials is taken for root.
AllowsNoCredentials(auth, peer) ==
  \/ auth.type = "None"
  \/ /\ auth.type = "PeerUid"
     /\ peer.uid \in auth.allow_uids \cup {auth.daemon_uid}
  \/ /\ auth.type = "PeerUser"
     /\ IF auth.allow_users = {}
        THEN ~auth.fail_closed_if_empty
        ELSE \/ peer.uid \in {0, NoUid} /\ auth.root_always
             \/ peer.name # NoName /\ peer.name \in auth.allow_users

\* An empty list of users decides before anything is known of the peer, of
\* root too.
Allows(auth, peer) ==
  \/ auth.type = "None"
  \/ /\ auth.type = "PeerUid"
     /\ peer.uid # NoUid
     /\ peer.uid \in auth.allow_uids \cup {auth.daemon_uid}
  \/ /\ auth.type = "PeerUser"
     /\ IF auth.allow_users = {}
        THEN ~auth.fail_closed_if_empty
        ELSE /\ peer.uid # NoUid
             /\ \/ peer.uid = 0 /\ auth.root_always
                \/ peer.name # NoName /\ peer.name \in auth.allow_users
=============================================================================
