------------------------------- MODULE MCDaemon -------------------------------
(* Daemon with root, whose name cannot be looked up, a user of the daemon's  *)
(* group and a peer without credentials, under policies that let in all of   *)
(* them (as Auth::None does), some and none.                                 *)
EXTENDS Daemon, TLC

MCPeer ==
  "root"     :> [uid |-> 0, name |-> NoName] @@
  "user"     :> [uid |-> 7, name |-> "user"] @@
  "stranger" :> [uid |-> NoUid, name |-> NoName]

MCPolicies ==
  {PeerUid(7, {}), PeerUser({"user"}, TRUE, TRUE), PeerUser({"user"}, FALSE, TRUE),
   PeerUser({}, TRUE, FALSE), PeerUser({}, TRUE, TRUE)}
=============================================================================
