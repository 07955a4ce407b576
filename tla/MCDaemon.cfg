SPECIFICATION DFairSpec
CONSTANTS
  Client = {"root", "user", "stranger"}
  MaxClients = 2
  Backlog = 1
  MaxLeaks = 1
  Policies <- MCPolicies
  Peer <- MCPeer
INVARIANTS DTypeOK CounterExact CapRespected 
PROPERTIES QueuedIsAnswered SlotsComeBack
