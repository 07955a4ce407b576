SPECIFICATION Spec
CONSTANTS
  Client = {c1, c2, c3, c4}
  MaxClients = 2
  Backlog = 2
  MaxLeaks = 1
PROPERTIES BusyMeansFull
