SPECIFICATION Spec
CONSTANTS
  HTTP_MAX_CONNECTIONS = 2
  Backlog = 2
  c1 = c1
  c2 = c2
  c3 = c3
  NoClient = NoClient
  Clients = {c1, c2, c3}
  Endless = {}
  Faults = {"abort"}
INVARIANTS
  AcceptNeverBlocks
