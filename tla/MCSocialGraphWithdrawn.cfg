SPECIFICATION Spec
CONSTANTS
  A = A
  B = B
  alice = alice
  bob = bob
  Servers = {A, B}
  Accounts = {alice, bob}
  Placements <- MCPeers
  Locked = {bob}
  Slots = {1, 2}
  MaxCalls = 3
  MaxLosses = 0
  MaxFaults = 0
\* The calls of a behaviour are bounded: it ends.
CHECK_DEADLOCK FALSE
INVARIANT WithdrawnRequestsEnd
