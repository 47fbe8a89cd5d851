SPECIFICATION Spec
CONSTANTS
  A = A
  B = B
  alice = alice
  bob = bob
  Servers = {A, B}
  Accounts = {alice, bob}
  Placements <- MCEither
  Locked = {bob}
  Slots = {1, 2}
  MaxCalls = 3
  MaxLosses = 1
  MaxFaults = 1
\* The calls of a behaviour are bounded: it ends.
CHECK_DEADLOCK FALSE
INVARIANTS TypeOK SidesAgree OneRowPerPair BlockCutsFollower
PROPERTY LocalEchoIsIdle
