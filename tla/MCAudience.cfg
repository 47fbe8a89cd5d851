SPECIFICATION AudienceSpec
CONSTANTS
  alice = alice
  bob = bob
  rem = rem
  Nobody = Nobody
  Residents = {alice, bob}
  Visitors = {rem}
  Readers = {bob}
  MaxTexts = 1
  MaxEntries = 3
  MaxTurns = 2
\* The changes of a behaviour are bounded: it ends.
CHECK_DEADLOCK FALSE
INVARIANT TimelinePostsOpen
