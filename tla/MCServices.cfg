SPECIFICATION Spec
CONSTANTS
  post = post
  alice = alice
  bob = bob
  rem = rem
  slot1 = slot1
  slot2 = slot2
  theKey = theKey
  noKey = noKey
  app1 = app1
  app2 = app2
  foreign = foreign
  Posts = {post}
  AuthorOf <- MCAuthorOf
  Members = {alice, bob}
  Remotes = {rem}
  Slots = {slot1, slot2}
  MaxTouches = 3
  MaxMishaps = 1
  Clients = {slot1, slot2}
  Keys = {theKey}
  NoKey = noKey
  MaxRequests = 4
  MaxBreaks = 1
  Notes = {post}
  Handlers = {slot1, slot2}
  MaxVersions = 3
  MaxFetches = 2
  MaxLosses = 1
  Voters = {alice}
  Strangers = {rem}
  Options = {"yes", "no"}
  Booths = {slot1, slot2}
  MaxVotes = 3
  Apps = {app1, app2}
  RedirectOf <- MCRedirectOf
  Owned = {alice}
  Foreign = {foreign}
  ScopeSets <- MCScopeSets
  Flows = {slot1, slot2}
  MaxCodes = 1
  MaxFlows = 4
  Principals = {alice, bob}
  Operators = {slot1, slot2}
  MaxKeys = 4
  MaxSlips = 2
  Writers = {alice, bob}
  WriterOf <- MCWriterOf
  PageLimit = 1
  BatchFactor = 2
  MaxFill = 2
  MaxPosts = 5
  MaxToggles = 1
  Nobody = Nobody
  Residents = {alice, bob}
  Visitors = {rem}
  Readers = {bob}
  MaxTexts = 1
  MaxEntries = 3
  MaxTurns = 2
SYMMETRY Symmetry
INVARIANTS
  TypeOK
  
  AuthorIsTold
  OnePostPerKey
  EditsStayWhole
  CopiesFollowAuthor
  BallotsStand
  TokensAreEarned
  CacheServesActiveKey
  PagesAreSeamless
  PagesFitTheirReaders
\* The calls of a behaviour are bounded: it ends.
CHECK_DEADLOCK FALSE
