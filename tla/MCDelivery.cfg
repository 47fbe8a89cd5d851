SPECIFICATION Spec
CONSTANTS
  w1 = w1
  w2 = w2
  a1 = a1
  a2 = a2
  i1 = i1
  i2 = i2
  l1 = l1
  h1 = h1
  NoJob = NoJob
  Workers = {w1, w2}
  Activities = {a1, a2}
  Inboxes = {i1, i2}
  Locals = {l1}
  Hosts = {h1}
  HostOf <- MCHostOf
  Recipients <- MCRecipients
  Orphans = {a2}
  Supports <- MCSupports
  Limit <- MCLimit
  MaxAttempts = 2
  BaseDelay = 1
  MaxDelay = 1
  MaxLag = 1
  MaxFaults = 1
  SeenCap = 2
INVARIANTS TypeOK ClaimsExclusive DoneWasReceived AttemptsAreCounted DuplicatesNeedDoubt RecordedFormatWorks
PROPERTIES KeepsPromise SettlesUnlessHeld
