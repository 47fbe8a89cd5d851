SPECIFICATION FairSpec
CONSTANTS
  m1 = m1
  w1 = w1
  w2 = w2
  Media = {m1}
  Workers = {w1, w2}
  MaxAttempts = 3
  MaxFaults = 2
\* Once every upload is settled nothing is left to do.
CHECK_DEADLOCK FALSE
INVARIANTS TypeOK OneWorkerPerJob ReadyIsViewable NothingForgotten FailedOnlyAfterTries
PROPERTIES SettledStays UploadsSettle
