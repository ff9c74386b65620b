SPECIFICATION FairSpec
CONSTANTS
  i1 = i1
  i2 = i2
  i3 = i3
  Items <- MCItems
  CallbackKind <- MixedKinds
  MinBatch = 0
  MaxBatch = 2
  MaxFailures = 2
  Retry = TRUE
INVARIANT RetryLosesNothing
PROPERTY StopTerminates
CHECK_DEADLOCK FALSE
