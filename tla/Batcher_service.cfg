SPECIFICATION FairSpec
CONSTANTS
  i1 = i1
  i2 = i2
  i3 = i3
  Items <- MCItems
  CallbackKind <- ServiceKinds
  MinBatch = 1
  MaxBatch = 2
  MaxFailures = 2
  Retry = FALSE
INVARIANT TypeOK
INVARIANT FifoHandOff
INVARIANT CallbackAfterProcessing
PROPERTY ImplementsPipe
PROPERTY EventuallyHanded
CHECK_DEADLOCK FALSE
