SPECIFICATION PicSpec
CONSTANTS
  u1 = u1
  u2 = u2
  u3 = u3
  ann = ann
  s1 = s1
  s2 = s2
  Emails = {ann}
  Positions = {1}
  Uuids <- MCUuids
  Requests <- AllRequests
  ChunkSize = 2
  MaxRaises = 1
  People <- MCPeople
  PhotoPositions = {1, 2}
  PhotoUuids = {u1, u2}
  Selfies = {s1, s2}
  Edits <- AllEdits
  Offensive = {u1}
  MaxPosts = 1
  MaxRunnerRaises = 1
INVARIANT PicTypeOK
INVARIANT UsedPhotosAreSafe
INVARIANT OneRowPerPicture
INVARIANT LossesAreKnown
INVARIANT MarksAreEarned
PROPERTY EveryRecordIsCleaned
PROPERTY LevelRisesOnSuccess
PROPERTY QueuedJobsEnd
CHECK_DEADLOCK FALSE
