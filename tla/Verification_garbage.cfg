SPECIFICATION VerSpec
CONSTANTS
  ann = ann
  People <- MCPeople
  PhotoPositions = {1}
  PhotoUuids = {u1}
  Selfies = {s1}
  Edits <- OnlyAdd
  Offensive = {u1}
  MaxPosts = 2
  MaxRunnerRaises = 0
INVARIANT LevelThreeHasPhoto
CHECK_DEADLOCK FALSE
