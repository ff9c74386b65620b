SPECIFICATION BdSpec
CONSTANTS
  BdTarget = 2
  BdCrowd = 3
INVARIANT AsCloseAsPossible
CHECK_DEADLOCK FALSE
