SPECIFICATION Spec
CONSTANTS
  u1 = u1
  u2 = u2
  u3 = u3
  Emails = {ann}
  Positions = {1}
  Uuids <- MCUuids
  Requests <- SecondSignIn
  ChunkSize = 2
  MaxRaises = 1
INVARIANT NothingLeaks
CHECK_DEADLOCK FALSE
