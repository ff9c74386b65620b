SPECIFICATION Spec
CONSTANTS
  ann = ann
  bob = bob
  cat = cat
  m1 = m1
  m2 = m2
  m3 = m3
  m4 = m4
  k1 = k1
  Workers = {1}
  Users <- PairUsers
  Msgs <- PairMsgs
  Sender <- PairSender
  Recipient <- PairRecipient
  Marks <- NoMarks
  Reader <- NoFun
  Peer <- NoFun
  AudioMsgs = {}
  MaxBatch = 2
  CommitMayFail = TRUE
  MaxCrashes = 0
INVARIANT DeliveredMeansStored
CHECK_DEADLOCK FALSE
