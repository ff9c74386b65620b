SPECIFICATION LiveSpec
CONSTANTS
  ann = ann bob = bob cat = cat
  m1 = m1 m2 = m2 m3 = m3 m4 = m4 k1 = k1
  a1 = a1 a2 = a2 b1 = b1
  Workers = {1, 2}
  Users <- Trio
  Msgs <- TrioMsgs
  Sender <- TrioSender
  Recipient <- TrioRecipient
  Marks <- NoMarks
  Reader <- NoFun
  Peer <- NoFun
  AudioMsgs = {}
  MaxBatch = 2
  CommitMayFail = TRUE
  MaxCrashes = 1
  PresUsers <- PairUsers
  Sessions = {a1, a2, b1}
  Owner <- MCOwner
  Watches <- MCWatches
  MaxFailures = 1
INVARIANTS LiveTypeOK WatchersAreCurrent OnlineHasSession
PROPERTIES SessionKeepsOnline GoneIsNoticed EveryMessageSettles
CHECK_DEADLOCK FALSE
