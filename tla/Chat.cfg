SPECIFICATION ChatSpec
CONSTANTS
  ann = ann bob = bob cat = cat bea = bea
  m1 = m1 m2 = m2 m3 = m3 m4 = m4 k1 = k1
  Workers = {1, 2}
  Users <- PairUsers
  Msgs <- PairMsgs
  Sender <- PairSender
  Recipient <- PairRecipient
  Marks <- MCMarks
  Reader <- MCReader
  Peer <- MCPeer
  AudioMsgs = {m1}
  MaxBatch = 2
  CommitMayFail = FALSE
  MaxCrashes = 0
  ChMsgs = {m1, m2, m3}
  ChFrom <- CFrom
  ChTo <- CTo
  ChText <- CText
  ChKind <- CKind
  ChConn <- CConn
  ChWorker <- CWorker
  ChLimit <- CLimit
  ChMustVerify = {}
  ChTrusted = {}
  ChAnswer = {bob}
  ChSkip = {bea}
  ChNone = ChNone
  Keys = {k1, k2, k3}
  Calls = {1, 2, 3}
  MaxSize = 2
  Ttl = 1
  NoTtl = NoTtl
  MaxCompute = 1
  MaxTime = 3
INVARIANTS ChatTypeOK DeliveredMeansStored InboxIsRight IntroRules BlockedStaysBlocked CacheIsSound
PROPERTY ArchiveIsKept
CHECK_DEADLOCK FALSE
