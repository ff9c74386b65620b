SPECIFICATION SvcSpec
CONSTANTS
  ann = ann bob = bob d1 = d1 d2 = d2
  VisUsers = {ann, bob}
  VisLevel <- VLevel
  VisWanted <- VBoth
  VisAccepts <- VBoth
  VisMatch <- VMatch
  VisClub = {bob}
  VisTrusted = {}
  VisBots = {}
  VisMay <- VMay
  VisSearchers = {ann}
  VisVisitors = {bob}
  VisLeavers = {bob}
  VisWays = {d1, d2}
  VstVisitors = {d1, d2}
  VstEnd = 3
  ProPositions = {1, 2}
  ProPics = {"x1", "x2", "x3"}
  ProSounds = {"s1", "s2"}
  ProWords = {"v", "w"}
  ProSettings = {"hide"}
  ProNone = ProNone
  NotTokens = {"phone"}
  NotWorkers = {d1, d2}
  NotTen = 0
  NotSlack = 0
  NotStale = 3
  NotDaily <- NDaily
  NotEnd = 3
  NotMsgs = {1, 2}
  NotMaxActs = 2
  NotNone = NotNone
INVARIANTS SvcTypeOK ListsLeadOn VisitorsAreNoticed ProfileIsTold NotificationsHold
PROPERTIES NoRepeat
SYMMETRY SvcSymmetry
CHECK_DEADLOCK FALSE
