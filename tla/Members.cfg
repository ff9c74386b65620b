SPECIFICATION MembersSpec
CONSTANTS
  e1 = e1 e2 = e2 e3 = e3 n1 = n1 n2 = n2 t1 = t1 t2 = t2
  AccEmails = {e1, e2, e3}
  AccNorm <- MCNorm
  AccTokens = {t1, t2}
  AccIp <- MCIp
  AccIds = {1, 2}
  AccSlow = {"check-otp", "finish-onboarding"}
  AccBots = {}
  AccNone = AccNone AccGone = AccGone
  AccLocal = AccLocal
  ann = ann bob = bob chess = chess go = go
  People <- MCPeople
  Clubs = {chess, go}
  Liked <- MCLiked
  Subscribers = {ann}
  NoClub = NoClub
  Workers = {t1, t2}
  QuotaFree = 1
  QuotaGold = 2
  MaxDrift = 1
  MaxOpen = 2
  AnsPeople = {ann, bob}
  AnsQuestions = {1, 2}
  AnsTraits = {"intro"}
  AnsVectors <- AVec
  AnsWorkers = {t1, t2}
  AnsMay <- AMay
  AnsMaxPosts = 2
  AnsNone = AnsNone
  BdTarget = 8
  BdCrowd = 3
INVARIANTS MembersTypeOK AccountsHold CountsAreExact MembershipsHold AnswersAddUp EnoughAreFound
SYMMETRY MCSymmetry
CHECK_DEADLOCK FALSE
