SPECIFICATION AccSpec
CONSTANTS
  e1 = e1 e2 = e2 e3 = e3 n1 = n1 n2 = n2 t1 = t1 t2 = t2
  AccEmails = {e1, e2, e3}
  AccNorm <- MCNorm
  AccTokens = {t1, t2}
  AccIp <- MCIp
  AccIds = {1, 2, 3}
  AccSlow = {}
  AccBots = {}
  AccNone = AccNone AccGone = AccGone
  AccLocal = AccLocal
PROPERTY BanLastsAMonth
CHECK_DEADLOCK FALSE
