CONSTANTS
  c1 = c1
  k1 = k1
  u1 = u1
  NoConn = NoConn
  NoKey = NoKey
  Conn = {c1}
  Key = {k1}
  User = {u1}
  UserOf <- OneUser
  MaxConnect = 2
  StackFailures = FALSE
SPECIFICATION FairSpec
PROPERTIES InnerLoopQuits
