\* Two connections of one identity; st_thread_create may fail.
CONSTANTS
  c1 = c1
  c2 = c2
  k1 = k1
  u1 = u1
  NoConn = NoConn
  NoKey = NoKey
  Conn = {c1, c2}
  Key = {k1}
  User = {u1}
  UserOf <- OneUser
  MaxConnect = 2
  StackFailures = TRUE
SPECIFICATION LiveSpec
CHECK_DEADLOCK FALSE
PROPERTIES EndedIsFreed
