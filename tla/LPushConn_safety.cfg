\* Three connections for two slots, two identities of one user (two parts of the
\* secret), failing thread creation.  Orphaned connections may
\* fill the server, which then really stops.
CONSTANTS
  c1 = c1
  c2 = c2
  c3 = c3
  k1 = k1
  k2 = k2
  u1 = u1
  NoConn = NoConn
  NoKey = NoKey
  Conn = {c1, c2, c3}
  Key = {k1, k2}
  User = {u1}
  UserOf <- OneUser
  MaxConnect = 2
  StackFailures = TRUE
SPECIFICATION Spec
SYMMETRY Symmetry
CHECK_DEADLOCK FALSE
INVARIANTS
    TypeOK ListedExactly RegistryOwned ThreadsInsideObject RegisteredIsOnline
PROPERTIES
    RegistryHandover CleanLogout
