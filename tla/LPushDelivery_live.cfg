\* Four tasks, three of them for one user, batches of two, one crash, and a
\* connection to Redis that may break during LTRIM.
CONSTANTS
  k1 = k1
  k2 = k2
  Key = {k1, k2}
  MaxTask = 4
  To <- MCTo
  Batch = 2
  MaxCrash = 1
  BreakingRedis = TRUE
  Poison = {}
SPECIFICATION LiveSpec
INVARIANTS
    OncePerRun
PROPERTIES
    KeptUnlessOffline Drains
