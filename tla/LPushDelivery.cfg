\* Five tasks for two users, batches of two, one crash; the fourth task cannot
\* be read.
CONSTANTS
  k1 = k1
  k2 = k2
  Key = {k1, k2}
  MaxTask = 5
  To <- MCToFive
  Batch = 2
  MaxCrash = 1
  BreakingRedis = FALSE
  Poison = {4}
SPECIFICATION Spec
INVARIANTS SentInOrder NothingPassesPoison
PROPERTIES ImplementsMailbox
