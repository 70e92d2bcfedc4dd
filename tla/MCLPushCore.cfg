\* Two threads of each kind of wrapper, one of them joinable; eleven Redis
\* commands on three fields; two processes that write lines which fit and lines
\* that do not; three coroutines at two addresses.
CONSTANTS
    Thread = {t1, t2}
    Joinable = {t1}
    MaxThreads = 3
    Fields = {f1, f2, f3}
    None = None
    Procs = {1, 2}
    LogMax = 8
    Headers = {3, 9}
    Messages = {1, 4}
    Errors = {0, 2}
    MinLevel = 4
    MaxLines = 3
    Addrs = {1, 2}
    MaxBorn = 3
    MaxIds = 4
SPECIFICATION CoreSpec
CHECK_DEADLOCK FALSE
INVARIANTS
    CycleInsideRun PosixInsideRun ConnectionDecides LineBounded IdNamesOne
PROPERTIES
    StopWaits OwnerProceeds BrokenEnds OnlyExtended
