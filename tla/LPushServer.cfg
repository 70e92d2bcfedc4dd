\* Two processes on one configuration, one of them built with assertions; a
\* SIGTERM may come before or after a SIGHUP and a SIGINT.
CONSTANTS
    p1 = p1
    p2 = p2
    Procs = {p1, p2}
    None = None
    Signals <- MCSignals
    MaxConns = 1
    Asserting = {p1}
SPECIFICATION FairSpec
CHECK_DEADLOCK FALSE
INVARIANTS
    PidFileNamesHolder StaleEntryExplained
PROPERTIES
    TermEnds EntryRefreshed
