CONSTANTS
    p1 = p1
    p2 = p2
    Procs = {p1}
    None = None
    Signals <- MCTermOnly
    MaxConns = 1
    Asserting = {p1}
SPECIFICATION Spec
INVARIANTS TermCloses
CHECK_DEADLOCK FALSE
