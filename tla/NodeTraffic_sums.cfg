SPECIFICATION MCSpec
CONSTANTS
    n1 = n1  n2 = n2  a1 = a1  a2 = a2  b = b
    Nodes = {n1, n2}
    Inbounds = {a1, a2, b}
    Home <- MCHome
    None = None
    Concurrency = 1
    MaxBytes = 2
    MaxExp = 2
    MaxActs = 2
INVARIANTS TypeOK NoDoubleCount
PROPERTIES Conserved SharedKept
CHECK_DEADLOCK FALSE
