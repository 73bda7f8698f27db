SPECIFICATION Spec
CONSTANTS
    Calls = {k1, k2}
    Retries = 1
    Views <- AllNodes
    MaxCrashes = 0
    MaxBreaks = 1
    Addrs = {a1}
    Conns = {c1, c2}
    Sizes = {1}
    Ttls = {0}
    MaxTime = 0
    NoConn = NoConn
    Nobody = Nobody
CHECK_DEADLOCK FALSE
SYMMETRY Symmetry
INVARIANTS IdleQuiet Truthful Settled OneAtATime NobodyStuck
PROPERTIES CallKept
CONSTRAINT OneRetries
