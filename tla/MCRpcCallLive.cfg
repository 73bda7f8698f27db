SPECIFICATION FairSpec
CONSTANTS
    Calls = {k1}
    Retries = 1
    Views <- SomeNodes
    MaxCrashes = 1
    MaxBreaks = 1
    Addrs = {a1}
    Conns = {c1, c2}
    Sizes = {1}
    Ttls = {0}
    MaxTime = 1
    NoConn = NoConn
    Nobody = Nobody
CHECK_DEADLOCK FALSE
PROPERTIES PoolSpec Returns NothingLeft
