SPECIFICATION FairSpec
CONSTANTS
    Nodes = {n1, n2}
    Steady = {}
    Getters = {g1}
    Watchers = {w1}
    Records = {r1, r2, r3, r4, r5, r6}
    Ttl = 1
    Cap = 1
    MaxChanges = 2
    None = None
    NoServices = NoServices
CHECK_DEADLOCK FALSE
PROPERTY Converges
