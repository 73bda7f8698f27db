SPECIFICATION FairSpec
CONSTANTS
    Users = {u1, u2}
    Posts = {h1}
    Subs = {s1, s2}
    Runs = {r1, r2}
    Ports = {q1, q2}
    Configured = Configured
    MaxConnects = 2
    MaxDisconnects = 1
    Nobody = Nobody
CHECK_DEADLOCK FALSE
INVARIANTS OneListener HandlerSubscribed
PROPERTIES NoGhost CallsReturn
