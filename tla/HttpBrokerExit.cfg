SPECIFICATION FairSpec
CONSTANTS
    Users = {u1}
    Posts = {h1}
    Subs = {s1}
    Runs = {r1}
    Ports = {q1}
    Configured = Configured
    MaxConnects = 1
    MaxDisconnects = 1
    Nobody = Nobody
CHECK_DEADLOCK FALSE
PROPERTY DisconnectCloses
