SPECIFICATION FairSpec
CONSTANTS
    Clients = {p1, p2}
    Count = 3
    Rounds = 2
    Retries = 1
    MaxFaults = 2
CHECK_DEADLOCK FALSE
INVARIANTS InStep NoHarm
PROPERTIES StreamKept ClientsEnd HandlersEnd
