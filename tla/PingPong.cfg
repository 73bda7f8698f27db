SPECIFICATION FairSpec
CONSTANTS
    Procs = {p1, p2}
    Rounds = 3
    MaxFaults = 2
    Nobody = Nobody
CHECK_DEADLOCK FALSE
INVARIANTS Paired PortsPassOn
PROPERTIES ProgramsEnd HandlersEnd
