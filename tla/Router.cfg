SPECIFICATION Spec
CONSTANTS
    Clients = {c1, c2}
    Objects = {o1, o2, o3, o4}
    MaxCalls = 2
    None = None
CHECK_DEADLOCK FALSE
INVARIANTS OneOwner SignaturesHold
PROPERTY Recycled
