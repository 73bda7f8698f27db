SPECIFICATION Spec
CONSTANTS
    Addrs = {a1, a2}
    Conns = {c1, c2, c3}
    Users = {u1, u2, u3}
    Sizes = {0, 1, 2}
    Ttls = {0, 1}
    MaxTime = 2
    NoConn = NoConn
SYMMETRY Symmetry
INVARIANTS Exclusive Usable NoLeak Bounded
PROPERTY TtlRespected
