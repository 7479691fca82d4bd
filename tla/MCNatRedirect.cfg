\* Two connections that share one client port, or bypass the filter from a
\* reserved one.  No symmetry: liveness.
CONSTANTS
    c1 = c1
    c2 = c2
    p1 = p1
    r1 = r1
    d1 = d1
    d2 = d2
    None = None
    Conns = {c1, c2}
    Ports = {p1, r1}
    Reserved = {r1}
    Dsts = {d1, d2}
    DefaultTarget = None
    MaxWire = 2
    MaxSyns = 2
SPECIFICATION MCSpec
INVARIANTS
    EntryHasCause
    MisrouteHasCause
    StrayHasCause
    DropHasCause
PROPERTY DialConnects
CHECK_DEADLOCK FALSE
