SPECIFICATION Spec
CONSTANTS
    None = None
    Progress = Progress
    g1 = g1  g2 = g2  g3 = g3
    r1 = r1  r2 = r2  r3 = r3
    j1 = j1  j2 = j2
    Generations = {g1, g2}
    Refs = {r1, r2}
    Jobs = {j1}
    Kind = "pausing"
    CanPauseInstances = TRUE
    Facts <- AllFacts
INVARIANTS
    TypeOK
    RowConstraints
    ConnectionCurrent
    SingleWriter
PROPERTIES
    UnsettledKept
    TransitionsDeclared
    ImplementsLease
SYMMETRY Symmetry
CHECK_DEADLOCK FALSE
