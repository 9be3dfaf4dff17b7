SPECIFICATION Spec
CONSTANTS
    None = None
    g1 = g1  g2 = g2  g3 = g3
    Generations = {g1, g2}
    MaxVersion = 2
    ObservedStartsFail = TRUE
INVARIANT HomeNotStale
CHECK_DEADLOCK FALSE
