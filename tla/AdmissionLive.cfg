SPECIFICATION FairSpec
CONSTANTS
    None = None
    g1 = g1  g2 = g2
    p1 = p1  p2 = p2
    c1 = c1  c2 = c2
    n1 = n1  n2 = n2
    Generations = {g1, g2}
    Processes = {p1}
    Conns = {c1, c2}
    Nodes = {n1}
    Senders = {n1}
INVARIANTS
    TypeOK
    RouteOfGeneration
PROPERTIES
    StaleMeansGone
    DeadRouteLeaves
    StaleReconnects
CHECK_DEADLOCK FALSE
