CONSTANTS
    p1 = p1
    p2 = p2
    r1 = r1
    r2 = r2
    h1 = h1
    h2 = h2
    x1 = x1
    c1 = c1
    u1 = u1
    u2 = u2
    g1 = g1
    g2 = g2
    k1 = k1
    k2 = k2
    k3 = k3
    Procs = {p1, p2}
    Idle = Idle
    Requests = {r1, r2}
    Handoffs = {h1, h2}
    Scraps = {x1}
    Stocktakes = {c1}
    Uses = {u1, u2}
    Givebacks = {g1, g2}
    Project = Project
    Tokens = {k1, k2, k3}
    NoDoc = NoDoc
    Setups <- RdSetups
    Discipline = {"voidAlone", "closeAlone", "oneVoidPerReturn", "noUndoOfReturnedSource"}
SPECIFICATION Spec
SYMMETRY Symmetry
INVARIANTS
    BucketsMatchHistories
    StatusesMatchStores
    DocumentsMatchStatuses
CHECK_DEADLOCK FALSE
