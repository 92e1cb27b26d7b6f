CONSTANTS
    Nowhere = Nowhere
    p1 = p1
    p2 = p2
    i1 = i1
    i2 = i2
    s1 = s1
    k1 = k1
    b1 = b1
    b2 = b2
    x1 = x1
    Procs = {p1, p2}
    Idle = Idle
    Receipts = {i1, i2}
    SupplierReturns = {s1}
    Picks = {k1}
    Backs = {b1, b2}
    Scraps = {x1}
    Setups <- MaterialSetups
    MaxRevision = 2
    Discipline = {"oneRequestPerDocument", "noUndoOfReturnedSource", "noUndoOfConsumedReturn", "noResetOfVoided"}
SPECIFICATION Spec
SYMMETRY Symmetry
INVARIANTS
    TypeOK
    LayersMatchBalance
    DocumentsMatchLedger
    DecisionsFitDocuments
CHECK_DEADLOCK FALSE
