CONSTANTS
    p1 = p1
    p2 = p2
    i1 = i1
    i2 = i2
    o1 = o1
    o2 = o2
    r1 = r1
    r2 = r2
    Procs = {p1}
    Receipts = {i1, i2}
    Outbounds = {o1, o2}
    Returns = {r1, r2}
    ReceiptForms <- RaceReceiptForms
    OrderForms <- RaceOrderForms
    ReturnForms <- RaceReturnForms
    NoRange = NoRange
    NoOrder = NoOrder
    Idle = Idle
    MaxRevision = 2
    MaxPostings = 6
    Discipline = {"oneRequestPerDocument", "noEditUnderReturn", "noVoidOfReturnedSource"}
SPECIFICATION Spec
INVARIANTS
    LayersMatchBalance
CHECK_DEADLOCK FALSE
