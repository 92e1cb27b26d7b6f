CONSTANTS
    p1 = p1
    p2 = p2
    b1 = b1
    b2 = b2
    kIn = kIn
    kOther = kOther
    kMore = kMore
    kOut = kOut
    kUnout = kUnout
    kZero = kZero
    kVoid = kVoid
    kVoidOther = kVoidOther
    kEdit = kEdit
    kNew = kNew
    Procs = {p1, p2}
    Balances = {b1, b2}
    Keys <- MCKeys
    NoKey = NoKey
    Commands <- RekeyCommands
    Handlers <- RekeyHandlers
    NoCall = NoCall
SPECIFICATION Spec
SYMMETRY Symmetry
INVARIANTS
    EveryChangeLogged
