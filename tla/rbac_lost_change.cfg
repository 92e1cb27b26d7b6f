SPECIFICATION RbacSpec
CONSTANTS
    p1 = p1
    p2 = p2
    c1 = c1
    Procs <- MCProcs
    Changes <- MCChanges
    None = None
    MaxFaults = 0
INVARIANTS ChangesKept
CHECK_DEADLOCK FALSE
