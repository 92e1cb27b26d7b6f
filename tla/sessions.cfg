SPECIFICATION Spec
CONSTANTS
    s1 = s1
    s2 = s2
    c1 = c1
    c2 = c2
    Procs = {p1, p2}
    Changes = {c1, c2}
    None = None
    MaxFaults = 1
    Sids = {s1}
    Ttl = 2
    MaxTtl = 3
    Threshold = 1
    MaxTokens = 3
    Setups <- MCSetups
INVARIANTS TypeOK CalmChangesKept SnapshotIsCurrent FreshUser EndedStaysEnded TokenIsLatest NoLongerThanMax
CHECK_DEADLOCK FALSE
PROPERTIES RequestsEnd SessionsEnd
