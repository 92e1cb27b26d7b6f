SPECIFICATION Spec
CONSTANTS
    backup = backup
    report = report
    Jobs = {backup, report}
    BackupJob = backup
    Procs = {p1, p2}
    Runs = {r1, r2}
    Refused = {"bad"}
    None = None
    Setups <- MCSetups
INVARIANTS TypeOK TimersMatchRows ForbidExcludes BackupSurvives
PROPERTIES RunsEnd ActiveGetsTimer
