------------------------------- MODULE Scheduler -------------------------------
(***************************************************************************)
(* The scheduler: job rows in the database, cron timers in the process,    *)
(* runs of the jobs, and the database backup that one of them makes.       *)
(*                                                                         *)
(* A request of a user (create, edit, pause, resume, run now) writes the   *)
(* row and then brings the timer in line with what it wrote; between the   *)
(* two another request may do the same.  The timer keeps the row that it   *)
(* was made from.  A crash loses timers and runs, a restart makes the      *)
(* timers from the rows and catches up on runs that were missed.           *)
(***************************************************************************)
EXTENDS Integers, FiniteSets, Sequences, TLC

CONSTANTS
    Jobs,           \* the jobs there may be
    BackupJob,      \* the one that the server creates by itself
    Procs,          \* concurrent requests
    Runs,           \* bound: runs at a time
    Refused,        \* cron expressions that pass the validation and that
                    \* CronJob does not take
    None,           \* no row, no timer, no request, no run
    Setups          \* installations: [jobs, users, edits, retention, runs, times,
                    \* backups, crashes], the jobs that requests and time are
                    \* about, the requests at a time, what an edit may change
                    \* (records of columns), how many backups are kept, and the
                    \* bounds on runs at a time, on scheduled times of a job, on
                    \* backups (none: another executor) and on crashes

\* The columns of sys_job, and those that a request may change.
Statuses == {"ACTIVE", "PAUSED"}
Policies == {"ALLOW", "FORBID"}
Misfires == {"SKIP", "FIRE_AND_PROCEED"}
Crons == {"good"} \cup Refused
IsEdit(e) ==
    /\ DOMAIN e \subseteq {"status", "policy", "misfire", "cron"}
    /\ "status" \in DOMAIN e => e.status \in Statuses
    /\ "policy" \in DOMAIN e => e.policy \in Policies
    /\ "misfire" \in DOMAIN e => e.misfire \in Misfires
    /\ "cron" \in DOMAIN e => e.cron \in Crons

ASSUME SchedulerAssumption ==
    /\ BackupJob \in Jobs
    /\ IsFiniteSet(Runs)
    /\ \A s \in Setups :
          /\ s.jobs \subseteq Jobs
          /\ \A e \in s.edits : IsEdit(e)
          /\ s.retention \in Nat \ {0}
          /\ {s.users, s.runs, s.times, s.backups, s.crashes} \subseteq Nat
          /\ s.runs <= Cardinality(Runs)

VARIABLES
    setup,      \* the installation
    rows,       \* sys_job: job -> [status, policy, misfire, cron, lastRun]
    now,        \* the scheduled times of each job that have passed
    process,    \* "down", "boot" or "up"
    boot,       \* what a restart has still to do: [list, job, caught]
    timers,     \* the registered cron jobs: job -> the row they were made from
    running,    \* runningJobs
    run,        \* executions in progress
    req,        \* requests in progress
    files,      \* backups, numbered by name: "partial", "whole" or "gone"
    crashes,
    tangled,    \* history: jobs changed by overlapping requests
    loosened,   \* history: jobs of which an ALLOW run joined another run
    shared,     \* history: two runs of the backup job went side by side
    saved       \* history: a backup was made
server == <<process, boot, timers, running, run, req>>
history == <<tangled, loosened, shared, saved>>
vars == <<setup, rows, now, server, files, crashes, history>>

\* What the variables hold, when it is not None.
JobRow == [status : Statuses, policy : Policies, misfire : Misfires, cron : Crons, lastRun : Nat]
Columns == [status : Statuses, policy : Policies, cron : Crons]
CronTimer == [policy : Policies, cron : Crons]
Execution ==
    [job : Jobs, policy : Policies, atBoot : BOOLEAN,
     step : {"work", "dump", "sum", "remove", "stamp", "fail"},
     at : Nat, file : Nat, victims : SUBSET Nat]
PauseEdit == [status |-> "PAUSED"]
ResumeEdit == [status |-> "ACTIVE"]
Edits == (UNION {s.edits : s \in Setups}) \cup {PauseEdit, ResumeEdit}
Request ==
    [op : {"create", "change", "run"}, job : Jobs, edit : Edits \cup {None},
     step : {"read", "written", "undo", "restore", "restored"},
     old : JobRow \cup Columns \cup {None}, new : Columns \cup {None}]

ASSUME NoneAssumption == None \notin Jobs \cup JobRow \cup CronTimer \cup Execution \cup Request

Quiet == [list |-> <<>>, job |-> None, caught |-> FALSE]

Init ==
    /\ setup \in Setups
    /\ rows = [j \in Jobs |-> None]
    /\ now = [j \in Jobs |-> 0]
    /\ process = "down" /\ boot = Quiet
    /\ timers = [j \in Jobs |-> None]
    /\ running = {}
    /\ run = [r \in Runs |-> None]
    /\ req = [p \in Procs |-> None]
    /\ files = <<>> /\ crashes = 0
    /\ tangled = {} /\ loosened = {} /\ shared = FALSE /\ saved = FALSE

-----------------------------------------------------------------------------
(* Timers.                                                                 *)

Row(j, policy, misfire) ==
    [status |-> "ACTIVE", policy |-> policy, misfire |-> misfire,
     cron |-> "good", lastRun |-> now[j]]

\* syncRuntimeJob: the old timer goes, an ACTIVE row gets a new one unless
\* CronJob throws.
Refuses(row) == row.status = "ACTIVE" /\ row.cron \in Refused
Settings(row) == [status |-> row.status, policy |-> row.policy, cron |-> row.cron]
Timer(row) == [policy |-> row.policy, cron |-> row.cron]
Synced(j, row) ==
    [timers EXCEPT ![j] = IF row.status = "ACTIVE" /\ ~Refuses(row)
                          THEN Timer(row) ELSE None]

\* shouldRunMisfireCatchUp: a scheduled time has passed since the last run.
ShouldCatchUp(j, row) == row.misfire = "FIRE_AND_PROCEED" /\ row.lastRun < now[j]

-----------------------------------------------------------------------------
(* Runs.                                                                   *)

RunsOf(j) == {r \in Runs : run[r] # None /\ run[r].job = j}

\* executeJob up to its executor.  Under FORBID a second run is only logged
\* (mutation: it is made).
NeverSkips(j, policy) == FALSE
Skips(j, policy) == policy = "FORBID" /\ j \in running

StartRun(j, policy, atBoot) ==
    \/ /\ Skips(j, policy)
       /\ UNCHANGED <<run, running, loosened, shared>>
    \/ /\ ~Skips(j, policy)
       /\ Cardinality({r \in Runs : run[r] # None}) < setup.runs
       /\ run' = [run EXCEPT ![CHOOSE r \in Runs : run[r] = None] =
                     [job |-> j, policy |-> policy, atBoot |-> atBoot,
                      step |-> "work", at |-> 0, file |-> 0, victims |-> {}]]
       /\ running' = running \cup {j}
       /\ loosened' = IF RunsOf(j) = {} THEN loosened \ {j}
                      ELSE IF policy = "ALLOW" THEN loosened \cup {j} ELSE loosened
       /\ shared' = (shared \/ (j = BackupJob /\ RunsOf(j) # {}))

Goto(r, step) == run' = [run EXCEPT ![r].step = step]

\* The executor ends, or throws; lastRunAt is when it ended (mutation: the next
\* scheduled time).
NextTime(j) == now[j] + 1
EndTime(j) == now[j]
Work(r) ==
    /\ run[r].step = "work"
    /\ ~(run[r].job = BackupJob /\ setup.backups > 0)
    /\ \/ run' = [run EXCEPT ![r].step = "stamp", ![r].at = EndTime(run[r].job)]
       \/ Goto(r, "fail")
    /\ UNCHANGED <<rows, now, process, boot, timers, running, req, files, crashes, history>>

\* createFullBackup.  The file gets the next name, in the order of time; a dump
\* that fails takes its file away.
BeginDump(r) ==
    LET file == Len(files) + 1
    IN  /\ run[r].step = "work"
        /\ run[r].job = BackupJob /\ setup.backups > 0
        /\ \/ /\ file <= setup.backups
              /\ files' = Append(files, "partial")
              /\ run' = [run EXCEPT ![r].step = "dump", ![r].file = file]
           \/ Goto(r, "fail") /\ UNCHANGED files
        /\ UNCHANGED <<rows, now, process, boot, timers, running, req, crashes, history>>

EndDump(r) ==
    /\ run[r].step = "dump"
    /\ \/ files' = [files EXCEPT ![run[r].file] = "whole"] /\ Goto(r, "sum")
       \/ files' = [files EXCEPT ![run[r].file] = "gone"] /\ Goto(r, "fail")
    /\ UNCHANGED <<rows, now, process, boot, timers, running, req, crashes, history>>

\* pruneOldBackups: by name, the newest are kept (mutation: the oldest are).
Present == {f \in DOMAIN files : files[f] # "gone"}
OldestKept == {f \in Present : Cardinality({g \in Present : g < f}) < setup.retention}
NewestKept == {f \in Present : Cardinality({g \in Present : g > f}) < setup.retention}

\* writeChecksum, then the directory is read.
SumAndList(r) ==
    /\ run[r].step = "sum"
    /\ \/ /\ run[r].file \in Present
          /\ run' = [run EXCEPT ![r].step = "remove", ![r].victims = Present \ NewestKept]
       \/ Goto(r, "fail")
    /\ UNCHANGED <<rows, now, process, boot, timers, running, req, files, crashes, history>>

RemoveOld(r) ==
    /\ run[r].step = "remove"
    /\ \/ \E f \in run[r].victims :
             /\ files' = [files EXCEPT ![f] = "gone"]
             /\ run' = [run EXCEPT ![r].victims = @ \ {f}]
             /\ UNCHANGED saved
       \/ /\ run[r].victims = {}
          /\ run' = [run EXCEPT ![r].step = "stamp", ![r].at = EndTime(BackupJob)]
          /\ saved' = TRUE
          /\ UNCHANGED files
    /\ UNCHANGED <<rows, now, process, boot, timers, running, req, crashes, tangled,
                   loosened, shared>>

\* The finally of executeJob (mutation: not after a failure).
Finished(r) == running \ {run[r].job}

\* lastRunAt is written; the row may be gone.
Stamp(r) ==
    LET j == run[r].job
    IN  /\ run[r].step = "stamp"
        /\ \/ /\ rows[j] # None
              /\ rows' = [rows EXCEPT ![j].lastRun = run[r].at]
              /\ run' = [run EXCEPT ![r] = None]
              /\ running' = Finished(r)
           \/ /\ rows[j] = None
              /\ Goto(r, "fail")
              /\ UNCHANGED <<rows, running>>
        /\ UNCHANGED <<now, process, boot, timers, req, files, crashes, history>>

FailedStays(r) == running
FailedFinished(r) == Finished(r)
Fail(r) ==
    /\ run[r].step = "fail"
    /\ run' = [run EXCEPT ![r] = None]
    /\ running' = FailedFinished(r)
    /\ UNCHANGED <<rows, now, process, boot, timers, req, files, crashes, history>>

RunStep(r) ==
    /\ run[r] # None
    /\ \/ Work(r) \/ BeginDump(r) \/ EndDump(r) \/ SumAndList(r)
       \/ RemoveOld(r) \/ Stamp(r) \/ Fail(r)

\* A scheduled time comes: the timer of the job runs it, if there is one.
Fire(j) ==
    /\ now[j] < setup.times
    /\ now' = [now EXCEPT ![j] = @ + 1]
    /\ timers[j] # None
    /\ StartRun(j, timers[j].policy, FALSE)
    /\ UNCHANGED <<rows, process, boot, timers, req, files, crashes, tangled, saved>>

Miss(j) ==
    /\ now[j] < setup.times
    /\ timers[j] = None
    /\ now' = [now EXCEPT ![j] = @ + 1]
    /\ UNCHANGED <<rows, server, files, crashes, history>>

-----------------------------------------------------------------------------
(* Requests.                                                               *)

\* Requests that are changing a job.  Two of them at a time may do their timers
\* in the other order than their rows, or put back a row that the other has
\* yet to put back itself.
Changing(j) == {p \in Procs : req[p] # None /\ req[p].job = j /\ req[p].op # "run"}
Enter(p, op, j, edit, step, old, new) ==
    /\ process = "up"
    /\ req[p] = None
    /\ Cardinality({q \in Procs : req[q] # None}) < setup.users
    /\ req' = [req EXCEPT ![p] = [op |-> op, job |-> j, edit |-> edit, step |-> step,
                                  old |-> old, new |-> new]]
    /\ tangled' = CASE op = "run" -> tangled
                    [] op # "run" /\ Changing(j) = {} -> tangled \ {j}
                    [] OTHER -> tangled \cup {j}

Answer(p) == req' = [req EXCEPT ![p] = None]

\* createJob, with its row written.
SubmitCreate(p) ==
    /\ \E j \in setup.jobs, policy \in {"FORBID", "ALLOW"}, cron \in {"good"} \cup Refused :
          LET row == [Row(j, policy, "FIRE_AND_PROCEED") EXCEPT !.cron = cron]
          IN  /\ rows[j] = None /\ RunsOf(j) = {}
              /\ \A q \in Procs : req[q] # None => req[q].job # j
              /\ Enter(p, "create", j, None, "written", None, Settings(row))
              /\ rows' = [rows EXCEPT ![j] = row]
    /\ UNCHANGED <<now, process, boot, timers, running, run, files, crashes,
                   loosened, shared, saved>>

\* What a request changes in the row.
Edited(row, e) == [c \in DOMAIN row |-> IF c \in DOMAIN e THEN e[c] ELSE row[c]]
Changes ==
    {[op |-> "edit", edit |-> e] : e \in setup.edits} \cup
    {[op |-> "pause", edit |-> PauseEdit],
     [op |-> "resume", edit |-> ResumeEdit]}

\* The read of updateJob, pauseJob, resumeJob; a pause of a paused job and a
\* resume of an active one end here.
SubmitChange(p) ==
    /\ \E j \in setup.jobs, c \in Changes :
          /\ rows[j] # None
          /\ c.op # "edit" => rows[j] # Edited(rows[j], c.edit)
          /\ Enter(p, "change", j, c.edit, "read", rows[j], None)
    /\ UNCHANGED <<rows, now, process, boot, timers, running, run, files, crashes,
                   loosened, shared, saved>>

WriteChange(p) ==
    LET j == req[p].job
        row == Edited(rows[j], req[p].edit)
    IN  /\ req[p].op = "change" /\ req[p].step = "read"
        /\ \/ /\ rows[j] = None
              /\ Answer(p)
              /\ UNCHANGED rows
           \/ /\ rows[j] # None
              /\ rows' = [rows EXCEPT ![j] = row]
              /\ req' = [req EXCEPT ![p].step = "written", ![p].edit = None,
                                ![p].old = IF Refuses(row) THEN @ ELSE None,
                                ![p].new = Settings(row)]
        /\ UNCHANGED <<now, process, boot, timers, running, run, files, crashes, history>>

\* The timer is brought in line with the row as this request wrote it.  When
\* CronJob throws, the row is put back, or deleted if it is new.
SyncTimer(p) ==
    LET j == req[p].job
    IN  /\ req[p].step = "written"
        /\ timers' = Synced(j, req[p].new)
        /\ IF ~Refuses(req[p].new) THEN Answer(p)
           ELSE req' = [req EXCEPT ![p].new = None, ![p].step =
                           IF req[p].op = "create" THEN "undo" ELSE "restore"]
        /\ UNCHANGED <<rows, now, process, boot, running, run, files, crashes, history>>

\* restoreJob: every column as it was read (mutation: the timer is left), and
\* the timer again.
Restore(p) ==
    LET j == req[p].job
    IN  /\ req[p].step = "restore"
        /\ \/ /\ rows[j] # None
              /\ rows' = [rows EXCEPT ![j] = req[p].old]
              /\ req' = [req EXCEPT ![p].step = "restored"]
           \/ /\ rows[j] = None
              /\ Answer(p)
              /\ UNCHANGED rows
        /\ UNCHANGED <<now, process, boot, timers, running, run, files, crashes, history>>

LeaveTimer(p) == timers
RestoredTimer(p) == Synced(req[p].job, req[p].old)
SyncRestored(p) ==
    /\ req[p].step = "restored"
    /\ timers' = RestoredTimer(p)
    /\ tangled' = IF Refuses(req[p].old) THEN tangled \cup {req[p].job} ELSE tangled
    /\ Answer(p)
    /\ UNCHANGED <<rows, now, process, boot, running, run, files, crashes,
                   loosened, shared, saved>>

\* safeDeleteJob.
UndoCreate(p) ==
    LET j == req[p].job
    IN  /\ req[p].step = "undo"
        /\ timers' = [timers EXCEPT ![j] = None]
        /\ rows' = [rows EXCEPT ![j] = None]
        /\ Answer(p)
        /\ UNCHANGED <<now, process, boot, running, run, files, crashes, history>>

\* runJobNow: the job as it is read is run.
SubmitRun(p) ==
    /\ \E j \in setup.jobs :
          /\ rows[j] # None
          /\ Enter(p, "run", j, None, "read", Settings(rows[j]), None)
    /\ UNCHANGED <<rows, now, process, boot, timers, running, run, files, crashes,
                   loosened, shared, saved>>

RunNow(p) ==
    /\ req[p].op = "run" /\ req[p].step = "read"
    /\ StartRun(req[p].job, req[p].old.policy, FALSE)
    /\ Answer(p)
    /\ UNCHANGED <<rows, now, process, boot, timers, files, crashes, tangled, saved>>

RequestStep(p) ==
    /\ req[p] # None
    /\ \/ WriteChange(p) \/ SyncTimer(p) \/ Restore(p) \/ SyncRestored(p)
       \/ UndoCreate(p) \/ RunNow(p)

-----------------------------------------------------------------------------
(* Crash and restart.                                                      *)

\* The process ends: an exit, a rejection that nobody handles, a kill.
Die ==
    /\ process' = "down" /\ boot' = Quiet
    /\ timers' = [j \in Jobs |-> None]
    /\ running' = {}
    /\ run' = [r \in Runs |-> None]
    /\ req' = [p \in Procs |-> None]
    /\ tangled' = {} /\ loosened' = {}
    /\ UNCHANGED <<rows, now, files, shared, saved>>

Crash ==
    /\ process # "down"
    /\ crashes < setup.crashes
    /\ crashes' = crashes + 1
    /\ Die

\* The jobs that a restart takes on (mutation: those that missed a run).
MissedJobs(table) ==
    {j \in Jobs : table[j] # None /\ ShouldCatchUp(j, table[j])}
ActiveJobs(table) ==
    {j \in Jobs : table[j] # None /\ table[j].status = "ACTIVE"}

\* onApplicationBootstrap: the backup job is created if there is none (paused
\* or not, as configured); the active rows are read.
Restart ==
    /\ process = "down"
    /\ process' = "boot"
    /\ \E status \in {"ACTIVE", "PAUSED"} :
          rows' = IF rows[BackupJob] # None THEN rows
                  ELSE [rows EXCEPT ![BackupJob] =
                           [Row(BackupJob, "FORBID", "SKIP") EXCEPT !.status = status]]
    /\ boot' = [Quiet EXCEPT !.list = [j \in ActiveJobs(rows') |-> rows'[j]]]
    /\ UNCHANGED <<now, timers, running, run, req, files, crashes, history>>

\* The next job of the list: a missed run is made up for first.
BootTake(j) ==
    /\ process = "boot"
    /\ boot.job = None
    /\ j \in DOMAIN boot.list
    /\ boot' = [boot EXCEPT !.job = j, !.caught = ShouldCatchUp(j, boot.list[j])]
    /\ IF ShouldCatchUp(j, boot.list[j])
       THEN StartRun(j, boot.list[j].policy, TRUE)
       ELSE UNCHANGED <<run, running, loosened, shared>>
    /\ UNCHANGED <<rows, now, process, timers, req, files, crashes, tangled, saved>>

\* Then its timer is made; if CronJob throws the process exits.
CaughtUp(j) == \A r \in RunsOf(j) : ~run[r].atBoot
BootTimer ==
    LET j == boot.job
    IN  /\ process = "boot"
        /\ j # None
        /\ CaughtUp(j)
        /\ \/ /\ Refuses(boot.list[j])
              /\ Die
           \/ /\ ~Refuses(boot.list[j])
              /\ timers' = Synced(j, boot.list[j])
              /\ boot' = [boot EXCEPT !.job = None,
                             !.list = [k \in DOMAIN boot.list \ {j} |-> boot.list[k]]]
              /\ UNCHANGED <<rows, now, process, running, run, req, files, history>>
        /\ UNCHANGED crashes

BootDone ==
    /\ process = "boot"
    /\ boot.job = None
    /\ DOMAIN boot.list = {}
    /\ process' = "up"
    /\ UNCHANGED <<rows, now, boot, timers, running, run, req, files, crashes, history>>

BootStep == (\E j \in Jobs : BootTake(j)) \/ BootTimer \/ BootDone

Next ==
    /\ UNCHANGED setup
    /\ \/ \E p \in Procs : SubmitCreate(p) \/ SubmitChange(p) \/ SubmitRun(p) \/ RequestStep(p)
       \/ \E r \in Runs : RunStep(r)
       \/ \E j \in setup.jobs : Fire(j) \/ Miss(j)
       \/ Crash \/ Restart \/ BootStep

\* Requests go on, executors end, a process that went down is started again.
\* Nothing makes users send requests.
Fairness ==
    /\ \A p \in Procs : WF_vars(RequestStep(p) /\ UNCHANGED setup)
    /\ \A r \in Runs : WF_vars(RunStep(r) /\ UNCHANGED setup)
    /\ WF_vars((Restart \/ BootStep) /\ UNCHANGED setup)

Spec == Init /\ [][Next]_vars /\ Fairness

-----------------------------------------------------------------------------
(* Properties.                                                             *)

\* Every variable has values of its kind, and no time is stored, or about to be,
\* that has yet to come.
TypeOK ==
    /\ setup \in Setups
    /\ now \in [Jobs -> Nat] /\ crashes \in Nat
    /\ rows \in [Jobs -> JobRow \cup {None}]
    /\ \A j \in Jobs : rows[j] # None => rows[j].lastRun <= now[j]
    /\ process \in {"down", "boot", "up"}
    /\ timers \in [Jobs -> CronTimer \cup {None}]
    /\ running \subseteq Jobs
    /\ run \in [Runs -> Execution \cup {None}]
    /\ \A r \in Runs : run[r] # None => run[r].at <= now[run[r].job]
    /\ req \in [Procs -> Request \cup {None}]
    /\ files \in Seq({"partial", "whole", "gone"})
    /\ tangled \cup loosened \subseteq Jobs /\ {shared, saved} \subseteq BOOLEAN

\* In a server that is up, a job that no request is busy with has a timer if
\* and only if its row is active, made from the row as it is, unless two
\* requests that change it overlapped.
TimersMatchRows ==
    process = "up" =>
        \A j \in Jobs \ tangled :
            Changing(j) = {} =>
                timers[j] = IF rows[j] = None \/ rows[j].status = "PAUSED" THEN None
                            ELSE Timer(rows[j])

\* A run that was started under FORBID is the only one of its job, unless a run
\* under ALLOW has joined another one since the job was last at rest.
ForbidExcludes ==
    \A r, s \in Runs :
        /\ r # s /\ run[r] # None /\ run[s] # None
        /\ run[r].job = run[s].job
        /\ run[r].policy = "FORBID" /\ run[s].policy = "FORBID"
        => run[r].job \in loosened

\* Once a backup was made there is one, whole, at any time, whatever fails or
\* crashes later, unless two backups went side by side.
BackupSurvives ==
    saved /\ ~shared => \E f \in Present : files[f] = "whole"

\* A job does not stay marked as running.
RunsEnd == \A j \in Jobs : j \in running ~> j \notin running

\* An active job gets its timer, if CronJob takes every active row.
Bootable == \A j \in Jobs : rows[j] # None => ~Refuses(rows[j])
Active(j) == rows[j] # None /\ rows[j].status = "ACTIVE"
ActiveGetsTimer ==
    \A j \in Jobs :
        (Active(j) /\ Bootable)
            ~> (timers[j] # None \/ ~Active(j) \/ ~Bootable \/ j \in tangled)
=============================================================================
