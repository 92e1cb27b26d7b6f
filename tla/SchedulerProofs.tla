--------------------------- MODULE SchedulerProofs ---------------------------
(***************************************************************************)
(* Safety of the scheduler, for any number of jobs, requests and runs and  *)
(* any installation: type correctness, timers that match their rows, runs  *)
(* under FORBID that exclude each other, and backups that survive.         *)
(*                                                                         *)
(* Types is the inductive type invariant that the other three rest on; for *)
(* each of those there is an invariant about one job, or about the backup  *)
(* in progress, and one lemma for each kind of step.                       *)
(***************************************************************************)
EXTENDS Scheduler, TLAPS, FiniteSetTheorems

\* What is known of a request, by where it is.
RequestInv(p) ==
    LET q == req[p]
    IN  /\ q.op = "run" => q.step = "read" /\ q.old \in Columns
        /\ q.op = "create" => q.step \in {"written", "undo"}
        /\ q.op = "change" => q.step # "undo"
        /\ q.op = "change" /\ q.step = "read" => q.edit \in Edits
        /\ q.op = "change" /\ (q.step # "written" \/ Refuses(q.new)) => q.old \in JobRow
        /\ q.op = "change" /\ q.old \in JobRow => q.old.lastRun <= now[q.job]
        /\ q.step = "written" => q.new \in Columns

\* What a restart has still to do, and what a process that is not up lacks.
BootTypes ==
    /\ boot = [list |-> boot.list, job |-> boot.job, caught |-> boot.caught]
    /\ boot.job \in DOMAIN boot.list \cup {None}
    /\ DOMAIN boot.list \subseteq Jobs
    /\ \A j \in DOMAIN boot.list : boot.list[j] \in JobRow

\* Only the backup job makes backups.
RunInv(r) == run[r].step \in {"dump", "sum", "remove"} => run[r].job = BackupJob

Types ==
    /\ TypeOK
    /\ \A r \in Runs : run[r] # None => RunInv(r)
    /\ \A p \in Procs : req[p] # None => RequestInv(p)
    /\ process = "boot" => BootTypes
    /\ process # "up" => tangled = {} /\ \A p \in Procs : req[p] = None

USE SchedulerAssumption, NoneAssumption

-----------------------------------------------------------------------------
(* The operators of the model.                                             *)

\* An edited row is a row, with the time of its last run.
LEMMA EditedType ==
  ASSUME NEW e \in Edits, NEW row \in JobRow
  PROVE  Edited(row, e) \in JobRow /\ Edited(row, e).lastRun = row.lastRun
<1>1. IsEdit(e)
  <2>1. CASE \E s \in Setups : e \in s.edits
    BY <2>1
  <2>2. CASE e = PauseEdit \/ e = ResumeEdit
    BY <2>2 DEF PauseEdit, ResumeEdit, IsEdit, Statuses
  <2> QED BY <2>1, <2>2 DEF Edits
<1> DEFINE D == {"status", "policy", "misfire", "cron", "lastRun"}
           new == Edited(row, e)
<1>2. /\ DOMAIN row = D
      /\ row.status \in Statuses /\ row.policy \in Policies
      /\ row.misfire \in Misfires /\ row.cron \in Crons /\ row.lastRun \in Nat
  BY DEF JobRow
<1>3. new = [x \in D |-> IF x \in DOMAIN e THEN e[x] ELSE row[x]]
  BY <1>2 DEF Edited
<1>4. /\ new.status \in Statuses /\ new.policy \in Policies
      /\ new.misfire \in Misfires /\ new.cron \in Crons /\ new.lastRun = row.lastRun
  BY <1>3, <1>1, <1>2 DEF IsEdit
<1>5. new = [status |-> new.status, policy |-> new.policy, misfire |-> new.misfire,
             cron |-> new.cron, lastRun |-> new.lastRun]
  BY <1>3
<1> HIDE DEF new
<1>6. new \in JobRow
  BY <1>5, <1>4, <1>2 DEF JobRow
<1> QED BY <1>4, <1>6 DEF new

\* Below the bound on runs there is a free one, so that StartRun's choice is sound.
LEMMA FreeRun ==
  ASSUME TypeOK, Cardinality({r \in Runs : run[r] # None}) < setup.runs
  PROVE  /\ (CHOOSE r \in Runs : run[r] = None) \in Runs
         /\ run[CHOOSE r \in Runs : run[r] = None] = None
<1> DEFINE busy == {r \in Runs : run[r] # None}
<1>1. /\ setup.runs <= Cardinality(Runs)
      /\ setup.runs \in Nat /\ Cardinality(Runs) \in Nat
  BY FS_CardinalityType DEF TypeOK
<1>2. busy # Runs
  <2>1. Cardinality(busy) < setup.runs
    OBVIOUS
  <2> HIDE DEF busy
  <2> QED BY <1>1, <2>1
<1> QED BY <1>2

-----------------------------------------------------------------------------
(* Type correctness.                                                       *)

LEMMA InitTypes == Init => Types
<1> SUFFICES ASSUME Init PROVE Types
  OBVIOUS
<1>1. TypeOK
  <2>1. files \in Seq({"partial", "whole", "gone"})
    BY DEF Init
  <2> QED BY <2>1 DEF Init, TypeOK
<1> QED BY <1>1 DEF Init, Types

\* What an execution is after a step of it.
LEMMA ExecutionStep ==
  ASSUME TypeOK, NEW r \in Runs, run[r] # None
  PROVE  /\ run[r] \in Execution
         /\ run[r].job \in Jobs /\ run[r].policy \in Policies /\ run[r].at \in Nat
         /\ run[r].at <= now[run[r].job]
BY DEF TypeOK, Execution

LEMMA StartRunTypes ==
  ASSUME Types, NEW j \in Jobs, NEW policy \in Policies, NEW atBoot \in BOOLEAN,
         StartRun(j, policy, atBoot)
  PROVE  /\ run' \in [Runs -> Execution \cup {None}]
         /\ \A r \in Runs : run'[r] # None => run'[r].at <= now[run'[r].job] /\ RunInv(r)'
         /\ running' \subseteq Jobs /\ loosened' \subseteq Jobs /\ shared' \in BOOLEAN
<1>1. CASE UNCHANGED <<run, running, loosened, shared>>
  BY <1>1 DEF Types, TypeOK, RunInv
<1>2. CASE ~Skips(j, policy)
  <2> DEFINE r0 == CHOOSE r \in Runs : run[r] = None
             e == [job |-> j, policy |-> policy, atBoot |-> atBoot,
                   step |-> "work", at |-> 0, file |-> 0, victims |-> {}]
  <2>1. r0 \in Runs
    BY <1>2, FreeRun DEF StartRun, Types
  <2>2. e \in Execution
    BY DEF Execution
  <2>3. run' = [run EXCEPT ![r0] = e]
    BY <1>2 DEF StartRun
  <2>4. e.at = 0 /\ e.job = j /\ e.step = "work" /\ now[j] \in Nat
    BY DEF Types, TypeOK
  <2> HIDE DEF r0, e
  <2>5. /\ running' = running \cup {j} /\ loosened' \subseteq loosened \cup {j}
        /\ shared' \in BOOLEAN
    BY <1>2 DEF StartRun
  <2> QED BY <2>1, <2>2, <2>3, <2>4, <2>5 DEF Types, TypeOK, RunInv
<1> QED BY <1>1, <1>2 DEF StartRun
LEMMA EnterTypes ==
  ASSUME Types, NEW p \in Procs, NEW op \in {"create", "change", "run"}, NEW j \in Jobs,
         NEW edit \in Edits \cup {None}, NEW step \in {"read", "written"},
         NEW old \in JobRow \cup Columns \cup {None}, NEW new \in Columns \cup {None},
         Enter(p, op, j, edit, step, old, new)
  PROVE  /\ req' \in [Procs -> Request \cup {None}]
         /\ req'[p] # None
         /\ req'[p].op = op /\ req'[p].job = j /\ req'[p].edit = edit
         /\ req'[p].step = step /\ req'[p].old = old /\ req'[p].new = new
         /\ \A q \in Procs \ {p} : req'[q] = req[q]
         /\ tangled' \subseteq Jobs
         /\ process = "up"
<1> DEFINE e == [op |-> op, job |-> j, edit |-> edit, step |-> step,
                 old |-> old, new |-> new]
<1>1. e \in Request
  BY DEF Request
<1>2. req' = [req EXCEPT ![p] = e]
  BY DEF Enter
<1>3. tangled' \subseteq tangled \cup {j} /\ process = "up"
  BY DEF Enter
<1> QED BY <1>1, <1>2, <1>3 DEF Types, TypeOK

\* A request is only changed by its own steps.
LEMMA RequestFrame ==
  ASSUME TypeOK, NEW p \in Procs, req'[p] = req[p], RequestInv(p), req[p] # None,
         \A j \in Jobs : now'[j] = now[j] \/ now'[j] = now[j] + 1
  PROVE  RequestInv(p)'
<1>1. req[p].job \in Jobs /\ now[req[p].job] \in Nat
  BY DEF TypeOK, Request
<1>2. req[p].old \in JobRow => req[p].old.lastRun \in Nat
  BY DEF JobRow
<1> QED BY <1>1, <1>2 DEF RequestInv, Refuses

LEMMA SubmitCreateTypes ==
  ASSUME Types, NEW p \in Procs, UNCHANGED setup, SubmitCreate(p)
  PROVE  Types'
<1>1. PICK j \in setup.jobs, policy \in {"FORBID", "ALLOW"}, cron \in {"good"} \cup Refused :
         LET row == [Row(j, policy, "FIRE_AND_PROCEED") EXCEPT !.cron = cron]
         IN  /\ Enter(p, "create", j, None, "written", None, Settings(row))
             /\ rows' = [rows EXCEPT ![j] = row]
  BY DEF SubmitCreate
<1> DEFINE row == [Row(j, policy, "FIRE_AND_PROCEED") EXCEPT !.cron = cron]
<1>2. j \in Jobs
  BY DEF Types, TypeOK
<1>3. row \in JobRow /\ row.lastRun = now[j]
  BY <1>2 DEF Row, JobRow, Statuses, Policies, Misfires, Crons, Types, TypeOK
<1>4. Settings(row) \in Columns
  BY <1>3 DEF Settings, Columns, JobRow
<1>5. rows' = [rows EXCEPT ![j] = row] /\ Enter(p, "create", j, None, "written", None, Settings(row))
  BY <1>1
<1>6. UNCHANGED <<now, process, boot, timers, running, run, files, crashes, loosened, shared, saved>>
  BY DEF SubmitCreate
<1> HIDE DEF row
<1>7. /\ req' \in [Procs -> Request \cup {None}]
      /\ req'[p] # None
      /\ req'[p].op = "create" /\ req'[p].step = "written" /\ req'[p].new \in Columns
      /\ \A q \in Procs \ {p} : req'[q] = req[q]
      /\ tangled' \subseteq Jobs /\ process = "up"
  <2>1. /\ "create" \in {"create", "change", "run"} /\ None \in Edits \cup {None}
        /\ "written" \in {"read", "written"} /\ None \in JobRow \cup Columns \cup {None}
        /\ Settings(row) \in Columns \cup {None}
    BY <1>4
  <2> QED BY <2>1, <1>2, <1>5, <1>4, EnterTypes
<1>8. TypeOK'
  BY <1>2, <1>3, <1>5, <1>6, <1>7 DEF Types, TypeOK
<1>9. ASSUME NEW q \in Procs, req'[q] # None PROVE RequestInv(q)'
  <2>1. CASE q = p
    BY <2>1, <1>7 DEF RequestInv
  <2>2. CASE q # p
    BY <2>2, <1>9, <1>7, <1>6, RequestFrame DEF Types
  <2> QED BY <2>1, <2>2
<1> QED BY <1>6, <1>7, <1>8, <1>9 DEF Types, RunInv
\* A step of a request that leaves the times alone: what is left to show is
\* that the request is well formed, and the row and the timer of its job.
LEMMA OwnStepTypes ==
  ASSUME Types, NEW p \in Procs, process = "up",
         NEW x \in Request \cup {None}, req' = [req EXCEPT ![p] = x],
         x # None => RequestInv(p)',
         rows' \in [Jobs -> JobRow \cup {None}],
         \A j \in Jobs : rows'[j] # None => rows'[j].lastRun <= now[j],
         timers' \in [Jobs -> CronTimer \cup {None}],
         tangled' \subseteq Jobs,
         UNCHANGED <<setup, now, process, boot, running, run, files, crashes,
                     loosened, shared, saved>>
  PROVE  Types'
<1>1. TypeOK'
  BY DEF Types, TypeOK
<1>2. ASSUME NEW q \in Procs, req'[q] # None PROVE RequestInv(q)'
  <2>1. CASE q = p
    BY <2>1, <1>2 DEF Types, TypeOK
  <2>2. CASE q # p
    <3>1. req'[q] = req[q]
      BY <2>2 DEF Types, TypeOK
    <3> QED BY <3>1, <1>2, RequestFrame DEF Types
  <2> QED BY <2>1, <2>2
<1> QED BY <1>1, <1>2 DEF Types, RunInv

LEMMA SubmitChangeTypes ==
  ASSUME Types, NEW p \in Procs, UNCHANGED setup, SubmitChange(p)
  PROVE  Types'
<1>1. PICK j \in setup.jobs, c \in Changes :
         /\ rows[j] # None
         /\ Enter(p, "change", j, c.edit, "read", rows[j], None)
  BY DEF SubmitChange
<1>2. j \in Jobs /\ rows[j] \in JobRow /\ rows[j].lastRun <= now[j]
  BY <1>1 DEF Types, TypeOK
<1>3. c.edit \in Edits
  BY DEF Changes, Edits, Types, TypeOK
<1>4. UNCHANGED <<rows, now, process, boot, timers, running, run, files, crashes,
                  loosened, shared, saved>>
  BY DEF SubmitChange
<1>5. /\ req' \in [Procs -> Request \cup {None}]
      /\ req'[p] # None
      /\ req'[p].op = "change" /\ req'[p].step = "read" /\ req'[p].job = j
      /\ req'[p].edit = c.edit /\ req'[p].old = rows[j]
      /\ \A q \in Procs \ {p} : req'[q] = req[q]
      /\ tangled' \subseteq Jobs /\ process = "up"
  <2>1. /\ "change" \in {"create", "change", "run"} /\ c.edit \in Edits \cup {None}
        /\ "read" \in {"read", "written"} /\ rows[j] \in JobRow \cup Columns \cup {None}
        /\ None \in Columns \cup {None}
    BY <1>2, <1>3
  <2> QED BY <2>1, <1>1, <1>2, EnterTypes
<1>6. TypeOK'
  BY <1>4, <1>5 DEF Types, TypeOK
<1>7. ASSUME NEW q \in Procs, req'[q] # None PROVE RequestInv(q)'
  <2>1. CASE q = p
    BY <2>1, <1>2, <1>3, <1>4, <1>5 DEF RequestInv
  <2>2. CASE q # p
    BY <2>2, <1>7, <1>5, <1>4, RequestFrame DEF Types
  <2> QED BY <2>1, <2>2
<1> QED BY <1>4, <1>5, <1>6, <1>7 DEF Types, RunInv

LEMMA SubmitRunTypes ==
  ASSUME Types, NEW p \in Procs, UNCHANGED setup, SubmitRun(p)
  PROVE  Types'
<1>1. PICK j \in setup.jobs :
         /\ rows[j] # None
         /\ Enter(p, "run", j, None, "read", Settings(rows[j]), None)
  BY DEF SubmitRun
<1>2. j \in Jobs /\ rows[j] \in JobRow
  BY <1>1 DEF Types, TypeOK
<1>3. Settings(rows[j]) \in Columns
  BY <1>2 DEF Settings, Columns, JobRow
<1>4. UNCHANGED <<rows, now, process, boot, timers, running, run, files, crashes,
                  loosened, shared, saved>>
  BY DEF SubmitRun
<1>5. /\ req' \in [Procs -> Request \cup {None}]
      /\ req'[p] # None
      /\ req'[p].op = "run" /\ req'[p].step = "read" /\ req'[p].old \in Columns
      /\ \A q \in Procs \ {p} : req'[q] = req[q]
      /\ tangled' \subseteq Jobs /\ process = "up"
  <2>1. /\ "run" \in {"create", "change", "run"} /\ None \in Edits \cup {None}
        /\ "read" \in {"read", "written"} /\ None \in Columns \cup {None}
        /\ Settings(rows[j]) \in JobRow \cup Columns \cup {None}
    BY <1>3
  <2> QED BY <2>1, <1>1, <1>2, <1>3, EnterTypes
<1>6. TypeOK'
  BY <1>4, <1>5 DEF Types, TypeOK
<1>7. ASSUME NEW q \in Procs, req'[q] # None PROVE RequestInv(q)'
  <2>1. CASE q = p
    BY <2>1, <1>5 DEF RequestInv
  <2>2. CASE q # p
    BY <2>2, <1>7, <1>5, <1>4, RequestFrame DEF Types
  <2> QED BY <2>1, <2>2
<1> QED BY <1>4, <1>5, <1>6, <1>7 DEF Types, RunInv

LEMMA WriteChangeTypes ==
  ASSUME Types, NEW p \in Procs, req[p] # None, UNCHANGED setup, WriteChange(p)
  PROVE  Types'
<1> DEFINE j == req[p].job
           row == Edited(rows[j], req[p].edit)
<1>1. /\ j \in Jobs /\ req[p] \in Request /\ process = "up"
      /\ req[p].edit \in Edits /\ req[p].op = "change"
  BY DEF Types, TypeOK, Request, RequestInv, WriteChange
<1>2. UNCHANGED <<now, process, boot, timers, running, run, files, crashes, history>>
  BY DEF WriteChange
<1>3. CASE rows[j] = None
  <2>1. Answer(p) /\ UNCHANGED rows
    BY <1>3 DEF WriteChange
  <2> QED BY <1>1, <1>2, <2>1, OwnStepTypes DEF Answer, history, Types, TypeOK
<1>4. CASE rows[j] # None
  <2>1. rows[j] \in JobRow /\ rows[j].lastRun <= now[j]
    BY <1>1, <1>4 DEF Types, TypeOK
  <2>2. row \in JobRow /\ row.lastRun = rows[j].lastRun
    BY <1>1, <2>1, EditedType
  <2>3. Settings(row) \in Columns
    BY <2>2 DEF Settings, Columns, JobRow
  <2> DEFINE x == [req[p] EXCEPT !.step = "written", !.edit = None,
                                 !.old = IF Refuses(row) THEN @ ELSE None,
                                 !.new = Settings(row)]
  <2>4. rows' = [rows EXCEPT ![j] = row] /\ req' = [req EXCEPT ![p] = x]
    BY <1>4, <1>1 DEF WriteChange
  <2>5. x \in Request
    BY <1>1, <2>3 DEF Request
  <2>6. /\ x.op = "change" /\ x.step = "written" /\ x.new = Settings(row) /\ x.job = j
        /\ x.old = IF Refuses(row) THEN req[p].old ELSE None
    BY <1>1 DEF Request
  <2>7. req[p].old \in JobRow /\ req[p].old.lastRun <= now[j]
    BY <1>1 DEF Types, RequestInv, WriteChange
  <2>8. Refuses(Settings(row)) <=> Refuses(row)
    BY DEF Refuses, Settings
  <2>9. req'[p] = x
    BY <2>4 DEF Types, TypeOK
  <2> HIDE DEF x, row
  <2>10. RequestInv(p)'
    BY <2>3, <2>6, <2>7, <2>8, <2>9, <1>2 DEF RequestInv, Refuses
  <2>11. /\ rows' \in [Jobs -> JobRow \cup {None}]
         /\ \A k \in Jobs : rows'[k] # None => rows'[k].lastRun <= now[k]
    BY <1>1, <2>1, <2>2, <2>4 DEF Types, TypeOK
  <2> QED BY <1>1, <1>2, <2>4, <2>5, <2>10, <2>11, OwnStepTypes DEF history, Types, TypeOK
<1> QED BY <1>3, <1>4
\* A timer that is made from the columns of a row.
LEMMA SyncedType ==
  ASSUME TypeOK, NEW j \in Jobs, NEW row \in JobRow \cup Columns
  PROVE  Synced(j, row) \in [Jobs -> CronTimer \cup {None}]
<1>1. Timer(row) \in CronTimer
  BY DEF Timer, CronTimer, JobRow, Columns
<1> QED BY <1>1 DEF Synced, TypeOK

LEMMA SyncTimerTypes ==
  ASSUME Types, NEW p \in Procs, req[p] # None, UNCHANGED setup, SyncTimer(p)
  PROVE  Types'
<1> DEFINE j == req[p].job
<1>1. /\ j \in Jobs /\ req[p] \in Request /\ process = "up"
      /\ req[p].step = "written" /\ req[p].new \in Columns /\ req[p].op # "run"
  BY DEF Types, TypeOK, Request, RequestInv, SyncTimer
<1>2. UNCHANGED <<rows, now, process, boot, running, run, files, crashes, history>>
  BY DEF SyncTimer
<1>3. timers' \in [Jobs -> CronTimer \cup {None}]
  BY <1>1, SyncedType DEF SyncTimer, Types
<1>4. CASE ~Refuses(req[p].new)
  <2>1. req' = [req EXCEPT ![p] = None]
    BY <1>4 DEF SyncTimer, Answer
  <2> QED BY <1>1, <1>2, <1>3, <2>1, OwnStepTypes DEF history, Types, TypeOK
<1>5. CASE Refuses(req[p].new)
  <2> DEFINE step == IF req[p].op = "create" THEN "undo" ELSE "restore"
             x == [req[p] EXCEPT !.new = None, !.step = step]
  <2>1. req' = [req EXCEPT ![p] = x]
    BY <1>5 DEF SyncTimer
  <2>2. x \in Request
    BY <1>1 DEF Request
  <2>3. x.op = req[p].op /\ x.step = step /\ x.new = None /\ x.old = req[p].old /\ x.job = j
    BY <1>1 DEF Request
  <2>4. req[p].op = "change" => req[p].old \in JobRow
    BY <1>1, <1>5 DEF Types, RequestInv
  <2>5. req[p].op = "change" => req[p].old.lastRun <= now[j]
    BY <2>4 DEF Types, RequestInv
  <2>6. req'[p] = x
    BY <2>1 DEF Types, TypeOK
  <2>7. req[p].op \in {"create", "change"}
    BY <1>1 DEF Request
  <2> HIDE DEF x
  <2>8. RequestInv(p)'
    BY <2>3, <2>4, <2>5, <2>6, <2>7, <1>2 DEF RequestInv, Refuses
  <2> QED BY <1>1, <1>2, <1>3, <2>1, <2>2, <2>8, OwnStepTypes DEF history, Types, TypeOK
<1> QED BY <1>4, <1>5

LEMMA RestoreTypes ==
  ASSUME Types, NEW p \in Procs, req[p] # None, UNCHANGED setup, Restore(p)
  PROVE  Types'
<1> DEFINE j == req[p].job
<1>1. /\ j \in Jobs /\ req[p] \in Request /\ process = "up"
      /\ req[p].step = "restore" /\ req[p].op = "change"
      /\ req[p].old \in JobRow /\ req[p].old.lastRun <= now[j]
  BY DEF Types, TypeOK, Request, RequestInv, Restore
<1>2. UNCHANGED <<now, process, boot, timers, running, run, files, crashes, history>>
  BY DEF Restore
<1>3. CASE rows[j] = None
  <2>1. Answer(p) /\ UNCHANGED rows
    BY <1>3 DEF Restore
  <2> QED BY <1>1, <1>2, <2>1, OwnStepTypes DEF Answer, history, Types, TypeOK
<1>4. CASE rows[j] # None
  <2> DEFINE x == [req[p] EXCEPT !.step = "restored"]
  <2>1. req' = [req EXCEPT ![p] = x] /\ rows' = [rows EXCEPT ![j] = req[p].old]
    BY <1>4 DEF Restore
  <2>2. x \in Request
    BY <1>1 DEF Request
  <2>3. x.op = "change" /\ x.step = "restored" /\ x.old = req[p].old /\ x.job = j
    BY <1>1 DEF Request
  <2>4. req'[p] = x
    BY <2>1 DEF Types, TypeOK
  <2> HIDE DEF x
  <2>5. RequestInv(p)'
    BY <2>3, <2>4, <1>1, <1>2 DEF RequestInv
  <2>6. /\ rows' \in [Jobs -> JobRow \cup {None}]
        /\ \A k \in Jobs : rows'[k] # None => rows'[k].lastRun <= now[k]
    BY <1>1, <2>1 DEF Types, TypeOK
  <2> QED BY <1>1, <1>2, <2>1, <2>2, <2>5, <2>6, OwnStepTypes DEF history, Types, TypeOK
<1> QED BY <1>3, <1>4

LEMMA SyncRestoredTypes ==
  ASSUME Types, NEW p \in Procs, req[p] # None, UNCHANGED setup, SyncRestored(p)
  PROVE  Types'
<1>1. /\ req[p].job \in Jobs /\ process = "up"
      /\ req[p].old \in JobRow
  BY DEF Types, TypeOK, Request, RequestInv, SyncRestored
<1>2. timers' \in [Jobs -> CronTimer \cup {None}]
  BY <1>1, SyncedType DEF SyncRestored, RestoredTimer, Types
<1>3. tangled' \subseteq Jobs /\ Answer(p)
  BY <1>1 DEF SyncRestored, Types, TypeOK
<1>4. UNCHANGED <<rows, now, process, boot, running, run, files, crashes,
                  loosened, shared, saved>>
  BY DEF SyncRestored
<1> QED BY <1>1, <1>2, <1>3, <1>4, OwnStepTypes DEF Answer, Types, TypeOK

LEMMA UndoCreateTypes ==
  ASSUME Types, NEW p \in Procs, req[p] # None, UNCHANGED setup, UndoCreate(p)
  PROVE  Types'
<1>1. req[p].job \in Jobs /\ process = "up"
  BY DEF Types, TypeOK, Request
<1>2. /\ timers' \in [Jobs -> CronTimer \cup {None}]
      /\ rows' \in [Jobs -> JobRow \cup {None}]
      /\ \A k \in Jobs : rows'[k] # None => rows'[k].lastRun <= now[k]
      /\ Answer(p)
  BY <1>1 DEF UndoCreate, Types, TypeOK
<1>3. UNCHANGED <<now, process, boot, running, run, files, crashes, history>>
  BY DEF UndoCreate
<1> QED BY <1>1, <1>2, <1>3, OwnStepTypes DEF Answer, history, Types, TypeOK

LEMMA RunNowTypes ==
  ASSUME Types, NEW p \in Procs, req[p] # None, UNCHANGED setup, RunNow(p)
  PROVE  Types'
<1>1. /\ req[p].job \in Jobs /\ process = "up"
      /\ req[p].old \in Columns
  BY DEF Types, TypeOK, Request, RequestInv, RunNow
<1>2. req[p].old.policy \in Policies /\ FALSE \in BOOLEAN
  BY <1>1 DEF Columns
<1>3. StartRun(req[p].job, req[p].old.policy, FALSE)
  BY DEF RunNow
<1>4. /\ run' \in [Runs -> Execution \cup {None}]
      /\ \A r \in Runs : run'[r] # None => run'[r].at <= now[run'[r].job] /\ RunInv(r)'
      /\ running' \subseteq Jobs /\ loosened' \subseteq Jobs /\ shared' \in BOOLEAN
  BY <1>1, <1>2, <1>3, StartRunTypes
<1>5. UNCHANGED <<rows, now, process, boot, timers, files, crashes, tangled, saved>>
  BY DEF RunNow
<1>6. req' = [req EXCEPT ![p] = None]
  BY DEF RunNow, Answer
<1>7. TypeOK'
  BY <1>4, <1>5, <1>6 DEF Types, TypeOK
<1>8. ASSUME NEW q \in Procs, req'[q] # None PROVE RequestInv(q)'
  BY <1>5, <1>6, <1>8, RequestFrame DEF Types, TypeOK
<1> QED BY <1>1, <1>4, <1>5, <1>6, <1>7, <1>8 DEF Types
\* A file that changes its state leaves the names as they are.
LEMMA FilesUpdate ==
  ASSUME NEW S, NEW s \in Seq(S), NEW i, NEW x \in S
  PROVE  [s EXCEPT ![i] = x] \in Seq(S) /\ Len([s EXCEPT ![i] = x]) = Len(s)
<1>1. CASE i \in 1..Len(s)
  BY <1>1
<1>2. CASE i \notin 1..Len(s)
  <2>1. [s EXCEPT ![i] = x] = s
    BY <1>2
  <2> QED BY <2>1
<1> QED BY <1>1, <1>2

\* A step of an execution.
LEMMA RunStepTypes ==
  ASSUME Types, NEW r \in Runs, UNCHANGED setup, RunStep(r)
  PROVE  Types'
<1> USE DEF Types, TypeOK
<1>1. /\ run[r] \in Execution /\ run[r] # None /\ run[r].job \in Jobs
      /\ run[r].at \in Nat /\ run[r].at <= now[run[r].job]
      /\ \A j \in Jobs : now[j] \in Nat
      /\ run[r].step \in {"dump", "sum", "remove"} => run[r].job = BackupJob
      /\ Len(files) + 1 \in Nat
  BY DEF RunStep, Execution, RunInv
<1>2. /\ UNCHANGED <<setup, now, process, boot, timers, req, crashes, tangled, loosened, shared>>
      /\ saved' \in BOOLEAN
  BY DEF RunStep, Work, BeginDump, EndDump, SumAndList, RemoveOld, Stamp, Fail, history
<1>3. ASSUME NEW x \in Execution \cup {None}, run' = [run EXCEPT ![r] = x],
             x # None => /\ x.at <= now[x.job]
                         /\ x.step \in {"dump", "sum", "remove"} => x.job = BackupJob,
             running' \subseteq running,
             files' \in Seq({"partial", "whole", "gone"}),
             rows' \in [Jobs -> JobRow \cup {None}],
             \A j \in Jobs : rows'[j] # None => rows'[j].lastRun <= now[j]
      PROVE  Types'
  <2>1. TypeOK'
    BY <1>2, <1>3
  <2>2. ASSUME NEW q \in Procs, req'[q] # None PROVE RequestInv(q)'
    BY <1>2, <2>2, RequestFrame
  <2> QED BY <1>2, <1>3, <2>1, <2>2 DEF BootTypes, RunInv
<1> HIDE DEF Types
<1>4. /\ files \in Seq({"partial", "whole", "gone"})
      /\ rows \in [Jobs -> JobRow \cup {None}]
      /\ \A j \in Jobs : rows[j] # None => rows[j].lastRun <= now[j]
  BY DEF Types
<1> DEFINE Then(step) == [run[r] EXCEPT !.step = step]
<1>5. ASSUME NEW step \in {"dump", "sum", "remove", "stamp", "fail"}
      PROVE  /\ Then(step) \in Execution /\ Then(step).at = run[r].at
             /\ Then(step).job = run[r].job /\ Then(step).step = step
  BY <1>1 DEF Execution
<1>6. ASSUME Goto(r, "fail"), running' \subseteq running, UNCHANGED <<files, rows>> PROVE Types'
  <2>1. run' = [run EXCEPT ![r] = Then("fail")]
    BY <1>6 DEF Goto
  <2> HIDE DEF Then
  <2> QED BY <1>1, <1>3, <1>4, <1>5, <1>6, <2>1
<1>7. CASE Work(r)
  <2> DEFINE x == [run[r] EXCEPT !.step = "stamp", !.at = EndTime(run[r].job)]
  <2>1. UNCHANGED <<rows, files, running>>
    BY <1>7 DEF Work
  <2>4. x \in Execution /\ x.at = now[run[r].job] /\ x.job = run[r].job /\ x.step = "stamp"
    BY <1>1 DEF Execution, EndTime
  <2>2. x.at <= now[x.job]
    BY <1>1, <2>4
  <2>3. ASSUME run' = [run EXCEPT ![r] = x] PROVE Types'
    <3> HIDE DEF x
    <3> QED BY <1>1, <1>3, <1>4, <2>1, <2>2, <2>3, <2>4
  <2> QED BY <1>6, <1>7, <2>1, <2>3 DEF Work
<1>8. CASE BeginDump(r)
  <2> DEFINE x == [run[r] EXCEPT !.step = "dump", !.file = Len(files) + 1]
  <2>1. UNCHANGED <<rows, running>>
    BY <1>8 DEF BeginDump
  <2>2. x \in Execution /\ x.at = run[r].at /\ x.job = run[r].job /\ x.step = "dump"
    BY <1>1 DEF Execution
  <2>3. run[r].job = BackupJob
    BY <1>8 DEF BeginDump
  <2>5. Append(files, "partial") \in Seq({"partial", "whole", "gone"})
    BY <1>4
  <2>4. ASSUME run' = [run EXCEPT ![r] = x], files' = Append(files, "partial") PROVE Types'
    <3> HIDE DEF x
    <3> QED BY <1>1, <1>3, <1>4, <2>1, <2>2, <2>3, <2>4, <2>5
  <2> QED BY <1>6, <1>8, <2>1, <2>4 DEF BeginDump
<1>9. CASE EndDump(r)
  <2>1. UNCHANGED <<rows, running>>
    BY <1>9 DEF EndDump
  <2>5. run[r].job = BackupJob
    BY <1>1, <1>9 DEF EndDump
  <2>2. PICK state \in {"whole", "gone"}, step \in {"sum", "fail"} :
           files' = [files EXCEPT ![run[r].file] = state] /\ Goto(r, step)
    BY <1>9 DEF EndDump
  <2>3. files' \in Seq({"partial", "whole", "gone"})
    BY <1>4, <2>2, FilesUpdate
  <2>4. run' = [run EXCEPT ![r] = Then(step)]
    BY <2>2 DEF Goto
  <2> HIDE DEF Then
  <2> QED BY <1>1, <1>3, <1>4, <1>5, <2>1, <2>3, <2>4, <2>5
<1>10. CASE SumAndList(r)
  <2> DEFINE x == [run[r] EXCEPT !.step = "remove", !.victims = Present \ NewestKept]
  <2>1. UNCHANGED <<rows, running, files>>
    BY <1>10 DEF SumAndList
  <2>2. Present \subseteq Nat
    BY <1>4 DEF Present
  <2>3. x \in Execution /\ x.at = run[r].at /\ x.job = run[r].job /\ x.job = BackupJob
    BY <1>1, <1>10, <2>2 DEF Execution, SumAndList
  <2>4. ASSUME run' = [run EXCEPT ![r] = x] PROVE Types'
    <3> HIDE DEF x
    <3> QED BY <1>1, <1>3, <1>4, <2>1, <2>3, <2>4
  <2> QED BY <1>6, <1>10, <2>1, <2>4 DEF SumAndList
<1>11. CASE RemoveOld(r)
  <2>1. UNCHANGED <<rows, running>>
    BY <1>11 DEF RemoveOld
  <2>4. run[r].job = BackupJob
    BY <1>1, <1>11 DEF RemoveOld
  <2>2. ASSUME NEW f \in run[r].victims, files' = [files EXCEPT ![f] = "gone"],
               run' = [run EXCEPT ![r].victims = @ \ {f}]
        PROVE  Types'
    <3> DEFINE x == [run[r] EXCEPT !.victims = @ \ {f}]
    <3>1. x \in Execution /\ x.at = run[r].at /\ x.job = run[r].job
      BY <1>1, <2>4 DEF Execution
    <3>2. files' \in Seq({"partial", "whole", "gone"})
      BY <1>4, <2>2, FilesUpdate
    <3>3. run' = [run EXCEPT ![r] = x]
      BY <2>2
    <3> HIDE DEF x
    <3> QED BY <1>1, <1>3, <1>4, <2>1, <2>4, <3>1, <3>2, <3>3
  <2>3. ASSUME UNCHANGED files,
               run' = [run EXCEPT ![r].step = "stamp", ![r].at = EndTime(BackupJob)]
        PROVE  Types'
    <3> DEFINE x == [run[r] EXCEPT !.step = "stamp", !.at = EndTime(BackupJob)]
    <3>1. x \in Execution /\ x.at = now[BackupJob] /\ x.job = BackupJob /\ x.step = "stamp"
      BY <1>1, <2>4 DEF Execution, EndTime
    <3>4. x.at <= now[x.job]
      BY <1>1, <3>1
    <3>2. run' = [run EXCEPT ![r] = x]
      BY <2>3
    <3> HIDE DEF x
    <3> QED BY <1>1, <1>3, <1>4, <2>1, <2>3, <3>1, <3>2, <3>4
  <2> QED BY <1>11, <2>2, <2>3 DEF RemoveOld
<1>12. CASE Stamp(r)
  <2>1. UNCHANGED files
    BY <1>12 DEF Stamp
  <2>2. CASE rows[run[r].job] # None
    <3>1. rows' = [rows EXCEPT ![run[r].job].lastRun = run[r].at] /\ run' = [run EXCEPT ![r] = None]
          /\ running' \subseteq running
      BY <1>12, <2>2 DEF Stamp, Finished
    <3>2. /\ rows' \in [Jobs -> JobRow \cup {None}]
          /\ \A j \in Jobs : rows'[j] # None => rows'[j].lastRun <= now[j]
      BY <1>1, <1>4, <2>2, <3>1 DEF JobRow
    <3> QED BY <1>3, <1>4, <2>1, <3>1, <3>2
  <2>3. CASE rows[run[r].job] = None
    BY <1>6, <1>12, <2>1, <2>3 DEF Stamp
  <2> QED BY <2>2, <2>3
<1>13. CASE Fail(r)
  BY <1>3, <1>4, <1>13 DEF Fail, FailedFinished, Finished
<1> QED BY <1>7, <1>8, <1>9, <1>10, <1>11, <1>12, <1>13 DEF RunStep
\* A scheduled time comes.
LEMMA FireTypes ==
  ASSUME Types, NEW j \in Jobs, UNCHANGED setup, Fire(j)
  PROVE  Types'
<1>1. timers[j].policy \in Policies /\ FALSE \in BOOLEAN
  BY DEF Fire, Types, TypeOK, CronTimer
<1>2. StartRun(j, timers[j].policy, FALSE)
  BY DEF Fire
<1>3. /\ run' \in [Runs -> Execution \cup {None}]
      /\ \A r \in Runs : run'[r] # None => run'[r].at <= now[run'[r].job] /\ RunInv(r)'
      /\ running' \subseteq Jobs /\ loosened' \subseteq Jobs /\ shared' \in BOOLEAN
  BY <1>1, <1>2, StartRunTypes
<1>4. UNCHANGED <<rows, process, boot, timers, req, files, crashes, tangled, saved>>
  BY DEF Fire
<1>5. now' = [now EXCEPT ![j] = @ + 1]
  BY DEF Fire
<1>6. /\ now' \in [Jobs -> Nat]
      /\ \A k \in Jobs : now'[k] = now[k] \/ now'[k] = now[k] + 1
      /\ \A k \in Jobs, n \in Nat : n <= now[k] => n <= now'[k]
  BY <1>5 DEF Types, TypeOK
<1>7. ASSUME NEW r \in Runs, run'[r] # None PROVE run'[r].at <= now'[run'[r].job]
  <2>1. run'[r].job \in Jobs /\ run'[r].at \in Nat
    BY <1>3, <1>7 DEF Execution
  <2> QED BY <1>3, <1>6, <1>7, <2>1
<1>8. ASSUME NEW k \in Jobs, rows[k] # None PROVE rows[k].lastRun <= now'[k]
  <2>1. rows[k].lastRun \in Nat /\ rows[k].lastRun <= now[k]
    BY <1>8 DEF Types, TypeOK, JobRow
  <2> QED BY <1>6, <2>1
<1>9. TypeOK'
  BY <1>3, <1>4, <1>6, <1>7, <1>8 DEF Types, TypeOK
<1>10. ASSUME NEW q \in Procs, req'[q] # None PROVE RequestInv(q)'
  BY <1>4, <1>6, <1>10, RequestFrame DEF Types
<1> QED BY <1>3, <1>4, <1>9, <1>10 DEF Types, BootTypes

LEMMA MissTypes ==
  ASSUME Types, NEW j \in Jobs, UNCHANGED setup, Miss(j)
  PROVE  Types'
<1>1. UNCHANGED <<rows, process, boot, timers, running, run, req, files, crashes,
                  tangled, loosened, shared, saved>>
  BY DEF Miss, server, history
<1>2. now' = [now EXCEPT ![j] = @ + 1]
  BY DEF Miss
<1>3. /\ now' \in [Jobs -> Nat]
      /\ \A k \in Jobs : now'[k] = now[k] \/ now'[k] = now[k] + 1
      /\ \A k \in Jobs, n \in Nat : n <= now[k] => n <= now'[k]
  BY <1>2 DEF Types, TypeOK
<1>4. ASSUME NEW r \in Runs, run[r] # None PROVE run[r].at <= now'[run[r].job]
  <2>1. run[r].job \in Jobs /\ run[r].at \in Nat /\ run[r].at <= now[run[r].job]
    BY <1>4 DEF Types, TypeOK, Execution
  <2> QED BY <1>3, <2>1
<1>5. ASSUME NEW k \in Jobs, rows[k] # None PROVE rows[k].lastRun <= now'[k]
  <2>1. rows[k].lastRun \in Nat /\ rows[k].lastRun <= now[k]
    BY <1>5 DEF Types, TypeOK, JobRow
  <2> QED BY <1>3, <2>1
<1>6. TypeOK'
  BY <1>1, <1>3, <1>4, <1>5 DEF Types, TypeOK
<1>7. ASSUME NEW q \in Procs, req'[q] # None PROVE RequestInv(q)'
  BY <1>1, <1>3, <1>7, RequestFrame DEF Types
<1> QED BY <1>1, <1>6, <1>7 DEF Types, RunInv, BootTypes

-----------------------------------------------------------------------------
(* Crash and restart.                                                      *)

LEMMA DieTypes ==
  ASSUME Types, UNCHANGED setup, Die, crashes' \in Nat
  PROVE  Types'
<1>1. TypeOK'
  BY DEF Die, Types, TypeOK
<1> QED BY <1>1 DEF Die, Types, TypeOK

LEMMA RestartTypes ==
  ASSUME Types, UNCHANGED setup, Restart
  PROVE  Types'
<1>1. PICK status \in Statuses :
         rows' = IF rows[BackupJob] # None THEN rows
                 ELSE [rows EXCEPT ![BackupJob] =
                          [Row(BackupJob, "FORBID", "SKIP") EXCEPT !.status = status]]
  BY DEF Restart, Statuses
<1> DEFINE row == [Row(BackupJob, "FORBID", "SKIP") EXCEPT !.status = status]
<1>2. row \in JobRow /\ row.lastRun = now[BackupJob] /\ now[BackupJob] \in Nat
  BY DEF Row, JobRow, Statuses, Policies, Misfires, Crons, Types, TypeOK
<1>3. /\ rows' \in [Jobs -> JobRow \cup {None}]
      /\ \A k \in Jobs : rows'[k] # None => rows'[k].lastRun <= now[k]
  <2>1. rows' = rows \/ rows' = [rows EXCEPT ![BackupJob] = row]
    BY <1>1
  <2>2. /\ rows \in [Jobs -> JobRow \cup {None}]
        /\ \A k \in Jobs : rows[k] # None => rows[k].lastRun <= now[k]
    BY DEF Types, TypeOK
  <2>3. BackupJob \in Jobs /\ row.lastRun <= now[BackupJob]
    BY <1>2
  <2> HIDE DEF row
  <2>4. ASSUME NEW k \in Jobs PROVE rows'[k] = rows[k] \/ (k = BackupJob /\ rows'[k] = row)
    BY <2>1, <2>2
  <2>5. rows' \in [Jobs -> JobRow \cup {None}]
    BY <1>2, <2>1, <2>2
  <2> QED BY <2>2, <2>3, <2>4, <2>5
<1>4. /\ process = "down" /\ process' = "boot"
      /\ boot' = [Quiet EXCEPT !.list = [j \in ActiveJobs(rows') |-> rows'[j]]]
      /\ UNCHANGED <<now, timers, running, run, req, files, crashes, history>>
  BY DEF Restart
<1>5. TypeOK'
  BY <1>3, <1>4 DEF Types, TypeOK, history
<1>6. BootTypes'
  BY <1>3, <1>4 DEF BootTypes, Quiet, ActiveJobs
<1> QED BY <1>4, <1>5, <1>6 DEF Types, RunInv, history

LEMMA BootTakeTypes ==
  ASSUME Types, NEW j \in Jobs, UNCHANGED setup, BootTake(j)
  PROVE  Types'
<1>1. /\ process = "boot" /\ j \in DOMAIN boot.list
      /\ boot' = [boot EXCEPT !.job = j, !.caught = ShouldCatchUp(j, boot.list[j])]
      /\ UNCHANGED <<rows, now, process, timers, req, files, crashes, tangled, saved>>
  BY DEF BootTake
<1>2. boot.list[j].policy \in Policies /\ TRUE \in BOOLEAN
  BY <1>1 DEF Types, BootTypes, JobRow
<1>3. /\ run' \in [Runs -> Execution \cup {None}]
      /\ \A r \in Runs : run'[r] # None => run'[r].at <= now[run'[r].job] /\ RunInv(r)'
      /\ running' \subseteq Jobs /\ loosened' \subseteq Jobs /\ shared' \in BOOLEAN
  <2>1. CASE StartRun(j, boot.list[j].policy, TRUE)
    BY <1>2, <2>1, StartRunTypes
  <2>2. CASE UNCHANGED <<run, running, loosened, shared>>
    BY <2>2 DEF Types, TypeOK, RunInv
  <2> QED BY <2>1, <2>2 DEF BootTake
<1>4. TypeOK'
  BY <1>1, <1>3 DEF Types, TypeOK
<1>5. boot'.list = boot.list /\ boot'.job = j
      /\ boot' = [list |-> boot'.list, job |-> boot'.job, caught |-> boot'.caught]
  BY <1>1 DEF Types, BootTypes
<1>6. BootTypes'
  BY <1>1, <1>5 DEF Types, BootTypes
<1> QED BY <1>1, <1>3, <1>4, <1>6 DEF Types
LEMMA BootTimerTypes ==
  ASSUME Types, UNCHANGED setup, BootTimer
  PROVE  Types'
<1> DEFINE j == boot.job
<1>1. process = "boot" /\ j \in DOMAIN boot.list /\ j \in Jobs /\ boot.list[j] \in JobRow
  BY DEF BootTimer, Types, BootTypes
<1>2. CASE Die
  BY <1>2, DieTypes DEF BootTimer, Types, TypeOK
<1>3. CASE ~Die
  <2>1. /\ timers' = Synced(j, boot.list[j])
        /\ boot' = [boot EXCEPT !.job = None,
                       !.list = [k \in DOMAIN boot.list \ {j} |-> boot.list[k]]]
        /\ UNCHANGED <<rows, now, process, running, run, req, files, crashes, history>>
    BY <1>3 DEF BootTimer
  <2>2. timers' \in [Jobs -> CronTimer \cup {None}]
    BY <1>1, <2>1, SyncedType DEF Types
  <2>3. TypeOK'
    BY <2>1, <2>2 DEF Types, TypeOK, history
  <2>4. BootTypes'
    BY <1>1, <2>1 DEF Types, BootTypes
  <2> QED BY <1>1, <2>1, <2>3, <2>4 DEF Types, RunInv, history
<1> QED BY <1>2, <1>3

LEMMA BootDoneTypes ==
  ASSUME Types, UNCHANGED setup, BootDone
  PROVE  Types'
<1>1. TypeOK'
  BY DEF BootDone, Types, TypeOK, history
<1> QED BY <1>1 DEF BootDone, Types, RunInv, BootTypes, history

LEMMA StutterTypes ==
  ASSUME Types, UNCHANGED vars
  PROVE  Types'
<1>1. TypeOK'
  BY DEF vars, server, history, Types, TypeOK
<1>2. ASSUME NEW p \in Procs, req'[p] # None PROVE RequestInv(p)'
  BY <1>2 DEF vars, server, Types, RequestInv, Refuses
<1> QED BY <1>1, <1>2 DEF vars, server, history, Types, RunInv, BootTypes

LEMMA NextTypes == Types /\ [Next]_vars => Types'
<1> SUFFICES ASSUME Types, [Next]_vars PROVE Types'
  OBVIOUS
<1>1. CASE UNCHANGED vars
  BY <1>1, StutterTypes
<1>2. CASE Next
  <2> UNCHANGED setup
    BY <1>2 DEF Next
  <2>1. ASSUME NEW p \in Procs, SubmitCreate(p) \/ SubmitChange(p) \/ SubmitRun(p) PROVE Types'
    BY <2>1, SubmitCreateTypes, SubmitChangeTypes, SubmitRunTypes
  <2>2. ASSUME NEW p \in Procs, RequestStep(p) PROVE Types'
    BY <2>2, WriteChangeTypes, SyncTimerTypes, RestoreTypes, SyncRestoredTypes,
       UndoCreateTypes, RunNowTypes DEF RequestStep
  <2>3. ASSUME NEW r \in Runs, RunStep(r) PROVE Types'
    BY <2>3, RunStepTypes
  <2>4. ASSUME NEW j \in setup.jobs, Fire(j) \/ Miss(j) PROVE Types'
    <3>1. j \in Jobs
      BY DEF Types, TypeOK
    <3> QED BY <2>4, <3>1, FireTypes, MissTypes
  <2>5. CASE Crash
    <3>1. crashes' \in Nat
      BY <2>5 DEF Crash, Types, TypeOK
    <3> QED BY <2>5, <3>1, DieTypes DEF Crash
  <2>6. CASE Restart
    BY <2>6, RestartTypes
  <2>7. CASE BootStep
    BY <2>7, BootTakeTypes, BootTimerTypes, BootDoneTypes DEF BootStep
  <2> QED BY <1>2, <2>1, <2>2, <2>3, <2>4, <2>5, <2>6, <2>7 DEF Next
<1> QED BY <1>1, <1>2

\* Type correctness: a stored time is never one that has yet to come.
THEOREM TypeCorrect == Spec => []TypeOK
<1>1. Types => TypeOK
  BY DEF Types
<1> QED BY <1>1, InitTypes, NextTypes, PTL DEF Spec

LEMMA AlwaysTypes == Spec => []Types
BY InitTypes, NextTypes, PTL DEF Spec
-----------------------------------------------------------------------------
(* Runs under FORBID.                                                      *)

\* A job that no ALLOW run has loosened has one run at most, and is marked as
\* running while it has one.
OneRun(j) ==
    j \notin loosened =>
        /\ \A r, s \in RunsOf(j) : r = s
        /\ RunsOf(j) # {} => j \in running

LEMMA SameRuns ==
  ASSUME \A j \in Jobs : OneRun(j), UNCHANGED <<running, loosened>>,
         \A j \in Jobs : RunsOf(j)' = RunsOf(j)
  PROVE  \A j \in Jobs : OneRun(j)'
BY DEF OneRun

LEMMA UnchangedRuns ==
  ASSUME \A j \in Jobs : OneRun(j), UNCHANGED <<run, running, loosened>>
  PROVE  \A j \in Jobs : OneRun(j)'
BY SameRuns DEF RunsOf

LEMMA StartRunOne ==
  ASSUME Types, \A k \in Jobs : OneRun(k), NEW j \in Jobs, NEW policy \in Policies,
         NEW atBoot \in BOOLEAN, StartRun(j, policy, atBoot)
  PROVE  \A k \in Jobs : OneRun(k)'
<1>1. CASE UNCHANGED <<run, running, loosened, shared>>
  BY <1>1, UnchangedRuns
<1>2. CASE ~Skips(j, policy)
  <2> DEFINE r0 == CHOOSE r \in Runs : run[r] = None
             e == [job |-> j, policy |-> policy, atBoot |-> atBoot,
                   step |-> "work", at |-> 0, file |-> 0, victims |-> {}]
  <2>1. r0 \in Runs /\ run[r0] = None
    BY <1>2, FreeRun DEF StartRun, Types
  <2>2. e \in Execution /\ e.job = j /\ e # None
    BY DEF Execution
  <2>3. run' = [run EXCEPT ![r0] = e] /\ running' = running \cup {j}
    BY <1>2 DEF StartRun
  <2>4. loosened' = IF RunsOf(j) = {} THEN loosened \ {j}
                    ELSE IF policy = "ALLOW" THEN loosened \cup {j} ELSE loosened
    BY <1>2 DEF StartRun
  <2> HIDE DEF r0, e
  <2>5. RunsOf(j)' = RunsOf(j) \cup {r0}
    BY <2>1, <2>2, <2>3 DEF RunsOf, Types, TypeOK
  <2>6. \A k \in Jobs \ {j} : RunsOf(k)' = RunsOf(k)
    BY <2>1, <2>2, <2>3 DEF RunsOf, Types, TypeOK
  <2>7. OneRun(j)'
    <3>1. CASE RunsOf(j) = {}
      BY <2>3, <2>5, <3>1 DEF OneRun
    <3>2. CASE RunsOf(j) # {} /\ policy = "ALLOW"
      BY <2>4, <3>2 DEF OneRun
    <3>3. CASE RunsOf(j) # {} /\ policy = "FORBID"
      \* The job is not marked as running, so that it is loosened already.
      BY <1>2, <2>4, <3>3 DEF OneRun, Skips
    <3> QED BY <3>1, <3>2, <3>3 DEF Policies
  <2>8. ASSUME NEW k \in Jobs \ {j} PROVE OneRun(k)'
    <3>1. k \in running' <=> k \in running
      BY <2>3
    <3>2. k \in loosened' <=> k \in loosened
      BY <2>4
    <3> QED BY <2>6, <3>1, <3>2 DEF OneRun
  <2> QED BY <2>7, <2>8
<1> QED BY <1>1, <1>2 DEF StartRun

LEMMA EndRunOne ==
  ASSUME Types, \A k \in Jobs : OneRun(k), NEW r \in Runs, run[r] # None,
         run' = [run EXCEPT ![r] = None], running' = running \ {run[r].job},
         UNCHANGED loosened
  PROVE  \A k \in Jobs : OneRun(k)'
<1>1. PICK j \in Jobs : j = run[r].job /\ r \in RunsOf(j)
  BY DEF Types, TypeOK, Execution, RunsOf
<1>2. \A k \in Jobs : RunsOf(k)' = RunsOf(k) \ {r}
  BY DEF RunsOf, Types, TypeOK
<1>3. OneRun(j)'
  BY <1>1, <1>2 DEF OneRun
<1>4. ASSUME NEW k \in Jobs \ {j} PROVE OneRun(k)'
  <2>1. k \in running' <=> k \in running
    BY <1>1
  <2> QED BY <1>2, <2>1 DEF OneRun
<1> QED BY <1>3, <1>4

LEMMA RunStepOne ==
  ASSUME Types, \A j \in Jobs : OneRun(j), NEW r \in Runs, RunStep(r)
  PROVE  \A j \in Jobs : OneRun(j)'
<1>1. run[r] \in Execution /\ run[r] # None
  BY DEF RunStep, Types, TypeOK
<1>2. CASE (Stamp(r) /\ rows[run[r].job] # None) \/ Fail(r)
  <2>1. /\ run' = [run EXCEPT ![r] = None] /\ running' = running \ {run[r].job}
        /\ UNCHANGED loosened
    BY <1>2 DEF Stamp, Fail, FailedFinished, Finished, history
  <2> QED BY <1>1, <2>1, EndRunOne
<1>3. CASE ~(Stamp(r) /\ rows[run[r].job] # None) /\ ~Fail(r)
  <2>1. UNCHANGED <<running, loosened>>
    BY <1>3 DEF RunStep, Work, BeginDump, EndDump, SumAndList, RemoveOld, Stamp, history
  <2>2. \E x \in Execution : run' = [run EXCEPT ![r] = x] /\ x.job = run[r].job
    BY <1>1, <1>3 DEF RunStep, Work, BeginDump, EndDump, SumAndList, RemoveOld, Stamp, Goto,
       Execution
  <2>3. \A j \in Jobs : RunsOf(j)' = RunsOf(j)
    BY <1>1, <2>2 DEF RunsOf, Types, TypeOK
  <2> QED BY <2>1, <2>3, SameRuns
<1> QED BY <1>2, <1>3
LEMMA NextOne ==
  Types /\ (\A j \in Jobs : OneRun(j)) /\ [Next]_vars => (\A j \in Jobs : OneRun(j))'
<1> SUFFICES ASSUME Types, \A j \in Jobs : OneRun(j), [Next]_vars
             PROVE  \A j \in Jobs : OneRun(j)'
  OBVIOUS
<1>1. CASE UNCHANGED vars
  BY <1>1, UnchangedRuns DEF vars, server, history
<1>2. CASE Next
  <2>1. ASSUME NEW p \in Procs, SubmitCreate(p) \/ SubmitChange(p) \/ SubmitRun(p)
        PROVE  \A j \in Jobs : OneRun(j)'
    BY <2>1, UnchangedRuns DEF SubmitCreate, SubmitChange, SubmitRun
  <2>2. ASSUME NEW p \in Procs, RequestStep(p) PROVE \A j \in Jobs : OneRun(j)'
    <3>1. CASE RunNow(p)
      <4>1. req[p].job \in Jobs /\ req[p].old.policy \in Policies /\ FALSE \in BOOLEAN
        BY <2>2, <3>1 DEF RequestStep, Types, TypeOK, Request, RequestInv, RunNow, Columns
      <4> QED BY <3>1, <4>1, StartRunOne DEF RunNow
    <3>2. CASE ~RunNow(p)
      BY <2>2, <3>2, UnchangedRuns DEF RequestStep, WriteChange, SyncTimer, Restore,
         SyncRestored, UndoCreate, history
    <3> QED BY <3>1, <3>2
  <2>3. ASSUME NEW r \in Runs, RunStep(r) PROVE \A j \in Jobs : OneRun(j)'
    BY <2>3, RunStepOne
  <2>4. ASSUME NEW j \in setup.jobs, Fire(j) PROVE \A k \in Jobs : OneRun(k)'
    <3>1. j \in Jobs /\ timers[j].policy \in Policies /\ FALSE \in BOOLEAN
      BY <2>4 DEF Fire, Types, TypeOK, CronTimer
    <3> QED BY <2>4, <3>1, StartRunOne DEF Fire
  <2>5. ASSUME NEW j \in setup.jobs, Miss(j) PROVE \A k \in Jobs : OneRun(k)'
    BY <2>5, UnchangedRuns DEF Miss, server, history
  <2>6. CASE Die
    BY <2>6 DEF Die, OneRun, RunsOf
  <2>7. CASE Restart
    BY <2>7, UnchangedRuns DEF Restart, history
  <2>8. ASSUME NEW j \in Jobs, BootTake(j) PROVE \A k \in Jobs : OneRun(k)'
    <3>1. boot.list[j].policy \in Policies /\ TRUE \in BOOLEAN
      BY <2>8 DEF BootTake, Types, BootTypes, JobRow
    <3>2. CASE StartRun(j, boot.list[j].policy, TRUE)
      BY <3>1, <3>2, StartRunOne
    <3>3. CASE UNCHANGED <<run, running, loosened, shared>>
      BY <3>3, UnchangedRuns
    <3> QED BY <2>8, <3>2, <3>3 DEF BootTake
  <2>9. CASE BootTimer /\ ~Die
    BY <2>9, UnchangedRuns DEF BootTimer, history
  <2>10. CASE BootDone
    BY <2>10, UnchangedRuns DEF BootDone, history
  <2> QED BY <1>2, <2>1, <2>2, <2>3, <2>4, <2>5, <2>6, <2>7, <2>8, <2>9, <2>10
          DEF Next, Crash, BootStep
<1> QED BY <1>1, <1>2

\* Two runs that were both started under FORBID never overlap, unless an ALLOW
\* run joined another one of the job since it was last at rest.
THEOREM ForbidIsExclusive == Spec => []ForbidExcludes
<1> DEFINE I == \A j \in Jobs : OneRun(j)
<1>1. Init => I
  BY DEF Init, OneRun, RunsOf
<1>2. Types /\ I /\ [Next]_vars => I'
  BY NextOne
<1>3. Types /\ I => ForbidExcludes
  <2> SUFFICES ASSUME Types, I, NEW r \in Runs, NEW s \in Runs, r # s,
                      run[r] # None, run[s] # None, run[r].job = run[s].job
               PROVE  run[r].job \in loosened
    BY DEF ForbidExcludes
  <2>1. run[r].job \in Jobs
    BY DEF Types, TypeOK, Execution
  <2> QED BY <2>1 DEF OneRun, RunsOf
<1> HIDE DEF I
<1> QED BY <1>1, <1>2, <1>3, AlwaysTypes, PTL DEF Spec

-----------------------------------------------------------------------------
(* Backups.                                                                *)

Backing(r) == run[r] # None /\ run[r].job = BackupJob

\* As long as no two backups go side by side: the run that makes one works on
\* the last file, which stays whole once it is, and one that was made stays.
BackupInv ==
    ~shared =>
        /\ \A r, s \in Runs : Backing(r) /\ Backing(s) => r = s
        /\ \A r \in Runs : Backing(r) =>
              /\ run[r].step \in {"dump", "sum", "remove"} =>
                    run[r].file = Len(files) /\ Len(files) > 0
              /\ run[r].step = "dump" => files[run[r].file] = "partial"
              /\ run[r].step \in {"sum", "remove"} => files[run[r].file] = "whole"
              /\ run[r].step = "remove" => run[r].file \notin run[r].victims
        /\ saved => \E f \in Present : files[f] = "whole"

LEMMA UnchangedBackups ==
  ASSUME BackupInv, UNCHANGED <<run, files, shared, saved>>
  PROVE  BackupInv'
BY DEF BackupInv, Backing, Present

LEMMA StartRunBackups ==
  ASSUME Types, BackupInv, NEW j \in Jobs, NEW policy \in Policies,
         NEW atBoot \in BOOLEAN, StartRun(j, policy, atBoot), UNCHANGED <<files, saved>>
  PROVE  BackupInv'
<1>1. CASE UNCHANGED <<run, running, loosened, shared>>
  BY <1>1, UnchangedBackups
<1>2. CASE ~Skips(j, policy)
  <2> DEFINE r0 == CHOOSE r \in Runs : run[r] = None
             e == [job |-> j, policy |-> policy, atBoot |-> atBoot,
                   step |-> "work", at |-> 0, file |-> 0, victims |-> {}]
  <2>1. r0 \in Runs /\ run[r0] = None
    BY <1>2, FreeRun DEF StartRun, Types
  <2>2. e \in Execution /\ e.job = j /\ e # None /\ e.step = "work"
    BY DEF Execution
  <2>3. /\ run' = [run EXCEPT ![r0] = e]
        /\ shared' = (shared \/ (j = BackupJob /\ RunsOf(j) # {}))
    BY <1>2 DEF StartRun
  <2> HIDE DEF r0, e
  <2>4. SUFFICES ASSUME ~shared' PROVE BackupInv'
    BY DEF BackupInv
  <2>5. ~shared /\ (j = BackupJob => RunsOf(j) = {})
    BY <2>3, <2>4
  <2>6. \A r \in Runs : Backing(r)' <=> (r # r0 /\ Backing(r)) \/ (r = r0 /\ j = BackupJob)
    BY <2>1, <2>2, <2>3 DEF Backing, Types, TypeOK
  <2>7. \A r \in Runs \ {r0} : run'[r] = run[r]
    BY <2>3 DEF Types, TypeOK
  <2>8. run'[r0].step = "work"
    BY <2>1, <2>2, <2>3 DEF Types, TypeOK
  <2>9. j = BackupJob => \A r \in Runs : ~Backing(r)
    BY <2>5 DEF RunsOf, Backing
  <2> QED BY <2>5, <2>6, <2>7, <2>8, <2>9 DEF BackupInv, Present
<1> QED BY <1>1, <1>2 DEF StartRun
\* A run that is about to end, or is none any more.
LEMMA EndingBackups ==
  ASSUME Types, BackupInv, NEW r \in Runs, run[r] # None,
         NEW x, run' = [run EXCEPT ![r] = x],
         x # None => x.job = run[r].job /\ x.step \in {"stamp", "fail"},
         UNCHANGED <<files, shared, saved>>
  PROVE  BackupInv'
<1>1. /\ \A s \in Runs \ {r} : run'[s] = run[s]
      /\ run'[r] = x
  BY DEF Types, TypeOK
<1>2. \A s \in Runs : Backing(s)' => Backing(s)
  BY <1>1 DEF Backing
<1> QED BY <1>1, <1>2 DEF BackupInv, Backing, Present

\* A step of a backup: it stays the only one.
LEMMA RunStepBackups ==
  ASSUME Types, BackupInv, NEW r \in Runs, RunStep(r)
  PROVE  BackupInv'
<1>1. /\ run[r] \in Execution /\ run[r] # None
      /\ run[r].step \in {"dump", "sum", "remove"} => run[r].job = BackupJob
      /\ files \in Seq({"partial", "whole", "gone"}) /\ Len(files) \in Nat
      /\ Len(files) + 1 \in Nat
      /\ DOMAIN files = 1..Len(files)
      /\ setup.retention \in Nat \ {0}
  BY DEF RunStep, Types, TypeOK, RunInv
<1>2. UNCHANGED shared
  BY DEF RunStep, Work, BeginDump, EndDump, SumAndList, RemoveOld, Stamp, Fail, history
<1>3. ASSUME Goto(r, "fail"), UNCHANGED <<files, saved>> PROVE BackupInv'
  <2> DEFINE x == [run[r] EXCEPT !.step = "fail"]
  <2>1. x.job = run[r].job /\ x.step = "fail" /\ run' = [run EXCEPT ![r] = x]
    BY <1>1, <1>3 DEF Execution, Goto
  <2> HIDE DEF x
  <2> QED BY <1>1, <1>2, <1>3, <2>1, EndingBackups
<1>4. CASE Work(r)
  <2> DEFINE x == [run[r] EXCEPT !.step = "stamp", !.at = EndTime(run[r].job)]
  <2>1. x.job = run[r].job /\ x.step = "stamp"
    BY <1>1 DEF Execution
  <2>2. UNCHANGED <<files, saved>>
    BY <1>4 DEF Work, history
  <2>3. run' = [run EXCEPT ![r] = x] \/ Goto(r, "fail")
    BY <1>4 DEF Work
  <2> HIDE DEF x
  <2> QED BY <1>1, <1>2, <1>3, <2>1, <2>2, <2>3, EndingBackups
<1>5. CASE Stamp(r)
  <2>1. run' = [run EXCEPT ![r] = None] \/ Goto(r, "fail")
    BY <1>5 DEF Stamp
  <2>2. UNCHANGED <<files, saved>>
    BY <1>5 DEF Stamp, history
  <2> QED BY <1>1, <1>2, <1>3, <2>1, <2>2, EndingBackups
<1>6. CASE Fail(r)
  BY <1>1, <1>2, <1>6, EndingBackups DEF Fail, history
<1>7. CASE BeginDump(r) \/ EndDump(r) \/ SumAndList(r) \/ RemoveOld(r)
  <2> SUFFICES ASSUME ~shared PROVE BackupInv'
    BY <1>2 DEF BackupInv
  <2>1. Backing(r) /\ \A s \in Runs : Backing(s) => s = r
    <3>1. run[r].job = BackupJob
      BY <1>1, <1>7 DEF BeginDump, EndDump, SumAndList, RemoveOld
    <3> QED BY <1>1, <3>1 DEF Backing, BackupInv
  <2>2. saved => \E f \in Present : files[f] = "whole"
    BY DEF BackupInv
  <2>3. ASSUME NEW x \in Execution, run' = [run EXCEPT ![r] = x], x.job = BackupJob,
               x.step \in {"dump", "sum", "remove"} => x.file = Len(files') /\ Len(files') > 0,
               x.step = "dump" => files'[x.file] = "partial",
               x.step \in {"sum", "remove"} => files'[x.file] = "whole",
               x.step = "remove" => x.file \notin x.victims,
               saved' => (\E f \in Present : files[f] = "whole")'
        PROVE  BackupInv'
    <3>1. \A s \in Runs : Backing(s)' => s = r
      BY <2>1, <2>3 DEF Backing, Types, TypeOK
    <3>2. run'[r] = x
      BY <2>3 DEF Types, TypeOK
    <3> QED BY <2>3, <3>1, <3>2 DEF BackupInv
  <2>4. CASE BeginDump(r)
    <3> DEFINE x == [run[r] EXCEPT !.step = "dump", !.file = Len(files) + 1]
    <3>1. CASE Goto(r, "fail") /\ UNCHANGED files
      BY <1>3, <2>4, <3>1 DEF BeginDump, history
    <3>2. CASE files' = Append(files, "partial") /\ run' = [run EXCEPT ![r] = x]
      <4>1. /\ x \in Execution /\ x.job = BackupJob /\ x.step = "dump"
            /\ x.file = Len(files) + 1
        BY <1>1, <2>1 DEF Execution, Backing
      <4>2. /\ Len(files') = Len(files) + 1 /\ files'[Len(files) + 1] = "partial"
            /\ DOMAIN files' = 1..(Len(files) + 1)
            /\ \A f \in DOMAIN files : files'[f] = files[f]
        BY <1>1, <3>2
      <4>3. saved' => (\E f \in Present : files[f] = "whole")'
        BY <1>1, <2>2, <2>4, <4>2 DEF Present, BeginDump, history
      <4>4. x.file = Len(files') /\ Len(files') > 0 /\ files'[x.file] = "partial"
        BY <1>1, <4>1, <4>2
      <4> HIDE DEF x
      <4> QED BY <2>3, <3>2, <4>1, <4>3, <4>4
    <3> QED BY <2>4, <3>1, <3>2 DEF BeginDump
  <2>5. CASE EndDump(r)
    <3>1. /\ run[r].step = "dump" /\ run[r].file = Len(files) /\ Len(files) > 0
          /\ files[run[r].file] = "partial"
      BY <2>1, <2>5 DEF BackupInv, EndDump
    <3>2. PICK state \in {"whole", "gone"} :
             /\ files' = [files EXCEPT ![run[r].file] = state]
             /\ Goto(r, IF state = "whole" THEN "sum" ELSE "fail")
      BY <2>5 DEF EndDump
    <3> DEFINE x == [run[r] EXCEPT !.step = IF state = "whole" THEN "sum" ELSE "fail"]
    <3>3. /\ x \in Execution /\ x.job = BackupJob /\ x.file = run[r].file
          /\ x.step = IF state = "whole" THEN "sum" ELSE "fail"
      BY <1>1, <2>1 DEF Execution, Backing
    <3>4. /\ Len(files') = Len(files) /\ files'[run[r].file] = state
          /\ DOMAIN files' = DOMAIN files
          /\ \A f \in DOMAIN files \ {run[r].file} : files'[f] = files[f]
      BY <1>1, <3>1, <3>2, FilesUpdate
    <3>5. saved' => (\E f \in Present : files[f] = "whole")'
      BY <2>2, <2>5, <3>1, <3>4 DEF Present, EndDump, history
    <3>6. run' = [run EXCEPT ![r] = x]
      BY <3>2 DEF Goto
    <3> HIDE DEF x
    <3> QED BY <2>3, <3>1, <3>3, <3>4, <3>5, <3>6
  <2>6. CASE SumAndList(r)
    <3> DEFINE x == [run[r] EXCEPT !.step = "remove", !.victims = Present \ NewestKept]
    <3>1. CASE Goto(r, "fail")
      BY <1>3, <2>6, <3>1 DEF SumAndList, history
    <3>2. CASE run' = [run EXCEPT ![r] = x]
      <4>1. /\ run[r].file = Len(files) /\ Len(files) > 0 /\ files[run[r].file] = "whole"
        BY <2>1, <2>6 DEF BackupInv, SumAndList
      \* The newest file is among those that are kept.
      <4>2. run[r].file \in NewestKept
        <5> DEFINE newer == {g \in Present : g > run[r].file}
        <5>1. newer = {} /\ run[r].file \in Present
          BY <1>1, <4>1 DEF Present
        <5>2. Cardinality(newer) < setup.retention
          <6> HIDE DEF newer
          <6> QED BY <1>1, <5>1, FS_EmptySet
        <5> QED BY <5>1, <5>2 DEF NewestKept
      <4>3. /\ x \in Execution /\ x.job = BackupJob /\ x.file = run[r].file
            /\ x.step = "remove" /\ x.victims = Present \ NewestKept
        <5>1. Present \subseteq Nat
          BY <1>1 DEF Present
        <5> QED BY <1>1, <2>1, <5>1 DEF Execution, Backing
      <4>4. UNCHANGED <<files, saved>>
        BY <2>6 DEF SumAndList, history
      <4> HIDE DEF x
      <4> QED BY <2>2, <2>3, <3>2, <4>1, <4>2, <4>3, <4>4 DEF Present
    <3> QED BY <2>6, <3>1, <3>2 DEF SumAndList
  <2>7. CASE RemoveOld(r)
    <3>1. /\ run[r].step = "remove" /\ run[r].file = Len(files) /\ Len(files) > 0
          /\ files[run[r].file] = "whole" /\ run[r].file \notin run[r].victims
      BY <2>1, <2>7 DEF BackupInv, RemoveOld
    <3>2. ASSUME NEW f \in run[r].victims, files' = [files EXCEPT ![f] = "gone"],
                 run' = [run EXCEPT ![r].victims = @ \ {f}]
          PROVE  BackupInv'
      <4> DEFINE x == [run[r] EXCEPT !.victims = @ \ {f}]
      <4>1. /\ x \in Execution /\ x.job = BackupJob /\ x.file = run[r].file
            /\ x.step = "remove" /\ x.victims \subseteq run[r].victims
        BY <1>1, <2>1, <3>1 DEF Execution, Backing
      <4>2. /\ Len(files') = Len(files) /\ DOMAIN files' = DOMAIN files
            /\ files'[run[r].file] = "whole"
        BY <1>1, <3>1, <3>2, FilesUpdate
      <4>3. (\E g \in Present : files[g] = "whole")'
        BY <1>1, <3>1, <4>2 DEF Present
      <4>4. run' = [run EXCEPT ![r] = x]
        BY <3>2
      <4> HIDE DEF x
      <4> QED BY <2>3, <3>1, <4>1, <4>2, <4>3, <4>4
    <3>3. ASSUME UNCHANGED files,
                 run' = [run EXCEPT ![r].step = "stamp", ![r].at = EndTime(BackupJob)]
          PROVE  BackupInv'
      <4> DEFINE x == [run[r] EXCEPT !.step = "stamp", !.at = EndTime(BackupJob)]
      <4>1. x \in Execution /\ x.job = BackupJob /\ x.step = "stamp"
        BY <1>1, <2>1 DEF Execution, Backing, EndTime, Types, TypeOK
      <4>2. (\E g \in Present : files[g] = "whole")'
        BY <1>1, <3>1, <3>3 DEF Present
      <4>3. run' = [run EXCEPT ![r] = x]
        BY <3>3
      <4> HIDE DEF x
      <4> QED BY <2>3, <4>1, <4>2, <4>3
    <3> QED BY <2>7, <3>2, <3>3 DEF RemoveOld
  <2> QED BY <1>7, <2>4, <2>5, <2>6, <2>7
<1> QED BY <1>4, <1>5, <1>6, <1>7 DEF RunStep
LEMMA NextBackups == Types /\ BackupInv /\ [Next]_vars => BackupInv'
<1> SUFFICES ASSUME Types, BackupInv, [Next]_vars PROVE BackupInv'
  OBVIOUS
<1>1. CASE UNCHANGED vars
  BY <1>1, UnchangedBackups DEF vars, server, history
<1>2. CASE Next
  <2>1. ASSUME NEW p \in Procs, SubmitCreate(p) \/ SubmitChange(p) \/ SubmitRun(p)
        PROVE  BackupInv'
    BY <2>1, UnchangedBackups DEF SubmitCreate, SubmitChange, SubmitRun
  <2>2. ASSUME NEW p \in Procs, RequestStep(p) PROVE BackupInv'
    <3>1. CASE RunNow(p)
      <4>1. req[p].job \in Jobs /\ req[p].old.policy \in Policies /\ FALSE \in BOOLEAN
        BY <2>2, <3>1 DEF RequestStep, Types, TypeOK, Request, RequestInv, RunNow, Columns
      <4> QED BY <3>1, <4>1, StartRunBackups DEF RunNow
    <3>2. CASE ~RunNow(p)
      BY <2>2, <3>2, UnchangedBackups DEF RequestStep, WriteChange, SyncTimer, Restore,
         SyncRestored, UndoCreate, history
    <3> QED BY <3>1, <3>2
  <2>3. ASSUME NEW r \in Runs, RunStep(r) PROVE BackupInv'
    BY <2>3, RunStepBackups
  <2>4. ASSUME NEW j \in setup.jobs, Fire(j) PROVE BackupInv'
    <3>1. j \in Jobs /\ timers[j].policy \in Policies /\ FALSE \in BOOLEAN
      BY <2>4 DEF Fire, Types, TypeOK, CronTimer
    <3> QED BY <2>4, <3>1, StartRunBackups DEF Fire
  <2>5. ASSUME NEW j \in setup.jobs, Miss(j) PROVE BackupInv'
    BY <2>5, UnchangedBackups DEF Miss, server, history
  <2>6. CASE Die
    BY <2>6 DEF Die, BackupInv, Backing, Present
  <2>7. CASE Restart
    BY <2>7, UnchangedBackups DEF Restart, history
  <2>8. ASSUME NEW j \in Jobs, BootTake(j) PROVE BackupInv'
    <3>1. boot.list[j].policy \in Policies /\ TRUE \in BOOLEAN
      BY <2>8 DEF BootTake, Types, BootTypes, JobRow
    <3>2. CASE StartRun(j, boot.list[j].policy, TRUE)
      BY <2>8, <3>1, <3>2, StartRunBackups DEF BootTake
    <3>3. CASE UNCHANGED <<run, running, loosened, shared>>
      BY <2>8, <3>3, UnchangedBackups DEF BootTake
    <3> QED BY <2>8, <3>2, <3>3 DEF BootTake
  <2>9. CASE BootTimer /\ ~Die
    BY <2>9, UnchangedBackups DEF BootTimer, history
  <2>10. CASE BootDone
    BY <2>10, UnchangedBackups DEF BootDone, history
  <2> QED BY <1>2, <2>1, <2>2, <2>3, <2>4, <2>5, <2>6, <2>7, <2>8, <2>9, <2>10
          DEF Next, Crash, BootStep
<1> QED BY <1>1, <1>2

\* Once a backup was made there is a whole one at any time, whatever fails or
\* crashes, as long as no two backups went side by side.
THEOREM BackupsSurvive == Spec => []BackupSurvives
<1>1. Init => BackupInv
  BY DEF Init, BackupInv, Backing
<1>2. BackupInv => BackupSurvives
  BY DEF BackupInv, BackupSurvives
<1> QED BY <1>1, <1>2, NextBackups, AlwaysTypes, PTL DEF Spec

-----------------------------------------------------------------------------
(* Timers.                                                                 *)

Matches(j) ==
    timers[j] = IF rows[j] = None \/ rows[j].status = "PAUSED" THEN None
                ELSE Timer(rows[j])

\* What the only request that changes a job knows of its row.
InHand(p, j) ==
    /\ req[p].step # "undo" => rows[j] # None
    /\ req[p].step = "written" => Settings(rows[j]) = req[p].new
    /\ req[p].step = "restored" => Settings(rows[j]) = Settings(req[p].old)

\* A job of a server that is up, unless requests that change it overlapped.
UpJob(j) ==
    j \notin tangled =>
        /\ Changing(j) = {} => Matches(j)
        /\ \A p, q \in Changing(j) : p = q
        /\ \A p \in Changing(j) : InHand(p, j)

\* A job at a restart: either its timer is made, or it is still in the list,
\* as the row is but for the time of the last run.
BootJob(j) ==
    IF j \in DOMAIN boot.list
    THEN /\ rows[j] # None
         /\ Settings(boot.list[j]) = Settings(rows[j])
         /\ rows[j].status = "ACTIVE"
    ELSE Matches(j)

TimersInv ==
    /\ process = "down" => \A j \in Jobs : timers[j] = None
    /\ process = "boot" => \A j \in Jobs : BootJob(j)
    /\ process = "up" => \A j \in Jobs : UpJob(j)

\* Whether a timer matches depends on the settings in the row only.
LEMMA MatchesSettings ==
  ASSUME NEW j \in Jobs, rows[j] # None, rows'[j] # None,
         Settings(rows'[j]) = Settings(rows[j]), timers'[j] = timers[j]
  PROVE  Matches(j)' <=> Matches(j)
BY DEF Matches, Settings, Timer

\* A timer that was made from a row matches it.
LEMMA SyncedMatches ==
  ASSUME TypeOK, NEW j \in Jobs, rows[j] # None, rows'[j] = rows[j],
         NEW row, Settings(row) = Settings(rows[j]), ~Refuses(row),
         timers' = Synced(j, row)
  PROVE  Matches(j)'
<1>1. rows[j] \in JobRow
  BY DEF TypeOK
<1>2. /\ row.status = rows[j].status /\ row.policy = rows[j].policy
      /\ row.cron = rows[j].cron
  BY DEF Settings
<1>3. rows[j].status \in {"ACTIVE", "PAUSED"}
  BY <1>1 DEF JobRow, Statuses
<1> QED BY <1>2, <1>3 DEF Matches, Synced, Timer, TypeOK
\* A request is about one job: the others stay as they are.
LEMMA OtherJobs ==
  ASSUME TimersInv, process = "up", NEW p \in Procs, NEW j \in Jobs,
         \A q \in Procs \ {p} : req'[q] = req[q],
         req[p] # None => req[p].job = j,
         req'[p] # None => req'[p].job = j,
         \A k \in Jobs \ {j} : /\ rows'[k] = rows[k] /\ timers'[k] = timers[k]
                               /\ k \in tangled' <=> k \in tangled
  PROVE  \A k \in Jobs \ {j} : UpJob(k)'
<1> SUFFICES ASSUME NEW k \in Jobs \ {j} PROVE UpJob(k)'
  OBVIOUS
<1>1. UpJob(k)
  BY DEF TimersInv
<1>2. p \notin Changing(k) /\ p \notin Changing(k)'
  BY DEF Changing
<1>3. Changing(k)' = Changing(k)
  BY <1>2 DEF Changing
<1>4. Matches(k)' <=> Matches(k)
  BY DEF Matches
<1>5. \A q \in Changing(k) : InHand(q, k) <=> InHand(q, k)'
  BY <1>2 DEF Changing, InHand
<1> QED BY <1>1, <1>3, <1>4, <1>5 DEF UpJob

\* A request that begins to change a job is the only one, or tangles it.
LEMMA EnterJob ==
  ASSUME Types, TimersInv, NEW p \in Procs, NEW op \in {"create", "change"}, NEW j \in Jobs,
         NEW edit \in Edits \cup {None}, NEW step \in {"read", "written"},
         NEW old \in JobRow \cup {None}, NEW new \in Columns \cup {None},
         Enter(p, op, j, edit, step, old, new),
         rows'[j] # None, step = "written" => Settings(rows'[j]) = new,
         \A k \in Jobs \ {j} : rows'[k] = rows[k],
         UNCHANGED <<process, timers>>
  PROVE  TimersInv'
<1>1. /\ req' \in [Procs -> Request \cup {None}]
      /\ req'[p] # None /\ req'[p].op = op /\ req'[p].job = j
      /\ req'[p].step = step /\ req'[p].new = new
      /\ \A q \in Procs \ {p} : req'[q] = req[q]
      /\ process = "up"
  <2>1. op \in {"create", "change", "run"} /\ old \in JobRow \cup Columns \cup {None}
    OBVIOUS
  <2> QED BY <2>1, EnterTypes
<1>2. /\ req[p] = None
      /\ tangled' = IF Changing(j) = {} THEN tangled \ {j} ELSE tangled \cup {j}
  BY DEF Enter
<1>3. \A k \in Jobs \ {j} : UpJob(k)'
  <2>1. \A k \in Jobs \ {j} : k \in tangled' <=> k \in tangled
    BY <1>2
  <2> QED BY <1>1, <1>2, <2>1, OtherJobs
<1>4. UpJob(j)'
  <2>1. CASE Changing(j) # {}
    BY <1>2, <2>1 DEF UpJob
  <2>2. CASE Changing(j) = {}
    <3>1. Changing(j)' = {p}
      BY <1>1, <2>2 DEF Changing
    <3>2. InHand(p, j)'
      BY <1>1 DEF InHand
    <3> QED BY <3>1, <3>2 DEF UpJob
  <2> QED BY <2>1, <2>2
<1> QED BY <1>1, <1>3, <1>4 DEF TimersInv

\* A step of a request that changes a job.
LEMMA ChangeStep ==
  ASSUME Types, TimersInv, NEW p \in Procs, NEW j \in Jobs,
         req[p] # None, req[p].job = j, req[p].op # "run",
         NEW x \in Request \cup {None}, req' = [req EXCEPT ![p] = x],
         x # None => x.job = j /\ x.op = req[p].op,
         \A k \in Jobs \ {j} : /\ rows'[k] = rows[k] /\ timers'[k] = timers[k]
                               /\ k \in tangled' <=> k \in tangled,
         j \notin tangled' => j \notin tangled,
         j \notin tangled' /\ InHand(p, j) /\ x = None => Matches(j)',
         j \notin tangled' /\ InHand(p, j) /\ x # None => InHand(p, j)',
         UNCHANGED process
  PROVE  TimersInv'
<1>1. process = "up"
  BY DEF Types
<1>2. /\ \A q \in Procs \ {p} : req'[q] = req[q]
      /\ req'[p] = x
  BY DEF Types, TypeOK
<1>3. \A k \in Jobs \ {j} : UpJob(k)'
  BY <1>1, <1>2, OtherJobs
<1>4. UpJob(j)'
  <2> SUFFICES ASSUME j \notin tangled' PROVE UpJob(j)'
    BY DEF UpJob
  <2>1. Changing(j) = {p} /\ InHand(p, j)
    <3>1. p \in Changing(j)
      BY DEF Changing
    <3> QED BY <1>1, <3>1 DEF TimersInv, UpJob
  <2>2. Changing(j)' = IF x = None THEN {} ELSE {p}
    BY <1>2, <2>1 DEF Changing
  <2> QED BY <2>1, <2>2 DEF UpJob
<1> QED BY <1>1, <1>3, <1>4 DEF TimersInv
\* Requests to run a job now change neither rows nor timers.
LEMMA RunRequest ==
  ASSUME TimersInv, NEW p \in Procs, process = "up",
         \A q \in Procs \ {p} : req'[q] = req[q],
         req[p] = None \/ req[p].op = "run",
         req'[p] = None \/ req'[p].op = "run",
         UNCHANGED <<rows, timers, tangled, process>>
  PROVE  TimersInv'
<1> SUFFICES ASSUME NEW j \in Jobs PROVE UpJob(j)'
  BY DEF TimersInv
<1>1. UpJob(j)
  BY DEF TimersInv
<1>2. p \notin Changing(j) /\ Changing(j)' = Changing(j)
  BY DEF Changing
<1>3. \A q \in Changing(j) : InHand(q, j) <=> InHand(q, j)'
  BY <1>2 DEF Changing, InHand
<1> QED BY <1>1, <1>2, <1>3 DEF UpJob, Matches

\* Steps that leave the settings in the rows alone.
LEMMA SameSettings ==
  ASSUME TimersInv, UNCHANGED <<process, boot, timers, req, tangled>>,
         \A j \in Jobs : /\ rows'[j] = None <=> rows[j] = None
                         /\ rows[j] # None => Settings(rows'[j]) = Settings(rows[j])
  PROVE  TimersInv'
<1>1. \A j \in Jobs : Matches(j)' <=> Matches(j)
  BY MatchesSettings DEF Matches
<1>2. CASE process = "down"
  BY <1>2 DEF TimersInv
<1>3. CASE process = "boot"
  <2> SUFFICES ASSUME NEW j \in Jobs PROVE BootJob(j)'
    BY <1>3 DEF TimersInv
  <2>1. BootJob(j)
    BY <1>3 DEF TimersInv
  <2>2. rows[j] # None => rows'[j].status = rows[j].status
    BY DEF Settings
  <2> QED BY <1>1, <2>1, <2>2 DEF BootJob
<1>4. CASE process = "up"
  <2> SUFFICES ASSUME NEW j \in Jobs PROVE UpJob(j)'
    BY <1>4 DEF TimersInv
  <2>1. UpJob(j)
    BY <1>4 DEF TimersInv
  <2>2. Changing(j)' = Changing(j)
    BY DEF Changing
  <2>3. \A p \in Changing(j) : InHand(p, j) => InHand(p, j)'
    BY DEF InHand
  <2> QED BY <1>1, <2>1, <2>2, <2>3 DEF UpJob
<1> QED BY <1>2, <1>3, <1>4 DEF TimersInv

LEMMA SubmitCreateTimers ==
  ASSUME Types, TimersInv, NEW p \in Procs, SubmitCreate(p)
  PROVE  TimersInv'
<1>1. PICK j \in setup.jobs, policy \in {"FORBID", "ALLOW"}, cron \in {"good"} \cup Refused :
         LET row == [Row(j, policy, "FIRE_AND_PROCEED") EXCEPT !.cron = cron]
         IN  /\ Enter(p, "create", j, None, "written", None, Settings(row))
             /\ rows' = [rows EXCEPT ![j] = row]
  BY DEF SubmitCreate
<1> DEFINE row == [Row(j, policy, "FIRE_AND_PROCEED") EXCEPT !.cron = cron]
<1>2. j \in Jobs
  BY DEF Types, TypeOK
<1>3. row \in JobRow /\ row # None
  BY <1>2 DEF Row, JobRow, Statuses, Policies, Misfires, Crons, Types, TypeOK
<1>4. Settings(row) \in Columns
  BY <1>3 DEF Settings, Columns, JobRow
<1>5. rows' = [rows EXCEPT ![j] = row] /\ Enter(p, "create", j, None, "written", None, Settings(row))
  BY <1>1
<1>6. UNCHANGED <<process, timers>>
  BY DEF SubmitCreate
<1> HIDE DEF row
<1>7. rows'[j] = row /\ \A k \in Jobs \ {j} : rows'[k] = rows[k]
  BY <1>2, <1>5 DEF Types, TypeOK
<1>8. /\ "create" \in {"create", "change"} /\ None \in Edits \cup {None}
      /\ "written" \in {"read", "written"} /\ None \in JobRow \cup {None}
      /\ Settings(row) \in Columns \cup {None}
  BY <1>4
<1> QED BY <1>2, <1>3, <1>5, <1>6, <1>7, <1>8, EnterJob

LEMMA SubmitChangeTimers ==
  ASSUME Types, TimersInv, NEW p \in Procs, SubmitChange(p)
  PROVE  TimersInv'
<1>1. PICK j \in setup.jobs, c \in Changes :
         /\ rows[j] # None
         /\ Enter(p, "change", j, c.edit, "read", rows[j], None)
  BY DEF SubmitChange
<1>2. j \in Jobs /\ rows[j] \in JobRow \cup {None} /\ c.edit \in Edits \cup {None}
  BY <1>1 DEF Types, TypeOK, Changes, Edits
<1>3. UNCHANGED <<rows, process, timers>>
  BY DEF SubmitChange
<1>4. /\ "change" \in {"create", "change"} /\ "read" \in {"read", "written"}
      /\ None \in Columns \cup {None}
  OBVIOUS
<1> QED BY <1>1, <1>2, <1>3, <1>4, EnterJob

LEMMA SubmitRunTimers ==
  ASSUME Types, TimersInv, NEW p \in Procs, SubmitRun(p)
  PROVE  TimersInv'
<1>1. PICK j \in setup.jobs : Enter(p, "run", j, None, "read", Settings(rows[j]), None)
  BY DEF SubmitRun
<1>2. /\ req[p] = None /\ process = "up" /\ UNCHANGED <<rows, timers, tangled, process>>
      /\ \A q \in Procs \ {p} : req'[q] = req[q]
      /\ req'[p].op = "run"
  BY <1>1 DEF SubmitRun, Enter, Types, TypeOK
<1> QED BY <1>2, RunRequest

LEMMA WriteChangeTimers ==
  ASSUME Types, TimersInv, NEW p \in Procs, req[p] # None, WriteChange(p)
  PROVE  TimersInv'
<1>1. PICK j \in Jobs : j = req[p].job
  BY DEF Types, TypeOK, Request
<1> DEFINE row == Edited(rows[j], req[p].edit)
<1>2. /\ req[p] \in Request /\ req[p].edit \in Edits /\ req[p].op = "change"
      /\ req[p].step = "read"
      /\ UNCHANGED <<timers, tangled, process>>
  BY DEF Types, TypeOK, RequestInv, WriteChange, history
<1>3. CASE rows[j] = None
  <2>1. req' = [req EXCEPT ![p] = None] /\ UNCHANGED rows
    BY <1>1, <1>3 DEF WriteChange, Answer
  <2>2. ~InHand(p, j)
    BY <1>2, <1>3 DEF InHand
  <2> QED BY <1>1, <1>2, <2>1, <2>2, ChangeStep
<1>4. CASE rows[j] # None
  <2>1. row \in JobRow
    BY <1>2, <1>4, EditedType DEF Types, TypeOK
  <2>2. Settings(row) \in Columns
    BY <2>1 DEF Settings, Columns, JobRow
  <2> DEFINE x == [req[p] EXCEPT !.step = "written", !.edit = None,
                                 !.old = IF Refuses(row) THEN @ ELSE None,
                                 !.new = Settings(row)]
  <2>3. rows' = [rows EXCEPT ![j] = row] /\ req' = [req EXCEPT ![p] = x]
    BY <1>1, <1>4, <1>2 DEF WriteChange
  <2>4. x \in Request
    BY <1>2, <2>2 DEF Request
  <2>5. x.op = req[p].op /\ x.step = "written" /\ x.new = Settings(row) /\ x.job = j
    BY <1>1, <1>2 DEF Request
  <2>6. row # None
    BY <2>1
  <2> HIDE DEF x, row
  <2>7. /\ req'[p] = x /\ rows'[j] = row
        /\ \A k \in Jobs \ {j} : rows'[k] = rows[k]
    BY <2>3 DEF Types, TypeOK
  <2>8. InHand(p, j)'
    BY <2>5, <2>6, <2>7 DEF InHand
  <2>9. x # None
    BY <2>4
  <2> QED BY <1>1, <1>2, <2>3, <2>4, <2>5, <2>7, <2>8, <2>9, ChangeStep
<1> QED BY <1>3, <1>4
LEMMA SyncTimerTimers ==
  ASSUME Types, TimersInv, NEW p \in Procs, req[p] # None, SyncTimer(p)
  PROVE  TimersInv'
<1>1. PICK j \in Jobs : j = req[p].job
  BY DEF Types, TypeOK, Request
<1>2. /\ req[p] \in Request /\ req[p].step = "written" /\ req[p].op # "run"
      /\ timers' = Synced(j, req[p].new)
      /\ UNCHANGED <<rows, tangled, process>>
  BY <1>1 DEF Types, TypeOK, RequestInv, SyncTimer, history
<1>3. \A k \in Jobs \ {j} : timers'[k] = timers[k]
  BY <1>2 DEF Synced, Types, TypeOK
<1>4. CASE ~Refuses(req[p].new)
  <2>1. req' = [req EXCEPT ![p] = None]
    BY <1>4 DEF SyncTimer, Answer
  <2>2. req[p].new \in Columns
    BY <1>2 DEF Types, RequestInv
  <2>3. Settings(req[p].new) = req[p].new
    BY <2>2 DEF Columns, Settings
  <2>4. InHand(p, j) => Matches(j)'
    <3>1. SUFFICES ASSUME InHand(p, j) PROVE Matches(j)'
      OBVIOUS
    <3>2. rows[j] # None /\ rows'[j] = rows[j] /\ Settings(req[p].new) = Settings(rows[j])
      BY <1>2, <2>3, <3>1 DEF InHand
    <3> QED BY <1>2, <1>4, <3>2, SyncedMatches DEF Types
  <2> QED BY <1>1, <1>2, <1>3, <2>1, <2>4, ChangeStep
<1>5. CASE Refuses(req[p].new)
  <2> DEFINE step == IF req[p].op = "create" THEN "undo" ELSE "restore"
             x == [req[p] EXCEPT !.new = None, !.step = step]
  <2>1. req' = [req EXCEPT ![p] = x]
    BY <1>5 DEF SyncTimer
  <2>2. x \in Request
    BY <1>2 DEF Request
  <2>3. x.op = req[p].op /\ x.step = step /\ x.job = j
    BY <1>1, <1>2 DEF Request
  <2> HIDE DEF x
  <2>4. req'[p] = x
    BY <2>1 DEF Types, TypeOK
  <2>5. InHand(p, j) => InHand(p, j)'
    BY <1>2, <2>3, <2>4 DEF InHand
  <2>6. x # None
    BY <2>2
  <2> QED BY <1>1, <1>2, <1>3, <2>1, <2>2, <2>3, <2>5, <2>6, ChangeStep
<1> QED BY <1>4, <1>5

LEMMA RestoreTimers ==
  ASSUME Types, TimersInv, NEW p \in Procs, req[p] # None, Restore(p)
  PROVE  TimersInv'
<1>1. PICK j \in Jobs : j = req[p].job
  BY DEF Types, TypeOK, Request
<1>2. /\ req[p] \in Request /\ req[p].step = "restore" /\ req[p].op = "change"
      /\ req[p].old \in JobRow
      /\ UNCHANGED <<timers, tangled, process>>
  BY DEF Types, TypeOK, Request, RequestInv, Restore, history
<1>3. CASE rows[j] = None
  <2>1. req' = [req EXCEPT ![p] = None] /\ UNCHANGED rows
    BY <1>1, <1>3 DEF Restore, Answer
  <2>2. ~InHand(p, j)
    BY <1>2, <1>3 DEF InHand
  <2> QED BY <1>1, <1>2, <2>1, <2>2, ChangeStep
<1>4. CASE rows[j] # None
  <2> DEFINE x == [req[p] EXCEPT !.step = "restored"]
  <2>1. req' = [req EXCEPT ![p] = x] /\ rows' = [rows EXCEPT ![j] = req[p].old]
    BY <1>1, <1>4 DEF Restore
  <2>2. x \in Request /\ x # None
    BY <1>2 DEF Request
  <2>3. x.op = req[p].op /\ x.step = "restored" /\ x.old = req[p].old /\ x.job = j
    BY <1>1, <1>2 DEF Request
  <2> HIDE DEF x
  <2>4. /\ req'[p] = x /\ rows'[j] = req[p].old /\ rows'[j] # None
        /\ \A k \in Jobs \ {j} : rows'[k] = rows[k]
    BY <1>2, <2>1 DEF Types, TypeOK
  <2>5. InHand(p, j)'
    BY <2>3, <2>4 DEF InHand
  <2> QED BY <1>1, <1>2, <2>1, <2>2, <2>3, <2>4, <2>5, ChangeStep
<1> QED BY <1>3, <1>4

LEMMA SyncRestoredTimers ==
  ASSUME Types, TimersInv, NEW p \in Procs, req[p] # None, SyncRestored(p)
  PROVE  TimersInv'
<1>1. PICK j \in Jobs : j = req[p].job
  BY DEF Types, TypeOK, Request
<1>2. /\ req[p].step = "restored" /\ req[p].op # "run"
      /\ timers' = Synced(j, req[p].old)
      /\ tangled' = IF Refuses(req[p].old) THEN tangled \cup {j} ELSE tangled
      /\ req' = [req EXCEPT ![p] = None]
      /\ UNCHANGED <<rows, process>>
  BY <1>1 DEF Types, RequestInv, SyncRestored, RestoredTimer, Answer
<1>3. \A k \in Jobs \ {j} : timers'[k] = timers[k] /\ (k \in tangled' <=> k \in tangled)
  BY <1>2 DEF Synced, Types, TypeOK
<1>4. j \notin tangled' => j \notin tangled /\ ~Refuses(req[p].old)
  BY <1>2
<1>5. InHand(p, j) /\ ~Refuses(req[p].old) => Matches(j)'
  <2> SUFFICES ASSUME InHand(p, j), ~Refuses(req[p].old) PROVE Matches(j)'
    OBVIOUS
  <2>1. rows[j] # None /\ rows'[j] = rows[j] /\ Settings(req[p].old) = Settings(rows[j])
    BY <1>2 DEF InHand
  <2> QED BY <1>2, <2>1, SyncedMatches DEF Types
<1> QED BY <1>1, <1>2, <1>3, <1>4, <1>5, ChangeStep

LEMMA UndoCreateTimers ==
  ASSUME Types, TimersInv, NEW p \in Procs, req[p] # None, UndoCreate(p)
  PROVE  TimersInv'
<1>1. PICK j \in Jobs : j = req[p].job
  BY DEF Types, TypeOK, Request
<1>2. /\ req[p].op # "run"
      /\ timers' = [timers EXCEPT ![j] = None] /\ rows' = [rows EXCEPT ![j] = None]
      /\ req' = [req EXCEPT ![p] = None]
      /\ UNCHANGED <<tangled, process>>
  BY <1>1 DEF Types, RequestInv, UndoCreate, Answer, history
<1>3. /\ \A k \in Jobs \ {j} : timers'[k] = timers[k] /\ rows'[k] = rows[k]
      /\ Matches(j)'
  BY <1>2 DEF Types, TypeOK, Matches
<1> QED BY <1>1, <1>2, <1>3, ChangeStep

LEMMA RunNowTimers ==
  ASSUME Types, TimersInv, NEW p \in Procs, req[p] # None, RunNow(p)
  PROVE  TimersInv'
<1>1. process = "up" /\ req[p].op = "run" /\ UNCHANGED <<rows, timers, tangled, process>>
  BY DEF Types, RunNow
<1>2. req'[p] = None /\ \A q \in Procs \ {p} : req'[q] = req[q]
  BY DEF RunNow, Answer, Types, TypeOK
<1> QED BY <1>1, <1>2, RunRequest

LEMMA RunStepTimers ==
  ASSUME Types, TimersInv, NEW r \in Runs, RunStep(r)
  PROVE  TimersInv'
<1>1. UNCHANGED <<process, boot, timers, req, tangled>>
  BY DEF RunStep, Work, BeginDump, EndDump, SumAndList, RemoveOld, Stamp, Fail, history
<1>2. \/ UNCHANGED rows
      \/ /\ rows[run[r].job] # None
         /\ rows' = [rows EXCEPT ![run[r].job].lastRun = run[r].at]
  BY DEF RunStep, Work, BeginDump, EndDump, SumAndList, RemoveOld, Stamp, Fail
<1>3. run[r].job \in Jobs /\ run[r].at \in Nat
  BY DEF RunStep, Types, TypeOK, Execution
<1>4. \A j \in Jobs : /\ rows'[j] = None <=> rows[j] = None
                      /\ rows[j] # None => Settings(rows'[j]) = Settings(rows[j])
  <2>1. CASE UNCHANGED rows
    BY <2>1
  <2>2. CASE ~UNCHANGED rows
    <3> DEFINE x == [rows[run[r].job] EXCEPT !.lastRun = run[r].at]
    <3>1. rows[run[r].job] \in JobRow
      BY <1>2, <1>3, <2>2 DEF Types, TypeOK
    <3>2. x \in JobRow /\ Settings(x) = Settings(rows[run[r].job])
      BY <1>3, <3>1 DEF JobRow, Settings
    <3>3. rows' = [rows EXCEPT ![run[r].job] = x]
      BY <1>2, <2>2
    <3> HIDE DEF x
    <3> QED BY <1>3, <3>1, <3>2, <3>3 DEF Types, TypeOK
  <2> QED BY <2>1, <2>2
<1> QED BY <1>1, <1>4, SameSettings
\* A restart begins with no timer: the active rows are in its list.
LEMMA RestartTimers ==
  ASSUME Types, Types', TimersInv, Restart
  PROVE  TimersInv'
<1>1. /\ process = "down" /\ process' = "boot" /\ UNCHANGED timers
      /\ boot' = [Quiet EXCEPT !.list = [j \in ActiveJobs(rows') |-> rows'[j]]]
  BY DEF Restart
<1>2. boot'.list = [j \in ActiveJobs(rows') |-> rows'[j]]
  BY <1>1 DEF Quiet
<1>3. ASSUME NEW j \in Jobs PROVE BootJob(j)'
  <2>1. timers'[j] = None
    BY <1>1 DEF TimersInv
  <2>2. rows'[j] # None => rows'[j].status \in {"ACTIVE", "PAUSED"}
    BY DEF Types, TypeOK, JobRow, Statuses
  <2> QED BY <1>2, <2>1, <2>2 DEF BootJob, ActiveJobs, Matches
<1> QED BY <1>1, <1>3 DEF TimersInv

LEMMA BootTakeTimers ==
  ASSUME Types, TimersInv, NEW j \in Jobs, BootTake(j)
  PROVE  TimersInv'
<1>1. /\ process = "boot" /\ UNCHANGED <<process, rows, timers>>
      /\ boot' = [boot EXCEPT !.job = j, !.caught = ShouldCatchUp(j, boot.list[j])]
  BY DEF BootTake
<1>2. boot'.list = boot.list
  BY <1>1 DEF Types, BootTypes
<1>3. ASSUME NEW k \in Jobs PROVE BootJob(k)'
  BY <1>1, <1>2 DEF TimersInv, BootJob, Matches
<1> QED BY <1>1, <1>3 DEF TimersInv

LEMMA BootTimerTimers ==
  ASSUME Types, TimersInv, BootTimer, ~Die
  PROVE  TimersInv'
<1>1. PICK j \in Jobs : j = boot.job /\ j \in DOMAIN boot.list
  BY DEF BootTimer, Types, BootTypes
<1>2. /\ process = "boot" /\ UNCHANGED <<process, rows>>
      /\ ~Refuses(boot.list[j]) /\ timers' = Synced(j, boot.list[j])
      /\ boot' = [boot EXCEPT !.job = None,
                     !.list = [k \in DOMAIN boot.list \ {j} |-> boot.list[k]]]
  BY <1>1 DEF BootTimer
<1>3. boot'.list = [k \in DOMAIN boot.list \ {j} |-> boot.list[k]]
  BY <1>2 DEF Types, BootTypes
<1>4. BootJob(j)'
  <2>1. rows[j] # None /\ Settings(boot.list[j]) = Settings(rows[j])
    BY <1>1, <1>2 DEF TimersInv, BootJob
  <2>2. Matches(j)'
    BY <1>2, <2>1, SyncedMatches DEF Types
  <2> QED BY <1>3, <2>2 DEF BootJob
<1>5. ASSUME NEW k \in Jobs \ {j} PROVE BootJob(k)'
  <2>1. timers'[k] = timers[k]
    BY <1>2 DEF Synced, Types, TypeOK
  <2>2. BootJob(k)
    BY <1>2 DEF TimersInv
  <2> QED BY <1>2, <1>3, <2>1, <2>2 DEF BootJob, Matches
<1> QED BY <1>2, <1>4, <1>5 DEF TimersInv

LEMMA BootDoneTimers ==
  ASSUME Types, TimersInv, BootDone
  PROVE  TimersInv'
<1>1. /\ process = "boot" /\ process' = "up" /\ DOMAIN boot.list = {}
      /\ UNCHANGED <<rows, timers, req>>
  BY DEF BootDone
<1>2. ASSUME NEW j \in Jobs PROVE UpJob(j)'
  <2>1. Matches(j)'
    BY <1>1 DEF TimersInv, BootJob, Matches
  <2>2. Changing(j)' = {}
    BY <1>1 DEF Types, Changing
  <2> QED BY <2>1, <2>2 DEF UpJob
<1> QED BY <1>1, <1>2 DEF TimersInv

LEMMA NextTimers == Types /\ Types' /\ TimersInv /\ [Next]_vars => TimersInv'
<1> SUFFICES ASSUME Types, Types', TimersInv, [Next]_vars PROVE TimersInv'
  OBVIOUS
<1>1. CASE UNCHANGED vars
  BY <1>1, SameSettings DEF vars, server, history
<1>2. CASE Next
  <2>1. ASSUME NEW p \in Procs, SubmitCreate(p) \/ SubmitChange(p) \/ SubmitRun(p)
        PROVE  TimersInv'
    BY <2>1, SubmitCreateTimers, SubmitChangeTimers, SubmitRunTimers
  <2>2. ASSUME NEW p \in Procs, RequestStep(p) PROVE TimersInv'
    BY <2>2, WriteChangeTimers, SyncTimerTimers, RestoreTimers, SyncRestoredTimers,
       UndoCreateTimers, RunNowTimers DEF RequestStep
  <2>3. ASSUME NEW r \in Runs, RunStep(r) PROVE TimersInv'
    BY <2>3, RunStepTimers
  <2>4. ASSUME NEW j \in setup.jobs, Fire(j) \/ Miss(j) PROVE TimersInv'
    BY <2>4, SameSettings DEF Fire, Miss, server, history
  <2>5. CASE Die
    BY <2>5 DEF Die, TimersInv
  <2>6. CASE Restart
    BY <2>6, RestartTimers
  <2>7. ASSUME NEW j \in Jobs, BootTake(j) PROVE TimersInv'
    BY <2>7, BootTakeTimers
  <2>8. CASE BootTimer /\ ~Die
    BY <2>8, BootTimerTimers
  <2>9. CASE BootDone
    BY <2>9, BootDoneTimers
  <2> QED BY <1>2, <2>1, <2>2, <2>3, <2>4, <2>5, <2>6, <2>7, <2>8, <2>9
          DEF Next, Crash, BootStep
<1> QED BY <1>1, <1>2

\* In a server that is up, the timer of a job that no request is changing is the
\* one that its row asks for, unless two changes of the job overlapped.
THEOREM TimersAreRows == Spec => []TimersMatchRows
<1>1. Init => TimersInv
  BY DEF Init, TimersInv
<1>2. TimersInv => TimersMatchRows
  BY DEF TimersInv, UpJob, Matches, TimersMatchRows
<1> QED BY <1>1, <1>2, NextTimers, AlwaysTypes, PTL DEF Spec
=============================================================================
