------------------------------ MODULE MCScheduler ------------------------------
(***************************************************************************)
(* Scheduler on five small installations.                                  *)
(***************************************************************************)
EXTENDS Scheduler

CONSTANTS backup, report

Allow == [policy |-> "ALLOW", misfire |-> "FIRE_AND_PROCEED"]
Forbid == [policy |-> "FORBID"]
BadCron == [cron |-> "bad"]

Setup ==
    [jobs |-> {backup}, users |-> 1, edits |-> {}, retention |-> 1,
     runs |-> 1, times |-> 1, backups |-> 0, crashes |-> 0]

MCSetups == {
    \* two users change a job,
    [Setup EXCEPT !.users = 2, !.edits = {Forbid, BadCron}, !.times = 0],
    \* one user creates and changes a job of his own, the process crashes,
    [Setup EXCEPT !.jobs = {report}, !.edits = {Forbid, BadCron}, !.crashes = 1],
    \* one user changes the policy of a job while it runs,
    [Setup EXCEPT !.edits = {Allow, Forbid}, !.runs = 2, !.crashes = 1],
    \* backups are made one by one, the process crashes,
    [Setup EXCEPT !.times = 0, !.backups = 3, !.crashes = 2],
    \* backups are made side by side.
    [Setup EXCEPT !.edits = {[policy |-> "ALLOW"]}, !.times = 0, !.runs = 2, !.backups = 2]}
=============================================================================
