# TLA+ models of the warehouse server

The repository is a warehouse management server (NestJS, Prisma, MySQL, Redis).
Its core is the stock: every document family (receipts, sales, workshop, R&D)
writes `inventory_balance`, `inventory_log` and `inventory_source_usage` through
`inventory-core`, inside database transactions of its own. Around it are the
scheduler with the database backup, the sessions, and the users and roles (`rbac`).
This directory models that core, the document families over it, the scheduler and
the sessions, checks the models with TLC and proves with TLAPS the safety of the
ledger, the scheduler, the sessions and `rbac`, what approvals and factory numbers of
the sales say, and that the status ledger of the R&D sub-warehouse adds up.

## The system

| part | state it keeps | operations | what makes it correct | module |
| --- | --- | --- | --- | --- |
| `inventory-core`: stock mutation | balance rows with a `rowVersion`, log rows under two unique indexes (`idempotencyKey`, `reversalOfLogId`) | `increaseStock`, `decreaseStock`, `reverseStock` | the logs replay the balance, stock is never negative, a command posts once, a log is reversed once | `InventoryLedger` |
| `inventory-core`: source usage | usage rows (allocated, released) between an IN log and a consumer line | `settleConsumerOut` (oldest first or from a named source), allocate, release, restore | a layer is never promised twice, layers and balance agree | `SourceLayers` |
| `inventory-core`: factory numbers | reservation rows under a unique index | reserve, release | numbers are held exactly for the lines in force | `SalesStock` |
| `sales` | orders with lines, returns with relations to order lines | create, edit, void an order; create, void a return | what is posted is what the documents say | `SalesStock` |
| `inbound` | acceptance and production receipts, supplier returns, price corrections | create, edit, void | a layer that is used is not taken away | `SalesStock`, `Materials` |
| `workshop-material` | picks, returns, scraps | create, edit, void | as sales, with returns linked to picks | `Materials` |
| `approval` | one approval document per document | create or refresh, mark not required, approve, reject, reset | a decision is about the document that was read | `SalesStock`, `Materials` |
| `rd-subwarehouse` | procurement requests with a status ledger of buckets and histories, handoffs, stocktakes, scraps of R&D stock | create, void, status actions and their rollback | the buckets are what the histories say and what the stores hold | `RdStatusLedger`, `RdMaterials` |
| `rd-project` | projects, their picks, scraps and returns | create, void; void the project | what a project holds is what it picked and did not give back | `RdMaterials` |
| `scheduler` | job rows, registered cron jobs, the running set, backup files | create, update, pause, resume, run; timers; restart | a paused job does not run, FORBID excludes overlap, a backup is left | `Scheduler` |
| `session`, `auth` | session records in Redis with a time to live | login, refresh, logout, forced logout, the guard of every request | a session that was ended stays ended, none outlives its maximum | `Sessions` |
| `rbac` | users, roles and links in the process, in Redis and in tables | load, change, queued rewrite | a change that was answered is kept, who asks is shown as he is | `RbacState` |
| `sales-project`, document numbers, `master-data`, `reporting`, `audit-log`, `file-storage`, `ai-assistant`, web | rows and files | maintenance, reads, I/O | no protocol between steps | none |

How the parts interact. A handler of a document family reads its document, refuses
on what it read, opens one transaction (`PrismaService.runInTransaction`, MySQL's
REPEATABLE READ) and passes it to `inventory-core` and `approval`. There is no queue
and no message between document families: they share the database, and what is hard
comes from there.

- What a handler read before its transaction may be stale when the transaction
  begins; what it reads in the transaction comes from the transaction's snapshot,
  also after `SELECT ... FOR UPDATE`, whose rows only keep others away.
- The conditional writes are few: the `UPDATE` of a balance names the `rowVersion`
  it read, the `UPDATE` of a status ledger names every bucket it read. Two
  transactions that move the same balance or ledger exclude each other through
  them, the others do not.
- A unique conflict (P2002) rolls back one statement, not the transaction. The
  stock commands catch it, look the existing log up on another connection and go
  on as if they had posted it. A `clientRequestId` that is taken is answered with
  the document that has it.
- A transaction may be rolled back at any statement: crash, timeout, deadlock.

The scheduler, the sessions and `rbac` run in one Node.js process and have no
transactions over what they share. Their steps are the stretches between two
`await`s, and any other request may run in between. A crash loses the timers, the
running set, the state in the process and the queue of rewrites; Redis may come back
empty.

`PROJECT.json` lists each hazard at its line, with the properties that catch it. Some
hazards name none: the code does go wrong there, and the passing runs leave the case out
by a rule of use or a property exempts it, which the note of the hazard says (see "The
rules of use"). Where a run shows the violation, the hazard names the property of that
run.

## The modules

```
InventoryLedger ---implements--> AtomicLedger        (MCInventoryLedger)
  InventoryLedgerProofs, with SumsOverSets

SourceLayers
  Documents
    DocumentProofs, with SumsOverSets, FoldInduction
    SalesStock ---implements--> StockBooks           (MCSalesStock)
      SalesStockProofs, with DocumentProofs, FoldInduction
    Materials                                        (MCMaterials)
    RdStatusLedger
      RdMaterials                                    (MCRdMaterials)
        RdMaterialsProofs, with DocumentProofs, FoldInduction

Scheduler                                            (MCScheduler)
  SchedulerProofs

RbacState                                            (MCRbacState)
  Sessions                                           (MCSessions)
    SessionsProofs, on RbacState and on Sessions
```

### The stock

`InventoryLedger.tla` is the stock mutation service statement by statement.
`balance` and `logs` are the committed rows; for each request `rows` and `seen`
are what its transaction reads (snapshot and own writes), `written` and `added`
what it has written and so holds locked, `call` the log row of the stock command
in progress, `script` the commands that its handler has still to issue, `pc` the
statement it is at. `IncreaseStock`, `DecreaseStock`, `ReverseStock` are the reads
and refusals of a command; `CreateBalance`, `UpdateBalance`, `InsertLog` its write
statements, in the order of the code (`increaseStock` moves the balance and then
inserts the log, the others insert first). `ResolveConflict` is the P2002 path.
`Rollback` may happen anywhere. A log row has a history variable `ver`, the row
version that it gives the balance; no guard reads it but the optimistic update,
which compares the version read with the row's.

`AtomicLedger.tla` is what the callers are promised: a set of stock commands is
posted together or not at all, each as asked for and under its key once, no posting
is reversed twice, the stock on hand is the sum of all postings and never below zero.
The end of `InventoryLedger.tla` maps the ledger to it: the postings are the log rows,
the stock on hand the quantities of the balance rows. `MCInventoryLedger.tla` gives
the ledger workloads. `InventoryLedgerProofs.tla` has the proofs, `SumsOverSets.tla`
the lemmas on finite sums that they need.

`SourceLayers.tla` has the stock commands that keep source layers, as operators on
a transaction `[v, c, ok, dup]`: `v` the snapshot it reads, `c` the rows it writes
to, both with its own writes. `SettleFromSource` with `AllocateByFifo` and
`AllocateManualSource`, `ReleaseInventorySource` with its restoring direction,
`IncreaseStock` and `ReverseStock` keep the order of the code's statements, so a
duplicate key leaves behind what the code leaves behind.

`Documents.tla` is what the document services share: the approval columns, the
undoing of a document's or a line's postings, the giving back of returned quantities
(`GiveBack`, `TakeAgain`) and the three steps of a request. `Submit*` is what the
handler reads and refuses before its transaction (`Open`), `Begin` takes the
snapshot, `Commit` runs the body of the transaction, or `Rollback` ends it. The body
runs in one step, reading the snapshot and writing to the current rows. That is what
its statements one after the other do, because every row that it has written stays
locked until it ends: another transaction sees either none or all of it, and a
statement that would have met another value meets it here as well, since the
snapshot is older than the current rows in the same way. `InventoryLedger` does not
make this simplification.

`SalesStock.tla` has acceptance receipts, outbound orders with lines and factory
numbers, sales returns linked to an order line or standalone, and their approval
documents. `StockBooks.tla` is the abstract specification of these: the stock on
hand is the sum of what the documents in force say, one document changes at a time,
a voided one never counts again. `MCSalesStock.tla` maps `SalesStock` to it.

`Materials.tla` has everything that meets on the main stock of a workshop's
material: receipts with several lines and their edit line by line (`Revise`: lines
that the form does not name are undone and deleted, lines that changed are undone
and posted under the next revision, new ones created), supplier returns that take a
receipt line's own layer, picks with edits that repost what differs and with sources
named by hand, scraps that are undone and written anew, returns that give a pick
line back to its layers or bring in a layer of their own, and the decisions
`approve`, `reject`, `reset`, which read the approval row in one statement and write
it in another. An action on a document is named as in the code (`PickUpdate`,
`BackVoid` for `voidReturnOrder`, and so on); `seen` is a history variable, the
revision that the last decision was made on.

`RdStatusLedger.tla` is the status ledger of a procurement request line: the buckets,
the histories that explain them, `Transfer` and `ReverseHistory` with the guarded
update of the buckets and the unique index on the history that is reversed.
`RdMaterials.tla` composes it with two stores, main and R&D, each a store of
`SourceLayers`: procurement requests with their four manual actions and the rollback
of these, handoffs that settle in the main store and bring the allocated pieces into
the R&D store, manual returns that do the opposite, scraps, stocktakes, the picks,
scraps and returns of the project, the void of all of them, and the void of the
project. A project's SCRAP action is a pick (`Uses`) that nobody returns from; a
project's RETURN writes an IN log that is no layer and frees the layers of the pick
again, as `settleConsumerOut` only draws on `RD_HANDOFF_IN` logs. Requests, handoffs
and project actions carry a client token.

### The scheduler

`Scheduler.tla` has the rows (`rows`), the cron jobs that the process has registered,
each with the row it was made from (`timers`), `running` for `runningJobs`, the
executions in progress (`run`), the requests in progress (`req`) and the backup files.
A request writes its row (`WriteChange`) and then makes the timer agree with what it
wrote (`SyncTimer`); when `CronJob` throws on an expression that the validation has
let pass, `Restore` and `SyncRestored` put the row and the timer back as they were
read. A run goes through `StartRun` (the FORBID check and the entry in `running`),
its executor, `Stamp` or `Fail`. The backup is a run of four steps: the dump, its
checksum together with the listing of the directory, the removals. `Crash` may
happen anywhere, `Restart` and `BootStep` are `onApplicationBootstrap` with its
catch-up of missed runs. `Fire` and `Miss` are the passing of a scheduled time with
and without a timer.

### Sessions, users and roles

`RbacState.tla` has the three copies of the state: `state` in the process, `cache`
in Redis with the version of the tables it was taken from, `tables`. A request loads
first: it gets the snapshot, reads the version, and uses the snapshot or reads the
tables one after the other, saves a snapshot and acts. A change is made on `state`
and queued; a rewrite takes rows and links from `state` as it is when it comes to
them. A change has a part in the rows and one in the links, so that a half made
change can be told from a whole one.

`Sessions.tla` adds the session records, with what is left of their times, and the
requests: login, and everything behind the guard, which finds the session, prolongs
it near its end, loads the user and stores the session again when the user is
another. A request then views, forces a logout, or changes a user and ends that
user's sessions. `Tick` is the passing of time: all times are what is left, so the
clock needs no bound.

## The rules of use

Some interleavings are not excluded by the code. The modules name them as rules that
users may keep (`Discipline`). The passing runs assume all of them; the rules
restrict the environment only, no property is about them, and everything else
interleaves freely. What is lost without each rule was seen with TLC:

| module | rule | without it |
| --- | --- | --- |
| `SalesStock` | `oneRequestPerDocument`: a document is not edited or voided while another request on it is in flight | `LinesMatchLedger` fails (run `sales_stale_edit`) |
| | `noEditUnderReturn`: an order is not edited while a return of it is in force (its void is refused by the code, its edit is not) | `LinesMatchLedger` fails |
| | `noVoidOfReturnedSource`: a document that brought a layer in is not voided while a return in force gave back to that layer | `SourcesCoverTheirUses` fails (run `sales_returned_source`) |
| | `noVoidOfConsumedReturn`: a standalone return is not voided while an order takes from its layer | `LayersMatchBalance` fails (run `sales_consumed_return`) |
| `Materials` | `oneRequestPerDocument` | `DocumentsMatchLedger` fails in 10 states |
| | `noUndoOfReturnedSource`: as in sales, for edits as well | `LayersMatchBalance` fails in 19 |
| | `noUndoOfConsumedReturn`: as in sales, for edits as well | `LayersMatchBalance` fails in 13 |
| | `noResetOfVoided`: the approval of a voided document is not reset, which `approval.service.ts:101` allows | `DecisionsFitDocuments` fails in 10 |
| `RdMaterials` | `voidAlone`: a request is not voided while an action on it is under way | `DocumentsMatchStatuses` fails in 13 |
| | `closeAlone`: the project is not voided while anything is under way | `DocumentsMatchStatuses` fails in 8: a request is created for a voided project |
| | `oneVoidPerReturn`: a project's return is not voided twice at a time | `StatusesMatchStores` fails in 25: the second void restores what another return gave back |
| | `noUndoOfReturnedSource`: a handoff is not voided while a return in force gave back to what it brought | `StatusesMatchStores` fails in 25: the void of the return books the pick on a reversed layer |

The scheduler and the sessions have no such rules. There the code's own holes are
named in the properties, by history variables that say when the hole was entered and
when the job or session is clear of it again:

- `tangled`: two requests that change one job overlapped, so its timer may have been
  made from the earlier row (`scheduler.service.ts:209`), or one restored the row
  that the other was about to restore (`:451`); also set when the row that was put
  back is itself one that `CronJob` refuses.
- `loosened`: a run under ALLOW joined a run of the job; the one that ends first takes
  the job out of `runningJobs`, and a FORBID run may then start beside the other
  (`:366`, `:411`).
- `shared`: two backups were made side by side, each may remove the other's.
- `crossed`: another request loaded the state while a change was made or waited to be
  written. This is the lost update of run `rbac_lost_change`.
- `exposed`, `overlapped`: a session was ended, or got a new token, while another
  request had found it and may store it again (`session.service.ts:64`).
- `drifted`: a session was stored for a remaining time that was read a tick before
  (`:144`), or for what was left of a time stored so.

Not all rows that boot are bootable: a process that dies between writing a row that
`CronJob` refuses and restoring it will die at each restart (`:72`).
`ActiveGetsTimer` claims timers only while all active rows are `Bootable`.

## The runs

| run | instance | shows |
| --- | --- | --- |
| `ledger` | 2 requests, 2 balances, 7 handlers that may be sent any number of times: a two-line receipt, its void in the other order of lines, its edit, another receipt, an issue and its void, a zero quantity | the ledger's invariants, and that it implements `AtomicLedger` |
| `ledger_rekey` | a receipt and two edits of it that number their keys alike | violation: a balance change without its log |
| `sales_races` | 2 concurrent requests, 2 documents of each kind, one price, an order of 1 without and of 2 with factory numbers, at most 1 edit of an order, no new request from 4 logs on | all invariants of `SalesStock`, and that it implements `StockBooks` |
| `sales_histories` | 1 request at a time, two prices, orders of one and two lines, 2 edits of an order, no new request from 6 logs on | the invariants that depend on long histories of a line |
| `sales_stale_edit` | as `sales_races`, without `oneRequestPerDocument` | violation: a line and its posting differ after two overlapping edits |
| `sales_returned_source` | 1 request at a time, without `noVoidOfReturnedSource` | violation: a reversed layer is in use |
| `sales_consumed_return` | 1 request at a time, without `noVoidOfConsumedReturn` | violation: stock that no layer offers |
| `materials` | six setups: a receipt edited, voided and decided on while it is picked; supplier returns against picks and edits; returns of a pick against its edit and void (2 requests at a time each); edited returns over two layers; named sources; edits of lines with two prices (1 at a time) | all invariants of `Materials` (147,503 states) |
| `rd` | six setups: actions, rollbacks and voids on one request line; handoffs, scraps and returns of one line with requests sent twice; project picks and returns against each other and the void of the handoff (2 requests at a time each); round trips through both stores; scraps and stocktakes; the life of a project (1 at a time) | the invariants of `RdMaterials` (203,477 states) |
| `scheduler` | five installations: two users at one job; a job of a user's own with a crash; a change of policy while it runs, with a crash; three backups with two crashes; two backups side by side | invariants and liveness of `Scheduler` (94,879 states) |
| `sessions` | three installations, 2 requests at a time: one session used, refreshed and ended; a user changed while the session is used; a user changed while a crash, a failed rewrite or a loss of Redis happens | invariants and liveness of `Sessions` and `RbacState` (191,546 states) |
| `rbac_lost_change` | one change, two requests, no fault | violation: a change that was answered is not in the tables |

Why the bounds are enough. Two transactions at a time show every pairwise race;
that a third adds nothing for the ledger is what the proofs show. The quantities are
such that the stock covers one of two requests but not both, and that a layer is used
in part, in whole and not at all; an order or pick of 2 can take from two layers.
`MaxPostings` (and `postings`, `events` in the setups) is a guard on new requests
only: requests in flight finish, so a run with 4 holds up to 7 logs. `MaxRevision`
bounds edits: two of them are needed for a range that changes and changes back, which
the unique index of the released row then refuses. The setups of `materials`, `rd`,
`scheduler` and `sessions` split the operations into groups that meet on the same
rows, since what does not meet does not interfere; the last setup of `rd` has
everything that draws on the R&D store in one history. In `sessions` a time of 2
with a threshold of 1 and a maximum of 3 has a session that is prolonged once in full
and once in part. In `scheduler` three backups with a retention of one are what is
needed for a partial dump to push a whole one out, if the code did that in the wrong
order.

Documents, postings and histories run out, so the runs of the document families come
to rest and are not checked for deadlock; nor is `sessions`, where all sessions may
have ended. In `InventoryLedger` a request can always be rolled back and sent again,
and in `Scheduler` the bounded counters never stop the requests: deadlock is checked.

## The properties

`InventoryLedger`: `LedgerReplays` (one log per row version, each starting where
the one before ended, the last ending at the balance), `NeverNegative` (also at
every point of the history), `ReversedAtMostOnce` (whatever keys the callers use),
`ImplementsAtomicLedger`.

`SalesStock`: `LayersMatchBalance` (the layers on offer hold exactly the stock on
hand), `SourcesCoverTheirUses` (no layer promised beyond what it has, none after
its reversal), `LinesMatchLedger` (one posting in force per line with its quantity
and price, claims equal to what was not returned), `VoidedIsUndone`,
`ReturnsHaveTheirOrder`, `FactoryNumbersMatchLines`, `ApprovalFollowsDocument`,
`ImplementsStockBooks`.

`Materials`: `LayersMatchBalance`, `DocumentsMatchLedger` (a log in force for each
line of a document in force and none for a voided one, and each taking line claims
exactly what was not given back), `DecisionsFitDocuments` (a decision stands only on
the revision that was read, and never on a voided document).

`RdMaterials`: `BucketsMatchHistories` (the buckets are what the histories in force
add up to, a rolled back history has one rollback; it covers the types as well, so
there is no `TypeOK`), `StatusesMatchStores` (what the requests call handed off is
what the R&D layers hold or the project has picked; what the project holds is what
its picks say less what came back; both balances are their layers, except for what
stocktakes in force counted), `DocumentsMatchStatuses` (a handoff or scrap in force
has moved its lines once in the stock and once in the statuses, returns have carried
back what is called returned, a token made one document, a voided project has nothing
in force).

`Scheduler`: `TimersMatchRows`, `ForbidExcludes`, `BackupSurvives` (once a backup was
made a whole one is there, whatever fails or crashes later), and the liveness
properties `RunsEnd` (a job does not stay marked as running) and `ActiveGetsTimer`.

`Sessions` and `RbacState`: `CalmChangesKept` (an answered change is in the tables),
`SnapshotIsCurrent` (a snapshot with the version of the tables has every change that
was rewritten since, except those that another load crossed; a change whose rewrite
was refused is not claimed, since a snapshot may even bring it back), `FreshUser`
(who passed the guard is shown with every change answered before he came),
`EndedStaysEnded`, `TokenIsLatest`, `NoLongerThanMax`, and the liveness properties
`RequestsEnd` and `SessionsEnd`.

## Fairness

The document families assume none: the server retries nothing on its own and
promises no request an answer, and their properties are safety.

`Scheduler` has weak fairness on the steps of a request and of a run, because Node.js
runs every continuation and the executors end (the backup's dump is a child process
whose end or failure settles a promise), and on restart and boot, because the service
is started again when it went down. `Sessions` has weak fairness on the steps of each
request, on the rewrite, whose transaction ends or times out after five seconds, and
on `Tick`. No fairness is assumed of users, of crashes, of Redis losses or of failing
rewrites.

## The proofs

All of them hold for any sets of requests, balances, keys, commands, jobs, runs,
changes and sessions, and for any setups; the constants are assumed to be what the
modules' ASSUMEs say, and TLC evaluates these on every run. Each invariant below was
checked by TLC before it was proved: that of `RbacState` on 2 requests, 2 changes and 2
faults to the end (728,411 states) and on 3 of each in part, that of `Sessions` on the
setups of its run.

**The ledger** (`InventoryLedgerProofs.tla`).

- `TypeCorrect`: `Spec => []TypeOK`;
- `LedgerAlwaysReplays`, `StockNeverNegative`, `NoSecondReversal`: the three
  invariants above, assuming `KeysDetermineCommand` (a key never stands for two
  commands). The assumption is needed: `ledger_rekey` is the counterexample
  without it;
- `LedgerImplementsAtomic`: `Spec => ImplementsAtomicLedger`, under the same
  assumption.

None of the invariants is inductive. `Inv` adds what the transactions in flight know:
`ReadInv` (a snapshot is a past of the committed ledger, and for a row that the
transaction holds it is the present), `WriteInv` (what it has written continues the
committed ledger: the rows it holds and the logs it has added, or has still to add,
chain up), `CallInv` (the log row of the command in progress fits what was read),
`Apart` (two transactions hold no balance row and no index entry in common), and
`StoreInv` for the committed rows, which also says that every log is what a command
asked for and every reversal the opposite of a log. Each action has a lemma, `CommitInv`
being the long one: the committed rows take over what `WriteInv` says, and every other
transaction's snapshot stays a past of them. That the optimistic update sees an
unchanged row makes the chain continue; that P2002 after the balance has moved
cannot end in success needs `KeysDetermineCommand` (`NoConflictAfterBalance`).

The refinement rests on `Inv` in both states of a step. Only `Commit` changes what is
mapped, and it adds logs (`CommitsOnly`); what the abstract ledger says of one state
(`Kept`) follows from `Inv`. The part that is not in `Inv` is that the stock is the
sum of the postings: the logs of a balance are a chain from 0, so their changes add up
to the `after` of the last (`ChainTotal`), by induction over the row versions. The
library's induction theorems cannot be used here; `SumsOverSets.tla` instead takes a
smallest counterexample, from the well-foundedness of the natural numbers and of
finite sets under inclusion, and shows what the recursive function under the library's
folds returns for every finite set (`SumUnfolds`, `SumStep`, `SumWithout`).

**Folds** (`FoldInduction.tla`). The transaction bodies are folds over lines, logs and
source layers, and the library's induction theorems cannot be used here: they take an
operator as a parameter. `FoldInduction` has the step, the order and the claim as
CONSTANTS, and an instance of it is an induction of one's own. Its lemmas say nothing of
this system, and are only what the theorems rest on. `Induction` is for a fold
over a finite set, in any order of choice, `SeqInduction` for one over a sequence; both
take a smallest counterexample. The module is instantiated some twenty times, so it
extends next to nothing: that there is a smallest counterexample (`Founded`, for a sequence
`Latest` as well) is a premise, which `FiniteFounded` and `PositionsFounded` of
`SumsOverSets` settle for every finite set and every sequence. `DocumentProofs.tla`,
`SalesStockProofs.tla` and `RdMaterialsProofs.tla` instantiate it with what a transaction
keeps.

**Sales** (`SalesStockProofs.tla`). `ApprovalHolds` and `FactoryNumbersHold`: the
approval document of every document says what its audit snapshot says and is closed just
when the document is voided, and the numbers that are held are those of the lines in
force, each once. Both are for any sets of documents, requests and forms, and assume
`oneRequestPerDocument` and none of the other three rules.

- What a body leaves alone. `DocumentProofs` says of every command on the stock that it
  keeps its hands off the documents, their lines, numbers and approval rows, in the
  snapshot and in the current rows, and that it never turns a failed transaction into a
  good one (`After`). The folds over layers and logs inherit it.
- What a body does. `Fit` says that rows are well formed: every line is of an order, no
  id is used twice or above the last one (`Papers`); a number that is held is that of a
  line of an order in force, and each such line with a range holds its own (`Numbered`).
  Each of the seven bodies is shown to end `Done`: the current rows are well formed
  again, the status, the audit and the approval of its document agree, and nothing of
  another document has changed (`Touches`). The edit is the long one: in the middle of
  it some lines are dropped and others already written, and `NamedOnce` (two lines of
  the form never name the same line of the order) keeps the numbers of one apart from
  those of the next.
- `Known` is the inductive invariant: the committed rows are well formed (`Kept`), two
  requests in flight are for two documents, each finds its document in the state that it
  was read in (`Placed`), and a snapshot has the lines of the document of its request as
  the committed rows have them (`Editable`). That is where `oneRequestPerDocument` is needed: a
  transaction writes by what its snapshot says of its own document, so a second one on
  the document in between would release the numbers of lines that the first has already
  replaced. TLC checked `Known` on `sales_races` (170,012 states) and `sales_histories`
  (262,456) before it was proved.

**The R&D sub-warehouse** (`RdMaterialsProofs.tla`). `BucketsHold`: the buckets of every
procurement request are never negative, add up to what was asked for, and are what its
histories in force say, and a history that was rolled back has exactly one rollback. It
is for any sets of requests, documents and processes, any forms and stores, and needs
none of the four rules: in whatever order requests are sent, begun, committed or
rolled back, and however old a snapshot is. `RdAssumption` says what the setups are:
layers, quantities and lines of natural numbers, lines of requests that there are,
documents of a kind each.

- Sums. `Explained` is what the property says of one request: bucket `s` is the sum of
  the histories into `s` less that of those out of it. A row that is added with the
  quantity that its two buckets moved by, and a row in force that is undone with the
  quantity moved back, keep it (`ExplainedWith`, `ExplainedWithout`); a row with the
  same endpoints and quantity may take the place of another (`ExplainedReplaced`), so the
  marks that a rollback and a manual return leave on a row change nothing.
- The ledger, `Ledgered`: the histories explain the buckets of every request, have ids of
  their own (`Counted`), and a rollback belongs to a history that is marked, one for each
  (`OneRollback`).
- The operators. `Transfer` and `ReverseHistory` keep `Booked`: if the transaction is not
  lost, what it has committed so far is `Ledgered` and its snapshot's histories are a past
  of the committed ones (`Grows`: each of them is still there, with its endpoints and
  quantity, if perhaps marked since). The snapshot's own buckets need not be
  explained by its histories, and are not assumed to be: the guarded update of the
  buckets (`SameBuckets`) makes a transaction that read old ones fail, so that one which
  goes on has moved the committed ones, and a rollback of a row that another has rolled
  back in the meantime falls to the unique index. `TransferRuns` follows the pieces
  that a transfer draws from its sources, first the draws (`DrawnPieces`), then the rows
  and moves (`Explains`, `PiecesLead`).
- Commands and bodies. `Runs` is what every command keeps, also those on the two stores,
  which do not touch the ledger; a loop over lines, logs or pieces inherits it by an
  instance of `FoldInduction`. `Does` is what each of the bodies keeps of its
  document: statuses of other documents, no status back to `none`, lines with ids of
  their own whose requests exist (`Sound`).
- `RdKnown` is the inductive invariant: the committed rows are `Current` (well formed,
  `Ledgered`, their lines name requests that exist), what a request in flight asks for
  is possible (`Fits`), its snapshot is a past of the committed rows (`Past`), and no two
  processes create the same procurement request. That is what makes the buckets that a
  creation writes the first of their request. TLC checked it on the setups of run `rd`
  (203,477 states) before it was proved.

**The scheduler** (`SchedulerProofs.tla`). `TypeCorrect`, `ForbidIsExclusive`,
`BackupsSurvive`, `TimersAreRows` are the four invariants.

- `Types` adds to `TypeOK` what a request knows at each step, and that an `old` row
  has no later `lastRun` than the clock: without it, a restored row could be from the
  future.
- `OneRun`: a job that is not `loosened` has at most one run, and is marked as running
  while it has one.
- `BackupInv`, while no two backups were `shared`: the run that makes one works on the
  last file, which is partial while it is dumped, whole from then on, and never among
  the run's victims; a whole file is there once one was made.
- `TimersInv`: in a server that is up, a job has at most one request changing it
  unless it is `tangled`, the request knows the row that it wrote, and with no such
  request the timer is the row's; at a restart a job is still in the list, as its row
  is, or its timer is made; a process that is down has none.

**Users and roles** (the first part of `SessionsProofs.tla`). `RbacTypeCorrect`, `ChangesAreKept`,
`SnapshotsAreCurrent`. `RbacSafe` says, of changes that were not crossed: one that waits
is in the process and no request is loading (`PendingSafe`); one that was rewritten is
in the tables, in the process, in a snapshot of the tables' version, in what is being
written, and in whatever a load has already read and may put back (`WrittenSafe`).

**Sessions** (the rest of `SessionsProofs.tla`). `SessionsTypeCorrect`, `UsersAreFresh`,
`EndedStay`, `TokensAreLatest`, `MaximumIsKept`, and the two properties of `RbacState`
again, since every step of `Sessions` is one of `RbacStep` or leaves the copies alone.
`SessionsSafe` adds to `RbacSafe` what a request holds at each step (`StepFits`), that a
copy of a session is fit to be stored (`CopyFits`: the maximum and, unless
overlapped, the token of the session, which was not ended for good), that the copies of
a session agree (`PairFits`), and the same of the records (`StoreFits`).

Only model-checked. Liveness (`RunsEnd`, `ActiveGetsTimer`, `RequestsEnd`,
`SessionsEnd`), which rests on fairness and ENABLED and is out of the prover's reach.
Of
`SalesStock` the invariants on layers, claims and postings (`LayersMatchBalance`,
`SourcesCoverTheirUses`, `LinesMatchLedger`, `VoidedIsUndone`, `ReturnsHaveTheirOrder`),
its `TypeOK`, which bounds the released part of a claim, and the refinement of
`StockBooks`; the invariants of `Materials`; and of `RdMaterials` those on the stores and
documents (`StatusesMatchStores`, `DocumentsMatchStatuses`). They need what the
commands do to the stock, where the proofs so far need what they leave alone or what
they do to the status ledger; the folds can be reasoned about by the same instances. No module has a RECURSIVE operator.

## What is abstracted

Stock. One material and one date of business, so a store has one balance row, there
from the start (its creation is in `InventoryLedger`) and layers are ordered by log
id. Costs, project targets, names and snapshots of master data are left out, and an
order line has at most one range of numbers. Document numbers are not modelled: a
conflict there rolls the transaction back and tries anew. Ids are handed out in order
(`Fresh`). In `SalesStock` a receipt and a return have one line.

`Materials`. A pick posts line by line, where the code writes all lines and then
settles them: the ids and the effects are the same. Edits also repost when the
material or the date of a line changes, and a receipt's when its project does; the
models have one of each. A return line that names a source without its type is not
modelled: it is posted as a standalone layer, but its void and edit give a source
back all the same. `approve`, `reject` and `reset` write the approval row only, not
the audit snapshot of the document.

`RdMaterials`. One project, one material, one line per request; the main layers are
given at the start. Receipts no longer link to requests
(`inbound-acceptance-line-snapshot.service.ts:50`), so acceptance reaches the statuses
by the manual action only. The line of a manual return's posting stands for the `:hist:`
marker in the code's keys. A handoff and a return lock the two balances in opposite
orders and may deadlock; InnoDB rolls one back, which is `Rollback`. A handoff asks for
its project before its transaction and again for each line in it, which is one question
to one snapshot (`rd-handoff.service.ts:379`).

`Scheduler`. The scheduler is enabled. Failures of the database other than a crash of
the process are not modelled, except that writing the log of a run that a timer
started may fail, which nobody handles and which ends the process: that is a `Crash`.
That `CronJob` refuses an expression is external (`Refuses`).

`Sessions`. One process. Using a fresh snapshot and acting on it happen without an
`await` in between and are one step. The thirteen aggregates that the version of the
tables is made of (`rbac-persistence.repository.ts:569`) are read in one step; one put
together from before and after a rewrite differs from both, and makes a load that meets
it read the tables. A request that changed a user waits for the
rewrite that it queued; `flushPersistence` waits for the latest one queued, which is a
later one when another change was queued in between. Captcha, the counter of wrong passwords with its
lockout, the enrichment of the user with routes and Redis failing in the middle of a
request are left out; so is the seeding of the tables.

## Not modelled

- Price corrections: a correction names a workshop that must be the one of the
  receipt's log (`stock-in-price-correction.service.ts:330`, `:414`), and no stock
  command writes a workshop on a log; its own postings name no stock scope, which
  `StockScopeCompatibilityService` refuses. With stock left to correct it never
  commits (`docs/requirements/domain/inbound-business-module.md:151` and `:153` describe it as
  working).
- The register of R&D projects and its bill of materials, the binding of procurement
  items to materials, demand lists, statuses of old lines without a ledger.
- `sales-project`, `master-data`: single rows under unique indexes.
- `reporting`, monthly snapshots, `audit-log`, `file-storage`, `ai-assistant`: they read
  the stock and write files or rows of their own.
- The web client, which is the environment of the models. It is the larger part of the
  repository's lines; what remains of the server that keeps state between steps is
  listed above.

## The plan

`ApprovalFollowsDocument` and `FactoryNumbersMatchLines` of `SalesStock` and
`BucketsMatchHistories` of `RdMaterials` are proved; what is left, in order:

1. `SourceLayers`: what `SettleFromSource`, `ReleaseInventorySource`, `IncreaseStock`
   and `ReverseStock` keep of the logs and usages, for any transaction. Then
   `VoidedIsUndone` and `TypeOK` of `SalesStock`, where the key is that a snapshot whose
   balance has the committed row version has the committed logs and usages too.
2. `DocumentsMatchStatuses` and `StatusesMatchStores`, from `RdKnown` and the first item.
3. `Materials`, along the same lines.
4. `CostAllocation`: the cumulative rounding of cost pieces as pure operators.
