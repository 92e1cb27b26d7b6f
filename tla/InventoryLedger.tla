--------------------------- MODULE InventoryLedger ---------------------------
(***************************************************************************)
(* The stock ledger of inventory-core, statement by statement: the balance *)
(* rows, the inventory_log rows and the database transactions that write   *)
(* them through InventoryStockMutationService.                             *)
(*                                                                         *)
(* A business handler opens one MySQL transaction (REPEATABLE READ), calls *)
(* increaseStock, decreaseStock and reverseStock in a row, and commits     *)
(* when all of them returned.  Plain reads see the snapshot taken when the *)
(* transaction began plus its own writes; the optimistic UPDATE of a       *)
(* balance and the unique indexes of inventory_log act on the current      *)
(* rows, and wait for the other transactions that hold them.               *)
(***************************************************************************)
EXTENDS Integers, Sequences

CONSTANTS
    Procs,      \* concurrent requests, each with its own transaction
    Balances,   \* inventory_balance rows: one per (material, stock scope)
    Keys,       \* idempotency keys
    NoKey,      \* the null of reversalOfLogId
    Commands,   \* the stock commands that handlers may issue
    Handlers,   \* the handlers: each the sequence of commands it issues
    NoCall      \* no stock command in progress

Ops == {"increase", "decrease", "reverse"}

\* IncreaseStockCommand, DecreaseStockCommand and ReverseStockCommand.  A
\* reversal takes its balance and quantity from the log it reverses, "of".
Command == [key : Keys, op : Ops, bal : Balances, qty : Int,
            of : Keys \cup {NoKey}]

ASSUME CommandsAssumption ==
    /\ Commands \subseteq Command
    /\ NoKey \notin Keys
    /\ Handlers \subseteq Seq(Commands)

\* What the callers owe the ledger: one key never stands for two commands.
KeysDetermineCommand ==
    \A c, d \in Commands : c.key = d.key => c = d

Row == [exists : BOOLEAN, qty : Int, ver : Nat]
NoRow == [exists |-> FALSE, qty |-> 0, ver |-> 0]

\* An inventory_log row.  "change" is changeQty signed by the direction;
\* "ver" is history: the row version that the posting gives its balance.
\* It orders the logs of a balance as their auto-increment ids do.
LogRow == [key : Keys, bal : Balances, change : Int \ {0}, before : Int,
           after : Int, ver : Nat, rev : Keys \cup {NoKey}]

VARIABLES
    balance,    \* committed inventory_balance rows
    logs,       \* committed inventory_log rows
    pc,         \* where each request is
    rows,       \* balance rows as the request's transaction reads them
    seen,       \* log rows as the request's transaction reads them
    written,    \* balance rows the transaction has written and holds locked
    added,      \* log rows the transaction has inserted
    call,       \* the log row that the stock command in progress posts
    script      \* stock commands the handler has still to issue

committed == <<balance, logs>>
vars == <<balance, logs, pc, rows, seen, written, added, call, script>>

Init ==
    /\ balance = [b \in Balances |-> NoRow]
    /\ logs = {}
    /\ pc = [p \in Procs |-> "idle"]
    /\ rows = [p \in Procs |-> [b \in Balances |-> NoRow]]
    /\ seen = [p \in Procs |-> {}]
    /\ written = [p \in Procs |-> {}]
    /\ added = [p \in Procs |-> {}]
    /\ call = [p \in Procs |-> NoCall]
    /\ script = [p \in Procs |-> <<>>]

-----------------------------------------------------------------------------
(* What one transaction reads and holds.                                   *)

\* findLogByIdempotencyKey and findReversalLogBySourceLogId on a set of logs.
HasKey(L, k) == \E l \in L : l.key = k
HasReversalOf(L, k) == \E l \in L : l.rev = k

\* The row that an UPDATE of p finds: its own write, else the committed one.
Current(p, b) == IF b \in written[p] THEN rows[p][b] ELSE balance[b]

RowFree(p, b) == \A q \in Procs \ {p} : b \notin written[q]

\* Two log rows that a unique index of inventory_log keeps apart.
Clash(l, m) == l.key = m.key \/ (l.rev # NoKey /\ l.rev = m.rev)

LogFree(p, l) == \A q \in Procs \ {p} : \A m \in added[q] : ~Clash(l, m)

\* The transaction is over: nothing is held and nothing is remembered.
Forget(p) ==
    /\ pc' = [pc EXCEPT ![p] = "idle"]
    /\ rows' = [rows EXCEPT ![p] = [b \in Balances |-> NoRow]]
    /\ seen' = [seen EXCEPT ![p] = {}]
    /\ written' = [written EXCEPT ![p] = {}]
    /\ added' = [added EXCEPT ![p] = {}]
    /\ call' = [call EXCEPT ![p] = NoCall]
    /\ script' = [script EXCEPT ![p] = <<>>]

\* An exception leaves the handler and $transaction rolls back.
Throw(p) == Forget(p) /\ UNCHANGED committed

\* The command returns to the handler, which goes on in the transaction.
Return(p) ==
    /\ pc' = [pc EXCEPT ![p] = "open"]
    /\ call' = [call EXCEPT ![p] = NoCall]

-----------------------------------------------------------------------------
(* The transaction of a business handler.                                  *)

\* PrismaService.runInTransaction: the first read fixes the snapshot.
Begin(p, h) ==
    /\ pc[p] = "idle"
    /\ pc' = [pc EXCEPT ![p] = "open"]
    /\ rows' = [rows EXCEPT ![p] = balance]
    /\ seen' = [seen EXCEPT ![p] = logs]
    /\ script' = [script EXCEPT ![p] = h]
    /\ UNCHANGED <<committed, written, added, call>>

Commit(p) ==
    /\ pc[p] = "open"
    /\ script[p] = <<>>
    /\ balance' = [b \in Balances |-> Current(p, b)]
    /\ logs' = logs \cup added[p]
    /\ Forget(p)

\* A crash, a transaction timeout or the choice of the deadlock detector.
Rollback(p) == pc[p] # "idle" /\ Throw(p)

-----------------------------------------------------------------------------
(* The stock commands up to their first write: the reads of one snapshot.  *)

\* The log row posted on balance b as the transaction reads it.
LogFor(p, c, b, change, rev) ==
    [key |-> c.key, bal |-> b, change |-> change,
     before |-> rows[p][b].qty, after |-> rows[p][b].qty + change,
     ver |-> rows[p][b].ver + 1, rev |-> rev]

Ready(p) == pc[p] = "open" /\ script[p] # <<>>

Issue(p) == Ready(p) /\ script' = [script EXCEPT ![p] = Tail(@)]

Start(p, step, l) ==
    /\ Issue(p)
    /\ pc' = [pc EXCEPT ![p] = step]
    /\ call' = [call EXCEPT ![p] = l]
    /\ UNCHANGED <<committed, rows, seen, written, added>>

ReturnExisting(p) ==
    /\ Issue(p)
    /\ UNCHANGED <<committed, pc, rows, seen, written, added, call>>

Refuse(p) == Ready(p) /\ Throw(p)

\* toPositiveQuantity (mutation: zero is accepted).
PositiveOrZero(c) == c.qty >= 0
Positive(c) == c.qty > 0

\* increaseStock: the balance row is created when the snapshot has none.
IncreaseStock(p, c) ==
    /\ c.op = "increase"
    /\ \/ HasKey(seen[p], c.key) /\ ReturnExisting(p)
       \/ ~HasKey(seen[p], c.key) /\ ~Positive(c) /\ Refuse(p)
       \/ /\ ~HasKey(seen[p], c.key)
          /\ Positive(c)
          /\ Start(p, IF rows[p][c.bal].exists THEN "cas" ELSE "create",
                   LogFor(p, c, c.bal, c.qty, NoKey))

\* The balance must exist and must not fall below zero (mutation: no check).
Exists(row, n) == row.exists
Covers(row, n) == row.exists /\ row.qty >= n

\* decreaseStock.
DecreaseStock(p, c) ==
    LET granted == Positive(c) /\ Covers(rows[p][c.bal], c.qty)
    IN  /\ c.op = "decrease"
        /\ \/ HasKey(seen[p], c.key) /\ ReturnExisting(p)
           \/ ~HasKey(seen[p], c.key) /\ ~granted /\ Refuse(p)
           \/ /\ ~HasKey(seen[p], c.key)
              /\ granted
              /\ Start(p, "logFirst", LogFor(p, c, c.bal, 0 - c.qty, NoKey))

\* The signed change of a reversal (mutation: the direction is not flipped).
SameDirection(src) == src.change
Opposite(src) == 0 - src.change

\* reverseStock: the source log is read from the snapshot; an existing
\* reversal of it is returned whatever its key.
ReverseStock(p, c) ==
    LET done == HasKey(seen[p], c.key) \/ HasReversalOf(seen[p], c.of)
    IN  /\ c.op = "reverse"
        /\ \/ HasKey(seen[p], c.key) /\ ReturnExisting(p)
           \/ ~HasKey(seen[p], c.key) /\ ~HasKey(seen[p], c.of) /\ Refuse(p)
           \/ \E src \in seen[p] :
                 /\ src.key = c.of
                 /\ ~HasKey(seen[p], c.key)
                 /\ \/ done /\ ReturnExisting(p)
                    \/ ~done /\ rows[p][src.bal].qty + Opposite(src) < 0 /\ Refuse(p)
                    \/ /\ ~done
                       /\ rows[p][src.bal].qty + Opposite(src) >= 0
                       /\ Start(p, "logFirst",
                                LogFor(p, c, src.bal, Opposite(src), c.of))

-----------------------------------------------------------------------------
(* Their writes: each is one statement on the current rows.                *)

\* A unique index refused an insert (P2002).  The statement has no effect
\* but the transaction lives on; the log with the key, or the reversal, is
\* looked up on another connection, and when it is there the command ends
\* as if it had posted it.
ResolveConflict(p) ==
    LET found == \E l \in logs : Clash(call[p], l)
    IN  \/ /\ found
           /\ Return(p)
           /\ UNCHANGED <<committed, rows, seen, written, added, script>>
        \/ ~found /\ Throw(p)

\* findOrCreateBalance: when another transaction has created the row since
\* the snapshot, the second read in the same snapshot still finds nothing.
CreateBalance(p) ==
    LET b == call[p].bal
    IN  /\ pc[p] = "create"
        /\ RowFree(p, b)
        /\ \/ balance[b].exists /\ ResolveConflict(p)
           \/ /\ ~balance[b].exists
              /\ rows' = [rows EXCEPT ![p][b] =
                            [exists |-> TRUE, qty |-> 0, ver |-> 0]]
              /\ written' = [written EXCEPT ![p] = @ \cup {b}]
              /\ pc' = [pc EXCEPT ![p] = "cas"]
              /\ UNCHANGED <<committed, seen, added, call, script>>

\* WHERE id = ... AND rowVersion = the version read (mutation: id only).
RowIsThere(now, l) == now.exists
RowUnchanged(now, l) == now.exists /\ now.ver + 1 = l.ver

\* count # 1 is a ConflictException (mutation: the count is not looked at).
IgnoreConflict(p) ==
    Return(p) /\ UNCHANGED <<committed, rows, seen, written, added, script>>
Conflict(p) == Throw(p)

\* updateBalanceOptimistically, one UPDATE on the current row.  increaseStock
\* posts the balance before its log, the others after.
UpdateBalance(p) ==
    LET b == call[p].bal
        now == Current(p, b)
        matches == RowUnchanged(now, call[p])
    IN  /\ pc[p] \in {"cas", "casLast"}
        /\ RowFree(p, b)
        /\ \/ ~matches /\ Conflict(p)
           \/ /\ matches
              /\ rows' = [rows EXCEPT ![p][b] =
                            [exists |-> TRUE, qty |-> call[p].after,
                             ver |-> call[p].ver]]
              /\ written' = [written EXCEPT ![p] = @ \cup {b}]
              /\ \/ pc[p] = "casLast" /\ Return(p)
                 \/ /\ pc[p] = "cas"
                    /\ pc' = [pc EXCEPT ![p] = "log"]
                    /\ UNCHANGED call
              /\ UNCHANGED <<committed, seen, added, script>>

\* inventoryLog.create.
InsertLog(p) ==
    /\ pc[p] \in {"log", "logFirst"}
    /\ LogFree(p, call[p])
    /\ \/ (\E l \in logs : Clash(call[p], l)) /\ ResolveConflict(p)
       \/ /\ ~ \E l \in logs : Clash(call[p], l)
          /\ added' = [added EXCEPT ![p] = @ \cup {call[p]}]
          /\ seen' = [seen EXCEPT ![p] = @ \cup {call[p]}]
          /\ \/ pc[p] = "log" /\ Return(p)
             \/ /\ pc[p] = "logFirst"
                /\ pc' = [pc EXCEPT ![p] = "casLast"]
                /\ UNCHANGED call
          /\ UNCHANGED <<committed, rows, written, script>>

Next ==
    \E p \in Procs :
        \/ \E h \in Handlers : Begin(p, h)
        \/ Commit(p)
        \/ Rollback(p)
        \/ CreateBalance(p)
        \/ UpdateBalance(p)
        \/ InsertLog(p)
        \/ Ready(p) /\ IncreaseStock(p, Head(script[p]))
        \/ Ready(p) /\ DecreaseStock(p, Head(script[p]))
        \/ Ready(p) /\ ReverseStock(p, Head(script[p]))

Spec == Init /\ [][Next]_vars

-----------------------------------------------------------------------------
(* Properties.                                                             *)

Steps == {"idle", "open", "create", "cas", "log", "logFirst", "casLast"}

\* Every variable has its type; a command in progress has a log row to post.
TypeOK ==
    /\ balance \in [Balances -> Row]
    /\ logs \subseteq LogRow
    /\ pc \in [Procs -> Steps]
    /\ rows \in [Procs -> [Balances -> Row]]
    /\ seen \in [Procs -> SUBSET LogRow]
    /\ written \in [Procs -> SUBSET Balances]
    /\ added \in [Procs -> SUBSET LogRow]
    /\ call \in [Procs -> LogRow \cup {NoCall}]
    /\ script \in [Procs -> Seq(Commands)]
    /\ \A p \in Procs :
          pc[p] \notin {"idle", "open"} => call[p] \in LogRow

LogsOf(L, b) == {l \in L : l.bal = b}

\* The logs of a balance are the history of its row: one log per version,
\* each starting where the one before ended, the last ending at the row.
Chained(row, L) ==
    /\ ~row.exists => row.ver = 0
    /\ row.ver = 0 => row.qty = 0
    /\ \A l \in L : l.ver \in 1..row.ver /\ l.after = l.before + l.change
    /\ \A n \in 1..row.ver : \E l \in L : l.ver = n
    /\ \A l, m \in L : l.ver = m.ver => l = m
    /\ \A l, m \in L : m.ver = l.ver + 1 => m.before = l.after
    /\ \A l \in L : l.ver = 1 => l.before = 0
    /\ \A l \in L : l.ver = row.ver => l.after = row.qty

\* No committed balance change is without its log and no log without its
\* balance change: inventory_balance and inventory_log tell one story, which
\* the before/after quantities of the logs replay without a gap.
LedgerReplays == \A b \in Balances : Chained(balance[b], LogsOf(logs, b))

\* Stock is never negative, in a balance or at any point of its history.
NeverNegative ==
    /\ \A b \in Balances : balance[b].qty >= 0
    /\ \A l \in logs : l.before >= 0 /\ l.after >= 0

\* A log is reversed at most once, on its own balance and by its exact
\* opposite, and never before it is there: whatever keys the callers use.
ReversedAtMostOnce ==
    /\ \A l, m \in logs : l.rev # NoKey /\ l.rev = m.rev => l = m
    /\ \A l \in logs : l.rev # NoKey =>
          \E src \in logs : /\ src.key = l.rev
                            /\ src.bal = l.bal
                            /\ src.change = 0 - l.change

\* Every committed change of a balance has its log (the row version counts
\* the changes): the part of LedgerReplays that the documentation states.
EveryChangeLogged ==
    \A b \in Balances : \A n \in 1..balance[b].ver :
        \E l \in LogsOf(logs, b) : l.ver = n

\* The statement-level ledger implements the atomic one: the postings of a
\* transaction take effect together at its commit, each at most once.
Promise == INSTANCE AtomicLedger WITH
    onHand <- [b \in Balances |-> balance[b].qty],
    posted <- logs
ImplementsAtomicLedger == Promise!Spec
=============================================================================
