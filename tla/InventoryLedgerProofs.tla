------------------------ MODULE InventoryLedgerProofs ------------------------
(***************************************************************************)
(* Safety of the statement-level ledger, for any number of requests,       *)
(* balances, keys and handlers: type correctness, the ledger replays, no   *)
(* negative stock, no second reversal; and that it implements the abstract *)
(* ledger, whose stock on hand is the sum of what was posted.              *)
(***************************************************************************)
EXTENDS InventoryLedger, SumsOverSets

Busy(p) == pc[p] # "idle"
InCall(p) == pc[p] \in Steps \ {"idle", "open"}

\* The logs whose change is in the balances as p has them: a log inserted
\* ahead of its balance is not in yet, a balance ahead of its log counts.
Posted(p) ==
    IF pc[p] = "log" THEN logs \cup added[p] \cup {call[p]}
    ELSE IF pc[p] = "casLast" THEN (logs \cup added[p]) \ {call[p]}
    ELSE logs \cup added[p]

\* A log that some command asks for.
Commanded(l) == \E c \in Commands : Promise!Asks(c, l)

\* A reversal opposes a log of L, on the same balance.
Opposed(l, L) ==
    l.rev # NoKey => \E src \in L : /\ src.key = l.rev
                                    /\ src.bal = l.bal
                                    /\ src.change = 0 - l.change

GoodLog(l, L) == l.before >= 0 /\ l.after >= 0 /\ Commanded(l) /\ Opposed(l, L)

GoodRow(row) ==
    /\ row.qty >= 0
    /\ ~row.exists => row.ver = 0
    /\ row.ver = 0 => row.qty = 0

NoClash(L) == \A l, m \in L : l # m => ~Clash(l, m)

\* What is committed.
StoreInv ==
    /\ \A b \in Balances : GoodRow(balance[b])
    /\ LedgerReplays
    /\ \A l \in logs : GoodLog(l, logs)
    /\ NoClash(logs)

\* What a transaction reads: its snapshot is a past of the committed state,
\* and the committed state itself where the transaction holds the row.
ReadInv(p) ==
    /\ added[p] \subseteq seen[p]
    /\ seen[p] \subseteq logs \cup added[p]
    /\ \A b \in Balances : GoodRow(rows[p][b])
    /\ \A b \in written[p] :
          /\ rows[p][b].exists
          /\ LogsOf(logs, b) \subseteq seen[p]
    /\ \A b \in Balances \ written[p] :
          /\ rows[p][b].ver <= balance[b].ver
          /\ rows[p][b].exists => balance[b].exists
          /\ rows[p][b].ver = balance[b].ver => rows[p][b].qty = balance[b].qty
          /\ \A l \in LogsOf(logs, b) : l.ver <= rows[p][b].ver => l \in seen[p]

\* What a transaction has written: a continuation of the committed ledger.
WriteInv(p) ==
    /\ \A b \in written[p] : Chained(rows[p][b], LogsOf(Posted(p), b))
    /\ \A b \in Balances \ written[p] : LogsOf(Posted(p), b) = LogsOf(logs, b)
    /\ \A l \in added[p] : GoodLog(l, logs \cup added[p])
    /\ NoClash(logs \cup added[p])

\* The log row of the command in progress fits what the transaction reads.
CallInv(p) ==
    LET l == call[p]
    IN  /\ GoodLog(l, seen[p])
        /\ l.after = l.before + l.change
        /\ pc[p] \in {"create", "cas", "logFirst", "casLast"} =>
              l.ver = rows[p][l.bal].ver + 1 /\ l.before = rows[p][l.bal].qty
        /\ pc[p] # "casLast" => \A m \in seen[p] : ~Clash(l, m)
        /\ pc[p] = "casLast" => l \in added[p]
        /\ pc[p] \in {"create", "cas", "log"} =>
              /\ l.rev = NoKey
              /\ \E c \in Commands : /\ c.op = "increase"
                                     /\ c.key = l.key
                                     /\ c.bal = l.bal
        /\ pc[p] = "create" => ~rows[p][l.bal].exists
        /\ pc[p] = "log" => l.bal \in written[p]

\* Two transactions never hold the same balance row or index entry.
Apart(p, q) ==
    /\ written[p] \cap written[q] = {}
    /\ \A l \in added[p], m \in added[q] : ~Clash(l, m)

Inv ==
    /\ TypeOK
    /\ StoreInv
    /\ \A p \in Procs : ~Busy(p) => written[p] = {} /\ added[p] = {}
    /\ \A p \in Procs : Busy(p) => ReadInv(p) /\ WriteInv(p)
    /\ \A p \in Procs : InCall(p) => CallInv(p)
    /\ \A p, q \in Procs : p # q => Apart(p, q)
-----------------------------------------------------------------------------
(* Type correctness.                                                       *)

LEMMA InitType == Init => TypeOK
  BY CommandsAssumption DEF Init, TypeOK, Steps, Row, NoRow

\* The log row that a command prepares is a log row.
LEMMA LogForType ==
  ASSUME TypeOK, NEW p \in Procs, NEW c \in Commands, NEW b \in Balances,
         NEW change \in Int \ {0}, NEW rev \in Keys \cup {NoKey}
  PROVE  LogFor(p, c, b, change, rev) \in LogRow
<1>1. rows[p][b] \in Row /\ c.key \in Keys
  BY CommandsAssumption DEF TypeOK, Command
<1>2. /\ rows[p][b].qty \in Int
      /\ rows[p][b].qty + change \in Int
      /\ rows[p][b].ver + 1 \in Nat
  BY <1>1 DEF Row
<1> QED BY <1>1, <1>2 DEF LogFor, LogRow

LEMMA ForgetType ==
  ASSUME TypeOK, NEW p \in Procs, Forget(p),
         balance' \in [Balances -> Row], logs' \subseteq LogRow
  PROVE  TypeOK'
  BY DEF Forget, TypeOK, Steps, Row, NoRow

LEMMA ThrowType ==
  ASSUME TypeOK, NEW p \in Procs, Throw(p)
  PROVE  TypeOK'
  BY ForgetType DEF Throw, committed, TypeOK

\* Issuing a command keeps the types when what it prepares is a log row.
LEMMA IssueType ==
  ASSUME TypeOK, NEW p \in Procs, Ready(p), Issue(p)
  PROVE  /\ script' \in [Procs -> Seq(Commands)]
         /\ Head(script[p]) \in Commands
  BY DEF TypeOK, Ready, Issue

LEMMA StartType ==
  ASSUME TypeOK, NEW p \in Procs, NEW step \in Steps, NEW l \in LogRow,
         Start(p, step, l)
  PROVE  TypeOK'
<1>1. script' \in [Procs -> Seq(Commands)]
  BY IssueType DEF Start, Issue
<1> QED BY <1>1 DEF Start, TypeOK, committed

LEMMA ReturnExistingType ==
  ASSUME TypeOK, NEW p \in Procs, ReturnExisting(p)
  PROVE  TypeOK'
<1>1. script' \in [Procs -> Seq(Commands)]
  BY IssueType DEF ReturnExisting, Issue
<1> QED BY <1>1 DEF ReturnExisting, TypeOK, committed

LEMMA HeadType ==
  ASSUME TypeOK, NEW p \in Procs, Ready(p)
  PROVE  Head(script[p]) \in Commands
  BY DEF TypeOK, Ready

LEMMA CommandsType ==
  ASSUME TypeOK, NEW p \in Procs, NEW c \in Commands,
         IncreaseStock(p, c) \/ DecreaseStock(p, c) \/ ReverseStock(p, c)
  PROVE  TypeOK'
<1>c. c \in Command
  BY CommandsAssumption
<1>1. ASSUME ReturnExisting(p) PROVE TypeOK'
  BY <1>1, ReturnExistingType
<1>2. ASSUME Refuse(p) PROVE TypeOK'
  BY <1>2, ThrowType DEF Refuse
<1>3. CASE IncreaseStock(p, c)
  <2>1. ASSUME Positive(c) PROVE LogFor(p, c, c.bal, c.qty, NoKey) \in LogRow
    BY <2>1, <1>c, LogForType DEF Positive, Command
  <2> QED BY <1>1, <1>2, <1>3, <2>1, StartType DEF IncreaseStock, Steps
<1>4. CASE DecreaseStock(p, c)
  <2>1. ASSUME Positive(c) PROVE LogFor(p, c, c.bal, 0 - c.qty, NoKey) \in LogRow
    <3>1. 0 - c.qty \in Int \ {0}
      BY <2>1, <1>c DEF Positive, Command
    <3> QED BY <3>1, <1>c, LogForType DEF Command
  <2> QED BY <1>1, <1>2, <1>4, <2>1, StartType DEF DecreaseStock, Steps
<1>5. CASE ReverseStock(p, c)
  <2>1. ASSUME NEW src \in seen[p]
        PROVE  LogFor(p, c, src.bal, Opposite(src), c.of) \in LogRow
    <3>1. src \in LogRow
      BY <2>1 DEF TypeOK
    <3>2. Opposite(src) \in Int \ {0}
      BY <3>1 DEF Opposite, LogRow
    <3> QED BY <3>1, <3>2, <1>c, LogForType DEF LogRow, Command
  <2> QED BY <1>1, <1>2, <1>5, <2>1, StartType DEF ReverseStock, Steps
<1> QED BY <1>3, <1>4, <1>5
LEMMA ResolveConflictType ==
  ASSUME TypeOK, NEW p \in Procs, ResolveConflict(p)
  PROVE  TypeOK'
<1>1. CASE Throw(p)
  BY <1>1, ThrowType
<1>2. CASE Return(p) /\ UNCHANGED <<committed, rows, seen, written, added, script>>
  BY <1>2 DEF Return, TypeOK, committed, Steps
<1> QED BY <1>1, <1>2 DEF ResolveConflict

\* One more element in the set that a request keeps.
LEMMA ExtendSet ==
  ASSUME NEW S, NEW T, NEW f \in [S -> SUBSET T], NEW x \in S, NEW e \in T
  PROVE  [f EXCEPT ![x] = @ \cup {e}] \in [S -> SUBSET T]
<1>1. f[x] \cup {e} \in SUBSET T
  OBVIOUS
<1> QED BY <1>1

LEMMA WritesType ==
  ASSUME TypeOK, NEW p \in Procs,
         CreateBalance(p) \/ UpdateBalance(p) \/ InsertLog(p)
  PROVE  TypeOK'
<1>l. call[p] \in LogRow
  BY DEF TypeOK, CreateBalance, UpdateBalance, InsertLog
<1>b. call[p].bal \in Balances /\ call[p].ver \in Nat /\ call[p].after \in Int
  BY <1>l DEF LogRow
<1>1. CASE CreateBalance(p)
  <2>1. CASE ResolveConflict(p)
    BY <2>1, ResolveConflictType
  <2>2. CASE ~balance[call[p].bal].exists
    <3>1. [exists |-> TRUE, qty |-> 0, ver |-> 0] \in Row
      BY DEF Row
    <3>e. /\ rows' = [rows EXCEPT ![p][call[p].bal] =
                        [exists |-> TRUE, qty |-> 0, ver |-> 0]]
          /\ written' = [written EXCEPT ![p] = @ \cup {call[p].bal}]
      BY <1>1, <2>2 DEF CreateBalance
    <3>2. rows' \in [Procs -> [Balances -> Row]]
      BY <1>b, <3>1, <3>e DEF TypeOK
    <3>3. written' \in [Procs -> SUBSET Balances]
      BY <1>b, <3>e, ExtendSet DEF TypeOK
    <3>4. pc' = [pc EXCEPT ![p] = "cas"] /\ UNCHANGED <<balance, logs, seen, added, call, script>>
      BY <1>1, <2>2 DEF CreateBalance, committed
    <3> QED BY <1>l, <3>2, <3>3, <3>4 DEF TypeOK, Steps
  <2> QED BY <1>1, <2>1, <2>2 DEF CreateBalance
<1>2. CASE UpdateBalance(p)
  <2>1. CASE Throw(p)
    BY <2>1, ThrowType
  <2>2. CASE RowUnchanged(Current(p, call[p].bal), call[p])
    <3>1. [exists |-> TRUE, qty |-> call[p].after, ver |-> call[p].ver] \in Row
      BY <1>b DEF Row
    <3>e. /\ rows' = [rows EXCEPT ![p][call[p].bal] =
                        [exists |-> TRUE, qty |-> call[p].after,
                         ver |-> call[p].ver]]
          /\ written' = [written EXCEPT ![p] = @ \cup {call[p].bal}]
      BY <1>2, <2>2 DEF UpdateBalance
    <3>2. rows' \in [Procs -> [Balances -> Row]]
      BY <1>b, <3>1, <3>e DEF TypeOK
    <3>3. written' \in [Procs -> SUBSET Balances]
      BY <1>b, <3>e, ExtendSet DEF TypeOK
    <3>4. UNCHANGED <<balance, logs, seen, added, script>>
      BY <1>2, <2>2 DEF UpdateBalance, committed
    <3>5. CASE Return(p)
      BY <3>2, <3>3, <3>4, <3>5 DEF TypeOK, Steps, Return
    <3>6. CASE pc' = [pc EXCEPT ![p] = "log"] /\ UNCHANGED call
      BY <1>l, <3>2, <3>3, <3>4, <3>6 DEF TypeOK, Steps
    <3> QED BY <1>2, <2>2, <3>5, <3>6 DEF UpdateBalance
  <2> QED BY <1>2, <2>1, <2>2 DEF UpdateBalance, Conflict
<1>3. CASE InsertLog(p)
  <2>1. CASE ResolveConflict(p)
    BY <2>1, ResolveConflictType
  <2>2. CASE ~ \E l \in logs : Clash(call[p], l)
    <3>1. /\ added' \in [Procs -> SUBSET LogRow]
          /\ seen' \in [Procs -> SUBSET LogRow]
      <4>1. /\ added' = [added EXCEPT ![p] = @ \cup {call[p]}]
            /\ seen' = [seen EXCEPT ![p] = @ \cup {call[p]}]
        BY <1>3, <2>2 DEF InsertLog
      <4> QED BY <1>l, <4>1, ExtendSet DEF TypeOK
    <3>2. UNCHANGED <<balance, logs, rows, written, script>>
      BY <1>3, <2>2 DEF InsertLog, committed
    <3>3. CASE Return(p)
      BY <3>1, <3>2, <3>3 DEF TypeOK, Steps, Return
    <3>4. CASE pc' = [pc EXCEPT ![p] = "casLast"] /\ UNCHANGED call
      BY <1>l, <3>1, <3>2, <3>4 DEF TypeOK, Steps
    <3> QED BY <1>3, <2>2, <3>3, <3>4 DEF InsertLog
  <2> QED BY <1>3, <2>1, <2>2 DEF InsertLog
<1> QED BY <1>1, <1>2, <1>3

LEMMA CommitType ==
  ASSUME TypeOK, NEW p \in Procs, Commit(p)
  PROVE  TypeOK'
<1>1. balance' \in [Balances -> Row]
  BY DEF TypeOK, Commit, Current
<1>2. logs' \subseteq LogRow
  BY DEF TypeOK, Commit
<1> QED BY <1>1, <1>2, ForgetType DEF Commit

LEMMA StepType == TypeOK /\ [Next]_vars => TypeOK'
<1> SUFFICES ASSUME TypeOK, [Next]_vars PROVE TypeOK'
  OBVIOUS
<1>1. CASE UNCHANGED vars
  BY <1>1 DEF vars, TypeOK
<1>2. ASSUME NEW p \in Procs, NEW h \in Handlers, Begin(p, h) PROVE TypeOK'
  BY <1>2, CommandsAssumption DEF Begin, TypeOK, committed, Steps
<1>3. ASSUME NEW p \in Procs, Commit(p) PROVE TypeOK'
  BY <1>3, CommitType
<1>4. ASSUME NEW p \in Procs, Rollback(p) PROVE TypeOK'
  BY <1>4, ThrowType DEF Rollback
<1>5. ASSUME NEW p \in Procs,
             CreateBalance(p) \/ UpdateBalance(p) \/ InsertLog(p)
      PROVE TypeOK'
  BY <1>5, WritesType
<1>6. ASSUME NEW p \in Procs, Ready(p),
             \/ IncreaseStock(p, Head(script[p]))
             \/ DecreaseStock(p, Head(script[p]))
             \/ ReverseStock(p, Head(script[p]))
      PROVE TypeOK'
  BY <1>6, HeadType, CommandsType
<1> QED BY <1>1, <1>2, <1>3, <1>4, <1>5, <1>6 DEF Next

\* Every variable keeps its type: a command in progress always has the log
\* row that it is about to post, and a handler issues only known commands.
THEOREM TypeCorrect == Spec => []TypeOK
<1>1. Init => TypeOK
  BY InitType
<1>2. TypeOK /\ [Next]_vars => TypeOK'
  BY StepType
<1> QED BY <1>1, <1>2, PTL DEF Spec
-----------------------------------------------------------------------------
(* Lemmas about chains of logs.                                            *)

\* Posting one more log, at the next version and from the quantity of the
\* row, keeps a balance and its logs one chain.
LEMMA ChainExtend ==
  ASSUME NEW row \in Row, NEW L \in SUBSET LogRow, NEW l \in LogRow,
         Chained(row, L), l.ver = row.ver + 1, l.before = row.qty,
         l.after = l.before + l.change
  PROVE  Chained([exists |-> TRUE, qty |-> l.after, ver |-> l.ver], L \cup {l})
<1> DEFINE new == [exists |-> TRUE, qty |-> l.after, ver |-> l.ver]
<1>t. /\ row.ver \in Nat /\ row.qty \in Int
      /\ l.ver \in Nat /\ l.after \in Int
      /\ \A m \in L : m.ver \in Nat /\ m.before \in Int /\ m.after \in Int
      /\ \A m \in L : m.ver \in 1..row.ver
  BY DEF Row, LogRow, Chained
<1>n. new.exists /\ new.qty = l.after /\ new.ver = l.ver
  OBVIOUS
<1>1. \A m \in L \cup {l} : m.ver \in 1..new.ver /\ m.after = m.before + m.change
  BY <1>t DEF Chained
<1>2. \A n \in 1..new.ver : \E m \in L \cup {l} : m.ver = n
  <2> SUFFICES ASSUME NEW n \in 1..l.ver PROVE \E m \in L \cup {l} : m.ver = n
    OBVIOUS
  <2>1. CASE n = l.ver
    BY <2>1
  <2>2. CASE n \in 1..row.ver
    BY <2>2 DEF Chained
  <2> QED BY <1>t, <2>1, <2>2
<1>3. \A k, m \in L \cup {l} : k.ver = m.ver => k = m
  BY <1>t DEF Chained
<1>4. \A k, m \in L \cup {l} : m.ver = k.ver + 1 => m.before = k.after
  <2> SUFFICES ASSUME NEW k \in L \cup {l}, NEW m \in L \cup {l}, m.ver = k.ver + 1
               PROVE  m.before = k.after
    OBVIOUS
  <2>1. CASE m = l
    <3>1. k \in L /\ k.ver = row.ver
      BY <1>t, <2>1
    <3> QED BY <2>1, <3>1 DEF Chained
  <2>2. CASE m \in L
    <3>1. k \in L
      BY <1>t, <2>2
    <3> QED BY <2>2, <3>1 DEF Chained
  <2> QED BY <2>1, <2>2
<1>5. \A m \in L \cup {l} : m.ver = 1 => m.before = 0
  BY <1>t DEF Chained
<1>6. \A m \in L \cup {l} : m.ver = new.ver => m.after = new.qty
  BY <1>t
<1>7. new.ver = 0 => new.qty = 0
  BY <1>t
<1> HIDE DEF new
<1>8. Chained(new, L \cup {l})
  BY <1>n, <1>1, <1>2, <1>3, <1>4, <1>5, <1>6, <1>7 DEF Chained
<1> QED BY <1>8 DEF new

\* A row without versions has no logs.
LEMMA NoVersionNoLog ==
  ASSUME NEW row \in Row, NEW L, Chained(row, L), row.ver = 0
  PROVE  L = {}
  BY DEF Chained, Row

LEMMA ClashSymmetric == \A l, m : Clash(l, m) <=> Clash(m, l)
  BY DEF Clash

-----------------------------------------------------------------------------
(* Steps of one request that commit nothing.                               *)

\* The variables of the other requests stay.
Elsewhere(p) ==
    \A q \in Procs \ {p} :
        /\ pc'[q] = pc[q]
        /\ rows'[q] = rows[q]
        /\ seen'[q] = seen[q]
        /\ written'[q] = written[q]
        /\ added'[q] = added[q]
        /\ call'[q] = call[q]

\* Such a step keeps Inv when it keeps what Inv says of that request.
LEMMA LocalStep ==
  ASSUME Inv, TypeOK', NEW p \in Procs, UNCHANGED committed, Elsewhere(p),
         ~Busy(p)' => written'[p] = {} /\ added'[p] = {},
         Busy(p)' => ReadInv(p)' /\ WriteInv(p)',
         InCall(p)' => CallInv(p)',
         \A q \in Procs \ {p} : Apart(p, q)'
  PROVE  Inv'
<1>c. balance' = balance /\ logs' = logs
  BY DEF committed
<1>1. StoreInv'
  BY <1>c DEF Inv, StoreInv, LedgerReplays, GoodLog, Opposed
<1>2. ASSUME NEW q \in Procs \ {p}
      PROVE  /\ Busy(q)' = Busy(q)
             /\ InCall(q)' = InCall(q)
             /\ ReadInv(q)' = ReadInv(q)
             /\ WriteInv(q)' = WriteInv(q)
             /\ CallInv(q)' = CallInv(q)
  <2>1. Posted(q)' = Posted(q)
    BY <1>c, <1>2 DEF Elsewhere, Posted
  <2>2. /\ Busy(q)' = Busy(q)
        /\ InCall(q)' = InCall(q)
        /\ ReadInv(q)' = ReadInv(q)
    BY <1>c, <1>2 DEF Elsewhere, Busy, InCall, ReadInv
  <2>3. WriteInv(q)' = WriteInv(q)
    BY <1>c, <1>2, <2>1 DEF Elsewhere, WriteInv
  <2>4. CallInv(q)' = CallInv(q)
    BY <1>c, <1>2 DEF Elsewhere, CallInv
  <2> QED BY <2>2, <2>3, <2>4
<1>3. \A q \in Procs : ~Busy(q)' => written'[q] = {} /\ added'[q] = {}
  BY <1>2 DEF Inv, Elsewhere
<1>4. \A q \in Procs : Busy(q)' => ReadInv(q)' /\ WriteInv(q)'
  BY <1>2 DEF Inv
<1>5. \A q \in Procs : InCall(q)' => CallInv(q)'
  BY <1>2 DEF Inv
<1>6. ASSUME NEW q \in Procs, NEW r \in Procs, q # r PROVE Apart(q, r)'
  <2>1. CASE q = p
    BY <1>6, <2>1
  <2>2. CASE r = p
    <3>1. Apart(p, q)'
      BY <1>6, <2>2
    <3> QED BY <2>2, <3>1, ClashSymmetric DEF Apart
  <2>3. CASE q # p /\ r # p
    <3>1. Apart(q, r)
      BY <1>6 DEF Inv
    <3> QED BY <2>3, <3>1 DEF Apart, Elsewhere
  <2> QED BY <2>1, <2>2, <2>3
<1> QED BY <1>1, <1>3, <1>4, <1>5, <1>6 DEF Inv

\* Forgetting what the transaction did is such a step.
LEMMA ThrowInv ==
  ASSUME Inv, NEW p \in Procs, Throw(p)
  PROVE  Inv'
<1>1. TypeOK'
  BY ThrowType DEF Inv
<1>2. UNCHANGED committed /\ Elsewhere(p)
  BY DEF Throw, Forget, Elsewhere, Inv, TypeOK
<1>3. pc'[p] = "idle" /\ written'[p] = {} /\ added'[p] = {}
  BY DEF Throw, Forget, Inv, TypeOK
<1>4. ~Busy(p)' /\ ~InCall(p)'
  BY <1>3 DEF Busy, InCall
<1>5. \A q \in Procs \ {p} : Apart(p, q)'
  BY <1>3 DEF Apart
<1> QED BY <1>1, <1>2, <1>3, <1>4, <1>5, LocalStep
\* A step that reads and writes nothing only has to prepare its command.
LEMMA QuietStep ==
  ASSUME Inv, TypeOK', NEW p \in Procs, Busy(p), Busy(p)', UNCHANGED committed,
         UNCHANGED <<rows, seen, written, added>>, Elsewhere(p),
         Posted(p)' = Posted(p), InCall(p)' => CallInv(p)'
  PROVE  Inv'
<1>c. UNCHANGED <<balance, logs>>
  BY DEF committed
<1>1. ReadInv(p) /\ WriteInv(p)
  BY DEF Inv
<1>2. ReadInv(p)'
  BY <1>c, <1>1 DEF ReadInv
<1>3. WriteInv(p)'
  BY <1>c, <1>1 DEF WriteInv
<1>4. \A q \in Procs \ {p} : Apart(p, q)'
  BY DEF Apart, Inv
<1> QED BY <1>2, <1>3, <1>4, LocalStep

LEMMA ReturnExistingInv ==
  ASSUME Inv, NEW p \in Procs, ReturnExisting(p)
  PROVE  Inv'
<1>1. TypeOK'
  BY ReturnExistingType DEF Inv
<1>2. UNCHANGED <<committed, pc, rows, seen, written, added, call>>
  BY DEF ReturnExisting
<1>3. Busy(p) /\ Busy(p)' /\ ~InCall(p)' /\ Elsewhere(p)
  BY <1>2 DEF ReturnExisting, Issue, Ready, Busy, InCall, Elsewhere
<1>4. Posted(p)' = Posted(p)
  BY <1>2 DEF Posted, committed
<1> QED BY <1>1, <1>2, <1>3, <1>4, QuietStep

\* A command that returns before it has written anything.
LEMMA ReturnInv ==
  ASSUME Inv, NEW p \in Procs, pc[p] \in {"create", "logFirst"}, Return(p),
         UNCHANGED <<committed, rows, seen, written, added, script>>
  PROVE  Inv'
<1>1. TypeOK'
  BY DEF Return, Inv, TypeOK, committed, Steps
<1>2. pc'[p] = "open"
  BY DEF Return, Inv, TypeOK
<1>3. Busy(p) /\ Busy(p)' /\ ~InCall(p)'
  BY <1>2 DEF Busy, InCall
<1>4. Elsewhere(p)
  BY DEF Return, Inv, TypeOK, Elsewhere
<1>5. Posted(p)' = Posted(p)
  BY <1>2 DEF Posted, committed
<1> QED BY <1>1, <1>3, <1>4, <1>5, QuietStep

\* Starting a command on what the transaction reads.
LEMMA StartInv ==
  ASSUME Inv, NEW p \in Procs, NEW step \in {"create", "cas", "logFirst"},
         NEW c \in Commands, NEW b \in Balances, NEW change \in Int \ {0},
         NEW rev \in Keys \cup {NoKey},
         LogFor(p, c, b, change, rev) \in LogRow,
         Start(p, step, LogFor(p, c, b, change, rev)),
         rows[p][b].qty + change >= 0,
         \A m \in seen[p] : ~Clash(LogFor(p, c, b, change, rev), m),
         Promise!Asks(c, LogFor(p, c, b, change, rev)),
         Opposed(LogFor(p, c, b, change, rev), seen[p]),
         step # "logFirst" => c.op = "increase" /\ rev = NoKey,
         step = "create" => ~rows[p][b].exists
  PROVE  Inv'
<1> DEFINE l == LogFor(p, c, b, change, rev)
<1>1. TypeOK'
  BY StartType DEF Inv, Steps
<1>2. /\ UNCHANGED <<committed, rows, seen, written, added>>
      /\ pc'[p] = step /\ call'[p] = l /\ pc[p] = "open"
      /\ Elsewhere(p)
  BY DEF Start, Issue, Ready, Inv, TypeOK, Elsewhere
<1>3. Busy(p) /\ Busy(p)'
  BY <1>2 DEF Busy
<1>4. Posted(p)' = Posted(p)
  BY <1>2 DEF Posted, committed
<1>5. /\ l.key = c.key /\ l.bal = b /\ l.rev = rev
      /\ l.before = rows[p][b].qty /\ l.ver = rows[p][b].ver + 1
      /\ l.after = l.before + change /\ l.change = change
  BY DEF LogFor
<1>6. GoodRow(rows[p][b])
  BY <1>3 DEF Inv, ReadInv
<1>7. GoodLog(l, seen[p])
  BY <1>5, <1>6 DEF GoodLog, GoodRow, Commanded
<1>10. step # "logFirst" => c.op = "increase" /\ c.key = l.key /\ c.bal = l.bal /\ rev = NoKey
  BY <1>5 DEF Promise!Asks
<1>8. \A m \in seen[p] : ~Clash(l, m)
  OBVIOUS
<1> HIDE DEF l
<1>9. CallInv(p)'
  BY <1>2, <1>5, <1>7, <1>8, <1>10 DEF CallInv, GoodLog, Opposed, Commanded
<1> QED BY <1>1, <1>2, <1>3, <1>4, <1>9, QuietStep
\* The row a transaction reads, and what an unknown key excludes.
LEMMA ReadRow ==
  ASSUME Inv, NEW p \in Procs, Ready(p), NEW b \in Balances
  PROVE  /\ rows[p][b] \in Row
         /\ GoodRow(rows[p][b])
         /\ seen[p] \subseteq LogRow
  BY DEF Inv, TypeOK, Ready, Busy, ReadInv

LEMMA CommandsInv ==
  ASSUME Inv, NEW p \in Procs, NEW c \in Commands, Ready(p),
         IncreaseStock(p, c) \/ DecreaseStock(p, c) \/ ReverseStock(p, c)
  PROVE  Inv'
<1>t. TypeOK
  BY DEF Inv
<1>c. c \in Command
  BY CommandsAssumption
<1>1. ASSUME ReturnExisting(p) PROVE Inv'
  BY <1>1, ReturnExistingInv
<1>2. ASSUME Refuse(p) PROVE Inv'
  BY <1>2, ThrowInv DEF Refuse
<1>3. CASE IncreaseStock(p, c)
  <2> DEFINE l == LogFor(p, c, c.bal, c.qty, NoKey)
             step == IF rows[p][c.bal].exists THEN "cas" ELSE "create"
  <2>1. ASSUME ~HasKey(seen[p], c.key), Positive(c), Start(p, step, l)
        PROVE  Inv'
    <3>1. /\ c.bal \in Balances /\ c.qty \in Int \ {0} /\ c.qty > 0
          /\ step \in {"create", "cas", "logFirst"}
      BY <1>c, <2>1 DEF Command, Positive
    <3>2. l \in LogRow
      BY <1>t, <3>1, LogForType
    <3>3. rows[p][c.bal].qty + c.qty >= 0
      BY <3>1, ReadRow DEF GoodRow, Row
    <3>4. \A m \in seen[p] : ~Clash(l, m)
      BY <2>1 DEF HasKey, Clash, LogFor
    <3>5. Opposed(l, seen[p])
      BY DEF Opposed, LogFor
    <3>6. /\ step = "create" => ~rows[p][c.bal].exists
          /\ c.op = "increase"
      BY <1>3 DEF IncreaseStock
    <3>7. Promise!Asks(c, l)
      BY <3>6 DEF Promise!Asks, Promise!Signed, LogFor
    <3> QED BY <2>1, <3>1, <3>2, <3>3, <3>4, <3>5, <3>6, <3>7, StartInv
  <2> QED BY <1>1, <1>2, <1>3, <2>1 DEF IncreaseStock
<1>4. CASE DecreaseStock(p, c)
  <2> DEFINE l == LogFor(p, c, c.bal, 0 - c.qty, NoKey)
  <2>1. ASSUME ~HasKey(seen[p], c.key), Positive(c),
               Covers(rows[p][c.bal], c.qty), Start(p, "logFirst", l)
        PROVE  Inv'
    <3>1. c.bal \in Balances /\ 0 - c.qty \in Int \ {0}
      BY <1>c, <2>1 DEF Command, Positive
    <3>2. l \in LogRow
      BY <1>t, <3>1, LogForType
    <3>3. rows[p][c.bal].qty + (0 - c.qty) >= 0
      BY <1>c, <2>1, <3>1, ReadRow DEF Covers, Row, Command
    <3>4. \A m \in seen[p] : ~Clash(l, m)
      BY <2>1 DEF HasKey, Clash, LogFor
    <3>5. Opposed(l, seen[p])
      BY DEF Opposed, LogFor
    <3>6. Promise!Asks(c, l)
      BY <1>4 DEF DecreaseStock, Promise!Asks, Promise!Signed, LogFor
    <3> QED BY <2>1, <3>1, <3>2, <3>3, <3>4, <3>5, <3>6, StartInv
  <2> QED BY <1>1, <1>2, <1>4, <2>1 DEF DecreaseStock
<1>5. CASE ReverseStock(p, c)
  <2>1. ASSUME NEW src \in seen[p], src.key = c.of,
               ~HasKey(seen[p], c.key), ~HasReversalOf(seen[p], c.of),
               rows[p][src.bal].qty + Opposite(src) >= 0,
               Start(p, "logFirst", LogFor(p, c, src.bal, Opposite(src), c.of))
        PROVE  Inv'
    <3> DEFINE l == LogFor(p, c, src.bal, Opposite(src), c.of)
    <3>1. src \in LogRow
      BY <1>t, <2>1 DEF TypeOK
    <3>2. /\ src.bal \in Balances /\ Opposite(src) \in Int \ {0}
          /\ c.of \in Keys \cup {NoKey}
      BY <1>c, <3>1 DEF LogRow, Opposite, Command
    <3>3. l \in LogRow
      BY <1>t, <3>2, LogForType
    <3>4. \A m \in seen[p] : ~Clash(l, m)
      BY <2>1 DEF HasKey, HasReversalOf, Clash, LogFor
    <3>5. Opposed(l, seen[p])
      <4>1. src.change = 0 - l.change
        BY <3>1 DEF LogFor, Opposite, LogRow
      <4> QED BY <2>1, <4>1 DEF Opposed, LogFor
    <3>6. Promise!Asks(c, l)
      BY <1>5 DEF ReverseStock, Promise!Asks, LogFor
    <3> QED BY <2>1, <3>2, <3>3, <3>4, <3>5, <3>6, StartInv
  <2> QED BY <1>1, <1>2, <1>5, <2>1 DEF ReverseStock
<1> QED BY <1>3, <1>4, <1>5

-----------------------------------------------------------------------------
(* The writes.                                                             *)

\* Under KeysDetermineCommand an increase whose balance is already written
\* never finds its key taken: the key's log would be on that same balance,
\* so the snapshot would have it.
LEMMA NoConflictAfterBalance ==
  ASSUME KeysDetermineCommand, Inv, NEW p \in Procs, pc[p] = "log"
  PROVE  \A l \in logs : ~Clash(call[p], l)
<1>1. Busy(p) /\ InCall(p)
  BY DEF Busy, InCall, Steps
<1>2. CallInv(p) /\ ReadInv(p)
  BY <1>1 DEF Inv
<1>3. PICK c \in Commands : c.op = "increase" /\ c.key = call[p].key /\ c.bal = call[p].bal
  BY <1>2 DEF CallInv
<1>4. call[p].rev = NoKey /\ call[p].bal \in written[p]
  BY <1>2 DEF CallInv
<1> SUFFICES ASSUME NEW l \in logs, Clash(call[p], l) PROVE FALSE
  OBVIOUS
<1>5. l.key = call[p].key
  BY <1>4 DEF Clash
<1>6. PICK d \in Commands : d.key = l.key /\ (d.op # "reverse" => d.bal = l.bal)
  BY DEF Inv, StoreInv, GoodLog, Commanded, Promise!Asks
<1>7. c = d
  BY <1>3, <1>5, <1>6 DEF KeysDetermineCommand
<1>8. l.bal = call[p].bal
  BY <1>3, <1>6, <1>7
<1>9. l \in seen[p]
  BY <1>2, <1>4, <1>8 DEF ReadInv, LogsOf
<1> QED BY <1>1, <1>2, <1>9 DEF CallInv
\* P2002: the command is over with nothing posted, or the handler throws.
LEMMA ResolveConflictInv ==
  ASSUME Inv, NEW p \in Procs, pc[p] \in {"create", "logFirst"},
         ResolveConflict(p)
  PROVE  Inv'
  BY ThrowInv, ReturnInv DEF ResolveConflict

\* A created row is a version-0 row without logs.
LEMMA CreateBalanceInv ==
  ASSUME Inv, NEW p \in Procs, CreateBalance(p)
  PROVE  Inv'
<1> DEFINE b == call[p].bal
           new == [exists |-> TRUE, qty |-> 0, ver |-> 0]
<1>1. pc[p] = "create" /\ Busy(p) /\ InCall(p)
  BY DEF CreateBalance, Busy, InCall, Steps
<1>2. TypeOK /\ CallInv(p) /\ ReadInv(p) /\ WriteInv(p) /\ call[p] \in LogRow
  BY <1>1 DEF Inv, TypeOK
<1>3. b \in Balances
  BY <1>2 DEF LogRow
<1>4. CASE ResolveConflict(p)
  BY <1>1, <1>4, ResolveConflictInv
<1>5. CASE ~balance[b].exists /\ ~ResolveConflict(p)
  <2>1. /\ rows' = [rows EXCEPT ![p][b] = new]
        /\ written' = [written EXCEPT ![p] = @ \cup {b}]
        /\ pc' = [pc EXCEPT ![p] = "cas"]
        /\ UNCHANGED <<committed, seen, added, call, script>>
        /\ RowFree(p, b)
    BY <1>5 DEF CreateBalance
  <2>2. TypeOK' /\ UNCHANGED committed /\ UNCHANGED <<balance, logs>>
    BY <1>2, <2>1, WritesType DEF committed
  <2>3. Elsewhere(p)
    BY <1>2, <2>1 DEF Elsewhere, TypeOK
  <2>4. /\ pc'[p] = "cas" /\ written'[p] = written[p] \cup {b}
        /\ rows'[p] = [rows[p] EXCEPT ![b] = new]
        /\ seen'[p] = seen[p] /\ added'[p] = added[p] /\ call'[p] = call[p]
    BY <1>2, <2>1 DEF TypeOK
  <2>5. /\ rows[p][b] \in Row /\ ~rows[p][b].exists
        /\ rows[p][b].ver = 0 /\ rows[p][b].qty = 0 /\ b \notin written[p]
    BY <1>1, <1>2, <1>3 DEF CallInv, ReadInv, GoodRow, TypeOK
  <2>6. rows[p] \in [Balances -> Row]
    BY <1>2 DEF TypeOK
  <2>7. rows'[p][b] = new /\ \A a \in Balances \ {b} : rows'[p][a] = rows[p][a]
    BY <1>3, <2>4, <2>6
  <2>8. LogsOf(logs, b) = {}
    <3>1. balance[b].ver = 0 /\ balance[b] \in Row /\ Chained(balance[b], LogsOf(logs, b))
      BY <1>2, <1>3, <1>5 DEF Inv, StoreInv, GoodRow, LedgerReplays, TypeOK
    <3> QED BY <3>1, NoVersionNoLog
  <2>9. Posted(p)' = Posted(p)
    BY <1>1, <2>2, <2>4 DEF Posted
  <2>10. ReadInv(p)'
    <3>1. GoodRow(new)
      BY DEF GoodRow
    <3> QED BY <1>2, <2>2, <2>4, <2>7, <2>8, <3>1 DEF ReadInv
  <2>11. WriteInv(p)'
    <3>1. Chained(new, {})
      BY DEF Chained
    <3>2. LogsOf(Posted(p), b) = {}
      BY <1>2, <1>3, <2>5, <2>8 DEF WriteInv
    <3>3. \A a \in written'[p] : Chained(rows'[p][a], LogsOf(Posted(p), a))
      BY <1>2, <2>2, <2>4, <2>5, <2>7, <3>1, <3>2 DEF WriteInv, TypeOK
    <3> QED BY <1>2, <2>2, <2>4, <2>9, <3>3 DEF WriteInv
  <2>12. CallInv(p)'
    <3>1. rows'[p][b].ver = 0 /\ rows'[p][b].qty = 0
      BY <2>7
    <3> QED BY <1>1, <1>2, <2>4, <2>5, <3>1 DEF CallInv, GoodLog, Opposed, Commanded
  <2>13. \A q \in Procs \ {p} : Apart(p, q)'
    BY <1>2, <2>1, <2>3, <2>4 DEF Apart, Inv, RowFree, Elsewhere
  <2>14. Busy(p)'
    BY <2>4 DEF Busy
  <2> QED BY <2>2, <2>3, <2>10, <2>11, <2>12, <2>13, <2>14, LocalStep
<1> QED BY <1>4, <1>5 DEF CreateBalance
\* The optimistic update: the version it finds is the version that was read,
\* so the quantity that was read is still the quantity of the row.
LEMMA UpdateBalanceInv ==
  ASSUME Inv, NEW p \in Procs, UpdateBalance(p)
  PROVE  Inv'
<1> DEFINE l == call[p]
           b == call[p].bal
           now == Current(p, b)
           new == [exists |-> TRUE, qty |-> l.after, ver |-> l.ver]
<1>1. pc[p] \in {"cas", "casLast"} /\ Busy(p) /\ InCall(p)
  BY DEF UpdateBalance, Busy, InCall, Steps
<1>2. TypeOK /\ CallInv(p) /\ ReadInv(p) /\ WriteInv(p) /\ l \in LogRow
  BY <1>1 DEF Inv, TypeOK
<1>3. b \in Balances /\ l.ver \in Nat /\ l.after \in Int /\ l.before \in Int
  BY <1>2 DEF LogRow
<1>4. CASE Throw(p)
  BY <1>4, ThrowInv
<1>5. CASE RowUnchanged(now, l) /\ ~Throw(p)
  <2>1. /\ rows' = [rows EXCEPT ![p][b] = new]
        /\ written' = [written EXCEPT ![p] = @ \cup {b}]
        /\ \/ pc[p] = "casLast" /\ Return(p)
           \/ pc[p] = "cas" /\ pc' = [pc EXCEPT ![p] = "log"] /\ UNCHANGED call
        /\ UNCHANGED <<committed, seen, added, script>>
        /\ RowFree(p, b)
    BY <1>5 DEF UpdateBalance, Conflict
  <2>2. TypeOK' /\ UNCHANGED committed /\ UNCHANGED <<balance, logs>>
    BY <1>2, <2>1, WritesType DEF committed
  <2>3. Elsewhere(p)
    BY <1>2, <2>1 DEF Elsewhere, TypeOK, Return
  <2>4. /\ written'[p] = written[p] \cup {b}
        /\ rows'[p] = [rows[p] EXCEPT ![b] = new]
        /\ seen'[p] = seen[p] /\ added'[p] = added[p]
        /\ \/ pc[p] = "casLast" /\ pc'[p] = "open"
           \/ pc[p] = "cas" /\ pc'[p] = "log" /\ call'[p] = l
    BY <1>2, <2>1 DEF TypeOK, Return
  <2>5. rows[p] \in [Balances -> Row] /\ balance[b] \in Row
    BY <1>2, <1>3 DEF TypeOK
  <2>6. rows'[p][b] = new /\ \A a \in Balances \ {b} : rows'[p][a] = rows[p][a]
    BY <1>3, <2>4, <2>5
  <2>7. /\ now \in Row /\ now.ver + 1 = l.ver /\ now.qty = l.before
        /\ Chained(now, LogsOf(Posted(p), b))
        /\ LogsOf(logs, b) \subseteq seen[p]
    <3>1. l.ver = rows[p][b].ver + 1 /\ l.before = rows[p][b].qty
      BY <1>1, <1>2 DEF CallInv
    <3>2. CASE b \in written[p]
      <4>1. now = rows[p][b]
        BY <3>2 DEF Current
      <4> QED BY <1>2, <1>3, <2>5, <3>1, <3>2, <4>1 DEF ReadInv, WriteInv
    <3>3. CASE b \notin written[p]
      <4>1. now = balance[b] /\ now.ver + 1 = l.ver
        BY <1>5, <3>3 DEF Current, RowUnchanged
      <4>2. balance[b].ver = rows[p][b].ver
        BY <1>3, <2>5, <3>1, <4>1 DEF Row
      <4>3. balance[b].qty = rows[p][b].qty
        BY <1>2, <1>3, <3>3, <4>2 DEF ReadInv
      <4>4. Chained(balance[b], LogsOf(logs, b))
        BY <1>3 DEF Inv, StoreInv, LedgerReplays
      <4>5. LogsOf(Posted(p), b) = LogsOf(logs, b)
        BY <1>2, <1>3, <3>3 DEF WriteInv
      <4>6. \A m \in LogsOf(logs, b) : m.ver <= rows[p][b].ver
        BY <2>5, <4>2, <4>4 DEF Chained, Row
      <4>7. LogsOf(logs, b) \subseteq seen[p]
        BY <1>2, <1>3, <3>3, <4>6 DEF ReadInv
      <4> QED BY <2>5, <3>1, <4>1, <4>3, <4>4, <4>5, <4>7
    <3> QED BY <3>2, <3>3
  <2>8. Posted(p)' = Posted(p) \cup {l}
    <3>1. CASE pc[p] = "cas"
      BY <2>2, <2>4, <3>1 DEF Posted
    <3>2. CASE pc[p] = "casLast"
      BY <1>2, <2>2, <2>4, <3>2 DEF Posted, CallInv
    <3> QED BY <1>1, <3>1, <3>2
  <2>9. Posted(p) \subseteq LogRow
    BY <1>2 DEF Posted, TypeOK
  <2>10. Chained(new, LogsOf(Posted(p)', b))
    <3>1. LogsOf(Posted(p), b) \in SUBSET LogRow
      BY <2>9 DEF LogsOf
    <3>2. l.after = l.before + l.change
      BY <1>2 DEF CallInv
    <3>3. Chained(new, LogsOf(Posted(p), b) \cup {l})
      BY <1>2, <2>7, <3>1, <3>2, ChainExtend
    <3>4. LogsOf(Posted(p) \cup {l}, b) = LogsOf(Posted(p), b) \cup {l}
      BY DEF LogsOf
    <3> QED BY <2>8, <3>3, <3>4
  <2>11. \A a \in Balances \ {b} : LogsOf(Posted(p)', a) = LogsOf(Posted(p), a)
    BY <2>8 DEF LogsOf
  <2>12. ReadInv(p)'
    <3>1. GoodRow(new)
      BY <1>2, <1>3, <2>7 DEF GoodRow, CallInv, GoodLog, Row
    <3>2. \A a \in Balances : GoodRow(rows'[p][a])
      BY <1>2, <2>6, <3>1 DEF ReadInv
    <3>3. \A a \in written'[p] : rows'[p][a].exists /\ LogsOf(logs, a) \subseteq seen[p]
      BY <1>2, <2>4, <2>6, <2>7 DEF ReadInv, TypeOK
    <3>4. \A a \in Balances \ written'[p] : rows'[p][a] = rows[p][a] /\ a \notin written[p]
      BY <2>4, <2>6
    <3>5. ASSUME NEW a \in Balances \ written'[p]
          PROVE  /\ rows'[p][a].ver <= balance[a].ver
                 /\ rows'[p][a].exists => balance[a].exists
                 /\ rows'[p][a].ver = balance[a].ver =>
                       rows'[p][a].qty = balance[a].qty
                 /\ \A m \in LogsOf(logs, a) :
                       m.ver <= rows'[p][a].ver => m \in seen[p]
      BY <1>2, <3>4 DEF ReadInv
    <3>6. added[p] \subseteq seen[p] /\ seen[p] \subseteq logs \cup added[p]
      BY <1>2 DEF ReadInv
    <3> HIDE DEF new
    <3> QED BY <2>2, <2>4, <3>2, <3>3, <3>5, <3>6 DEF ReadInv, LogsOf
  <2>13. WriteInv(p)'
    <3>1. \A a \in written'[p] : Chained(rows'[p][a], LogsOf(Posted(p)', a))
      BY <1>2, <2>4, <2>6, <2>10, <2>11 DEF WriteInv, TypeOK
    <3>2. \A a \in Balances \ written'[p] : LogsOf(Posted(p)', a) = LogsOf(logs, a)
      BY <1>2, <2>4, <2>11 DEF WriteInv
    <3> QED BY <1>2, <2>2, <2>4, <3>1, <3>2 DEF WriteInv
  <2>14. InCall(p)' => CallInv(p)'
    BY <1>2, <2>4 DEF InCall, CallInv, GoodLog, Opposed, Commanded
  <2>15. \A q \in Procs \ {p} : Apart(p, q)'
    BY <1>2, <2>1, <2>3, <2>4 DEF Apart, Inv, RowFree, Elsewhere
  <2>16. Busy(p)'
    BY <2>4 DEF Busy
  <2> QED BY <2>2, <2>3, <2>12, <2>13, <2>14, <2>15, <2>16, LocalStep
<1> QED BY <1>4, <1>5 DEF UpdateBalance, Conflict

\* Inserting the log before or after its balance.
LEMMA InsertLogInv ==
  ASSUME KeysDetermineCommand, Inv, NEW p \in Procs, InsertLog(p)
  PROVE  Inv'
<1> DEFINE l == call[p]
<1>1. pc[p] \in {"log", "logFirst"} /\ Busy(p) /\ InCall(p)
  BY DEF InsertLog, Busy, InCall, Steps
<1>2. TypeOK /\ CallInv(p) /\ ReadInv(p) /\ WriteInv(p) /\ l \in LogRow
  BY <1>1 DEF Inv, TypeOK
<1>3. CASE \E m \in logs : Clash(l, m)
  <2>1. pc[p] = "logFirst"
    BY <1>1, <1>3, NoConflictAfterBalance
  <2> QED BY <1>3, <2>1, ResolveConflictInv DEF InsertLog
<1>4. CASE ~ \E m \in logs : Clash(l, m)
  <2>1. /\ added' = [added EXCEPT ![p] = @ \cup {l}]
        /\ seen' = [seen EXCEPT ![p] = @ \cup {l}]
        /\ \/ pc[p] = "log" /\ Return(p)
           \/ /\ pc[p] = "logFirst"
              /\ pc' = [pc EXCEPT ![p] = "casLast"] /\ UNCHANGED call
        /\ UNCHANGED <<committed, rows, written, script>>
        /\ LogFree(p, l)
    BY <1>4 DEF InsertLog
  <2>2. TypeOK' /\ UNCHANGED committed /\ UNCHANGED <<balance, logs>>
    BY <1>2, <2>1, WritesType DEF committed
  <2>3. Elsewhere(p)
    BY <1>2, <2>1 DEF Elsewhere, TypeOK, Return
  <2>4. /\ added'[p] = added[p] \cup {l} /\ seen'[p] = seen[p] \cup {l}
        /\ rows'[p] = rows[p] /\ written'[p] = written[p]
        /\ \/ pc[p] = "log" /\ pc'[p] = "open"
           \/ pc[p] = "logFirst" /\ pc'[p] = "casLast" /\ call'[p] = l
    BY <1>2, <2>1 DEF TypeOK, Return
  <2>5. l \notin logs \cup added[p]
    <3>1. Clash(l, l)
      BY DEF Clash
    <3> QED BY <1>1, <1>2, <1>4, <3>1 DEF CallInv, ReadInv
  <2>6. Posted(p)' = Posted(p)
    BY <2>2, <2>4, <2>5 DEF Posted
  <2>7. ReadInv(p)'
    BY <1>2, <2>2, <2>4 DEF ReadInv
  <2>8. NoClash(logs \cup added'[p])
    <3>1. \A m \in logs \cup added[p] : ~Clash(l, m)
      BY <1>1, <1>2, <1>4 DEF CallInv, ReadInv
    <3> QED BY <1>2, <2>4, <3>1, ClashSymmetric DEF WriteInv, NoClash
  <2>9. \A m \in added'[p] : GoodLog(m, logs \cup added'[p])
    <3>1. GoodLog(l, logs \cup added'[p])
      BY <1>2, <2>4 DEF CallInv, ReadInv, GoodLog, Opposed
    <3>2. \A m \in added[p] : GoodLog(m, logs \cup added'[p])
      BY <1>2, <2>4 DEF WriteInv, GoodLog, Opposed
    <3> QED BY <2>4, <3>1, <3>2
  <2>10. WriteInv(p)'
    BY <1>2, <2>2, <2>4, <2>6, <2>8, <2>9 DEF WriteInv
  <2>11. InCall(p)' => CallInv(p)'
    BY <1>2, <2>4 DEF InCall, CallInv, GoodLog, Opposed, Commanded
  <2>12. \A q \in Procs \ {p} : Apart(p, q)'
    BY <2>1, <2>3, <2>4 DEF Apart, Inv, LogFree, Elsewhere
  <2>13. Busy(p)'
    BY <2>4 DEF Busy
  <2> QED BY <2>2, <2>3, <2>7, <2>10, <2>11, <2>12, <2>13, LocalStep
<1> QED BY <1>3, <1>4
-----------------------------------------------------------------------------
(* Begin and commit.                                                       *)

LEMMA BeginInv ==
  ASSUME Inv, NEW p \in Procs, NEW h \in Handlers, Begin(p, h)
  PROVE  Inv'
<1>1. TypeOK /\ pc[p] = "idle" /\ ~Busy(p) /\ written[p] = {} /\ added[p] = {}
  BY DEF Inv, Begin, Busy
<1>2. /\ UNCHANGED committed /\ UNCHANGED <<balance, logs>>
      /\ pc'[p] = "open" /\ rows'[p] = balance /\ seen'[p] = logs
      /\ written'[p] = {} /\ added'[p] = {}
      /\ Elsewhere(p)
  BY <1>1 DEF Begin, TypeOK, committed, Elsewhere
<1>3. TypeOK'
  BY <1>1, CommandsAssumption DEF Begin, TypeOK, committed, Steps
<1>4. Busy(p)' /\ ~InCall(p)'
  BY <1>2 DEF Busy, InCall
<1>5. ReadInv(p)'
  <2>1. \A b \in Balances : GoodRow(balance[b]) /\ balance[b].ver <= balance[b].ver
    BY <1>1 DEF Inv, StoreInv, TypeOK, Row
  <2>2. \A b \in Balances : LogsOf(logs, b) \subseteq logs
    BY DEF LogsOf
  <2> QED BY <1>2, <2>1, <2>2 DEF ReadInv
<1>6. Posted(p)' = logs
  BY <1>2 DEF Posted
<1>7. WriteInv(p)'
  BY <1>2, <1>6 DEF WriteInv, Inv, StoreInv
<1>8. \A q \in Procs \ {p} : Apart(p, q)'
  BY <1>2 DEF Apart
<1> QED BY <1>2, <1>3, <1>4, <1>5, <1>7, <1>8, LocalStep

\* A commit moves every balance forward, and its new logs are beyond the
\* versions that were committed before.
LEMMA CommitForward ==
  ASSUME Inv, NEW p \in Procs, Commit(p), NEW b \in Balances
  PROVE  /\ GoodRow(balance'[b])
         /\ Chained(balance'[b], LogsOf(logs', b))
         /\ balance[b].exists => balance'[b].exists
         /\ balance[b].ver <= balance'[b].ver
         /\ balance'[b].ver = balance[b].ver => balance'[b].qty = balance[b].qty
         /\ \A l \in LogsOf(logs', b) : l \in logs \/ l.ver > balance[b].ver
         /\ b \notin written[p] =>
               balance'[b] = balance[b] /\ LogsOf(logs', b) = LogsOf(logs, b)
<1>1. /\ TypeOK /\ Busy(p) /\ ReadInv(p) /\ WriteInv(p)
      /\ Posted(p) = logs \cup added[p]
  BY DEF Inv, Commit, Busy, Posted
<1>2. /\ balance'[b] = Current(p, b)
      /\ logs' = logs \cup added[p]
  BY DEF Commit
<1>3. /\ GoodRow(balance[b]) /\ Chained(balance[b], LogsOf(logs, b))
      /\ balance[b] \in Row /\ rows[p][b] \in Row
      /\ LogsOf(logs, b) \subseteq LogRow
      /\ LogsOf(logs', b) \subseteq LogRow
  BY <1>1, <1>2 DEF Inv, StoreInv, LedgerReplays, TypeOK, LogsOf
<1>4. CASE b \notin written[p]
  <2>1. balance'[b] = balance[b] /\ LogsOf(logs', b) = LogsOf(logs, b)
    BY <1>1, <1>2, <1>4 DEF Current, WriteInv
  <2>2. balance[b].ver <= balance[b].ver
    BY <1>3 DEF Row
  <2>3. \A l \in LogsOf(logs', b) : l \in logs
    BY <2>1 DEF LogsOf
  <2> QED BY <1>3, <2>1, <2>2, <2>3
<1>5. CASE b \in written[p]
  <2>1. /\ balance'[b] = rows[p][b] /\ balance'[b].exists
        /\ GoodRow(balance'[b])
        /\ Chained(balance'[b], LogsOf(logs', b))
    BY <1>1, <1>2, <1>5 DEF Current, ReadInv, WriteInv
  <2>2. LogsOf(logs, b) \subseteq LogsOf(logs', b)
    BY <1>2 DEF LogsOf
  <2>3. CASE balance[b].ver = 0
    <3>1. balance[b].qty = 0
      BY <1>3, <2>3 DEF GoodRow
    <3>2. \A l \in LogsOf(logs', b) : l.ver > 0
      BY <1>3, <2>1 DEF Chained, Row
    <3> QED BY <1>3, <1>5, <2>1, <2>3, <3>1, <3>2 DEF GoodRow, Row
  <2>4. CASE balance[b].ver # 0
    <3>1. balance[b].ver \in 1..balance[b].ver
      BY <1>3, <2>4 DEF Row
    <3>2. PICK m \in LogsOf(logs, b) : m.ver = balance[b].ver
      BY <1>3, <3>1 DEF Chained
    <3>3. m \in LogsOf(logs', b) /\ m.after = balance[b].qty
      BY <1>3, <2>2, <3>2 DEF Chained
    <3>4. m.ver \in 1..balance'[b].ver
      BY <2>1, <3>3 DEF Chained
    <3>5. balance[b].ver <= balance'[b].ver
      BY <1>3, <2>1, <3>2, <3>4 DEF Row
    <3>6. balance'[b].ver = balance[b].ver => balance'[b].qty = balance[b].qty
      BY <2>1, <3>2, <3>3 DEF Chained
    <3>7. ASSUME NEW l \in LogsOf(logs', b), ~(l.ver > balance[b].ver)
          PROVE  l \in logs
      <4>1. l.ver \in 1..balance[b].ver
        BY <1>3, <2>1, <3>7 DEF Chained, Row, LogRow
      <4>2. PICK k \in LogsOf(logs, b) : k.ver = l.ver
        BY <1>3, <4>1 DEF Chained
      <4>3. k = l
        BY <2>1, <2>2, <4>2 DEF Chained
      <4> QED BY <4>3 DEF LogsOf
    <3> QED BY <1>5, <2>1, <3>5, <3>6, <3>7
  <2> QED BY <2>3, <2>4
<1> QED BY <1>4, <1>5
\* What another transaction reads stays a past of what is committed.
LEMMA CommitReads ==
  ASSUME Inv, NEW p \in Procs, Commit(p), NEW q \in Procs \ {p}, Busy(q)
  PROVE  ReadInv(q)'
<1>1. /\ TypeOK /\ ReadInv(q)
      /\ written[p] \cap written[q] = {}
      /\ written[q] \subseteq Balances
  BY DEF Inv, Apart, TypeOK
<1>2. /\ logs' = logs \cup added[p]
      /\ rows'[q] = rows[q] /\ seen'[q] = seen[q]
      /\ written'[q] = written[q] /\ added'[q] = added[q]
  BY <1>1 DEF Commit, Forget, TypeOK
<1>3. ASSUME NEW b \in written[q]
      PROVE  rows[q][b].exists /\ LogsOf(logs', b) \subseteq seen[q]
  <2>1. b \in Balances /\ b \notin written[p]
    BY <1>1
  <2>2. LogsOf(logs', b) = LogsOf(logs, b)
    BY <2>1, CommitForward
  <2> QED BY <1>1, <2>2 DEF ReadInv
<1>4. ASSUME NEW b \in Balances \ written[q]
      PROVE  /\ rows[q][b].ver <= balance'[b].ver
             /\ rows[q][b].exists => balance'[b].exists
             /\ rows[q][b].ver = balance'[b].ver =>
                   rows[q][b].qty = balance'[b].qty
             /\ \A l \in LogsOf(logs', b) :
                   l.ver <= rows[q][b].ver => l \in seen[q]
  <2>1. /\ rows[q][b].ver <= balance[b].ver
        /\ rows[q][b].exists => balance[b].exists
        /\ rows[q][b].ver = balance[b].ver => rows[q][b].qty = balance[b].qty
        /\ \A l \in LogsOf(logs, b) : l.ver <= rows[q][b].ver => l \in seen[q]
    BY <1>1 DEF ReadInv
  <2>2. /\ balance[b].exists => balance'[b].exists
        /\ balance[b].ver <= balance'[b].ver
        /\ balance'[b].ver = balance[b].ver => balance'[b].qty = balance[b].qty
        /\ \A l \in LogsOf(logs', b) : l \in logs \/ l.ver > balance[b].ver
    BY CommitForward
  <2>3. TypeOK'
    BY <1>1, CommitType
  <2>4. /\ rows[q][b].ver \in Nat /\ balance[b].ver \in Nat
        /\ balance'[b].ver \in Nat
        /\ \A l \in LogsOf(logs', b) : l.ver \in Nat
    BY <1>1, <2>3 DEF TypeOK, Row, LogsOf, LogRow
  <2>5. ASSUME NEW l \in LogsOf(logs', b), l.ver <= rows[q][b].ver
        PROVE  l \in seen[q]
    <3>1. l \in logs
      BY <2>1, <2>2, <2>4, <2>5
    <3>2. l \in LogsOf(logs, b)
      BY <3>1 DEF LogsOf
    <3> QED BY <2>1, <2>5, <3>2
  <2> QED BY <2>1, <2>2, <2>4, <2>5
<1>5. /\ added[q] \subseteq seen[q] /\ seen[q] \subseteq logs' \cup added[q]
      /\ \A b \in Balances : GoodRow(rows[q][b])
  BY <1>1, <1>2 DEF ReadInv
<1> QED BY <1>2, <1>3, <1>4, <1>5 DEF ReadInv, LogsOf

\* What another transaction has written stays a continuation of it.
LEMMA CommitWrites ==
  ASSUME Inv, NEW p \in Procs, Commit(p), NEW q \in Procs \ {p}, Busy(q)
  PROVE  WriteInv(q)'
<1>p. /\ TypeOK /\ WriteInv(p) /\ Posted(p) = logs \cup added[p]
  BY DEF Inv, Commit, Busy, Posted
<1>1. /\ WriteInv(q) /\ Apart(p, q) /\ written[q] \subseteq Balances
      /\ InCall(q) => CallInv(q)
  BY DEF Inv, TypeOK
<1>2. /\ logs' = logs \cup added[p]
      /\ rows'[q] = rows[q] /\ pc'[q] = pc[q] /\ call'[q] = call[q]
      /\ written'[q] = written[q] /\ added'[q] = added[q]
  BY <1>p DEF Commit, Forget, TypeOK
<1>3. Posted(q)' = Posted(q) \cup added[p]
  <2>1. CASE pc[q] = "casLast"
    <3>1. call[q] \in added[q]
      BY <1>1, <2>1 DEF InCall, CallInv, Steps
    <3>2. call[q] \notin added[p]
      BY <1>1, <3>1 DEF Apart, Clash
    <3> QED BY <1>2, <2>1, <3>2 DEF Posted
  <2>2. CASE pc[q] # "casLast"
    BY <1>2, <2>2 DEF Posted
  <2> QED BY <2>1, <2>2
<1>4. ASSUME NEW b \in written[q]
      PROVE  Chained(rows[q][b], LogsOf(Posted(q)', b))
  <2>1. b \in Balances \ written[p]
    BY <1>1 DEF Apart
  <2>2. LogsOf(logs \cup added[p], b) = LogsOf(logs, b)
    BY <1>p, <2>1 DEF WriteInv
  <2>3. LogsOf(Posted(q), b) = LogsOf(Posted(q) \cup added[p], b)
    <3>1. CASE pc[q] = "casLast"
      <4>1. call[q] \in added[q]
        BY <1>1, <3>1 DEF InCall, CallInv, Steps
      <4>2. call[q] \notin added[p]
        BY <1>1, <4>1 DEF Apart, Clash
      <4>3. Posted(q) = (logs \cup added[q]) \ {call[q]}
        BY <3>1 DEF Posted
      <4> QED BY <2>2, <4>2, <4>3 DEF LogsOf
    <3>2. CASE pc[q] # "casLast"
      BY <2>2, <3>2 DEF LogsOf, Posted
    <3> QED BY <3>1, <3>2
  <2> QED BY <1>1, <1>3, <2>3 DEF WriteInv
<1>5. ASSUME NEW b \in Balances \ written[q]
      PROVE  LogsOf(Posted(q)', b) = LogsOf(logs', b)
  <2>1. LogsOf(Posted(q), b) = LogsOf(logs, b)
    BY <1>1 DEF WriteInv
  <2> QED BY <1>2, <1>3, <2>1 DEF LogsOf
<1>6. \A l \in added[q] : GoodLog(l, logs' \cup added[q])
  BY <1>1, <1>2 DEF WriteInv, GoodLog, Opposed
<1>7. NoClash(logs' \cup added[q])
  BY <1>p, <1>1, <1>2, ClashSymmetric DEF WriteInv, NoClash, Apart
<1>8. \A b \in written'[q] : Chained(rows'[q][b], LogsOf(Posted(q)', b))
  BY <1>2, <1>4
<1>9. \A b \in Balances \ written'[q] : LogsOf(Posted(q)', b) = LogsOf(logs', b)
  BY <1>2, <1>5
<1> QED BY <1>2, <1>6, <1>7, <1>8, <1>9 DEF WriteInv, LogsOf

LEMMA CommitInv ==
  ASSUME Inv, NEW p \in Procs, Commit(p)
  PROVE  Inv'
<1>1. TypeOK /\ TypeOK'
  BY CommitType DEF Inv
<1>2. /\ WriteInv(p) /\ Posted(p) = logs \cup added[p]
      /\ logs' = logs \cup added[p]
  BY DEF Inv, Commit, Busy, Posted
<1>3. /\ pc'[p] = "idle" /\ written'[p] = {} /\ added'[p] = {}
      /\ Elsewhere(p)
  BY <1>1 DEF Commit, Forget, Elsewhere, TypeOK
<1>4. StoreInv'
  <2>1. \A b \in Balances : GoodRow(balance'[b])
    BY CommitForward
  <2>2. \A b \in Balances : Chained(balance'[b], LogsOf(logs', b))
    BY CommitForward
  <2>3. \A l \in logs' : GoodLog(l, logs')
    BY <1>2 DEF Inv, StoreInv, WriteInv, GoodLog, Opposed
  <2>4. NoClash(logs')
    BY <1>2 DEF WriteInv
  <2> QED BY <2>1, <2>2, <2>3, <2>4 DEF StoreInv, LedgerReplays
<1>5. \A q \in Procs : ~Busy(q)' => written'[q] = {} /\ added'[q] = {}
  BY <1>3 DEF Inv, Elsewhere, Busy
<1>6. \A q \in Procs : Busy(q)' => ReadInv(q)' /\ WriteInv(q)'
  BY <1>3, CommitReads, CommitWrites DEF Elsewhere, Busy
<1>7. ASSUME NEW q \in Procs, InCall(q)' PROVE CallInv(q)'
  <2>1. q # p /\ InCall(q)
    BY <1>3, <1>7 DEF InCall, Elsewhere
  <2>2. CallInv(q)
    BY <2>1 DEF Inv
  <2> QED BY <1>3, <2>1, <2>2 DEF CallInv, Elsewhere
<1>8. \A q, r \in Procs : q # r => Apart(q, r)'
  BY <1>3 DEF Inv, Apart, Elsewhere
<1> QED BY <1>1, <1>4, <1>5, <1>6, <1>7, <1>8 DEF Inv
-----------------------------------------------------------------------------
(* The theorems.                                                           *)

LEMMA InitInv == Init => Inv
<1> SUFFICES ASSUME Init PROVE Inv
  OBVIOUS
<1>1. TypeOK
  BY InitType
<1>2. /\ \A b \in Balances : balance[b] = NoRow
      /\ logs = {}
      /\ \A p \in Procs : pc[p] = "idle" /\ written[p] = {} /\ added[p] = {}
  BY DEF Init
<1>3. GoodRow(NoRow) /\ Chained(NoRow, {})
  BY DEF GoodRow, Chained, NoRow
<1>4. \A b \in Balances : LogsOf(logs, b) = {}
  BY <1>2 DEF LogsOf
<1>5. StoreInv
  BY <1>2, <1>3, <1>4 DEF StoreInv, LedgerReplays, NoClash
<1>6. \A p \in Procs : ~Busy(p) /\ ~InCall(p)
  BY <1>2 DEF Busy, InCall
<1>7. \A p, q \in Procs : p # q => Apart(p, q)
  BY <1>2 DEF Apart
<1> QED BY <1>1, <1>2, <1>5, <1>6, <1>7 DEF Inv

LEMMA StepInv ==
  ASSUME KeysDetermineCommand, Inv, [Next]_vars
  PROVE  Inv'
<1>1. CASE UNCHANGED vars
  <2>1. UNCHANGED <<balance, logs, pc, rows, seen, written, added, call, script>>
    BY <1>1 DEF vars
  <2>2. StoreInv' = StoreInv /\ TypeOK' = TypeOK
    BY <2>1 DEF StoreInv, LedgerReplays, TypeOK
  <2>3. ASSUME NEW p \in Procs
        PROVE  /\ Busy(p)' = Busy(p) /\ InCall(p)' = InCall(p)
               /\ ReadInv(p)' = ReadInv(p) /\ CallInv(p)' = CallInv(p)
               /\ WriteInv(p)' = WriteInv(p)
    <3>1. Posted(p)' = Posted(p)
      BY <2>1 DEF Posted
    <3>2. WriteInv(p)' = WriteInv(p)
      BY <2>1, <3>1 DEF WriteInv
    <3> QED BY <2>1, <3>2 DEF Busy, InCall, ReadInv, CallInv
  <2>4. \A p, q \in Procs : Apart(p, q)' = Apart(p, q)
    BY <2>1 DEF Apart
  <2> QED BY <2>1, <2>2, <2>3, <2>4 DEF Inv
<1>2. ASSUME NEW p \in Procs, NEW h \in Handlers, Begin(p, h) PROVE Inv'
  BY <1>2, BeginInv
<1>3. ASSUME NEW p \in Procs, Commit(p) PROVE Inv'
  BY <1>3, CommitInv
<1>4. ASSUME NEW p \in Procs, Rollback(p) PROVE Inv'
  BY <1>4, ThrowInv DEF Rollback
<1>5. ASSUME NEW p \in Procs, CreateBalance(p) PROVE Inv'
  BY <1>5, CreateBalanceInv
<1>6. ASSUME NEW p \in Procs, UpdateBalance(p) PROVE Inv'
  BY <1>6, UpdateBalanceInv
<1>7. ASSUME NEW p \in Procs, InsertLog(p) PROVE Inv'
  BY <1>7, InsertLogInv
<1>8. ASSUME NEW p \in Procs, Ready(p),
             \/ IncreaseStock(p, Head(script[p]))
             \/ DecreaseStock(p, Head(script[p]))
             \/ ReverseStock(p, Head(script[p]))
      PROVE  Inv'
  <2>1. Head(script[p]) \in Commands
    BY <1>8, HeadType DEF Inv
  <2> QED BY <1>8, <2>1, CommandsInv
<1> QED BY <1>1, <1>2, <1>3, <1>4, <1>5, <1>6, <1>7, <1>8 DEF Next

\* Inv is inductive when one key never stands for two commands.
LEMMA Invariance == ASSUME KeysDetermineCommand PROVE Spec => []Inv
<1>1. Init => Inv
  BY InitInv
<1>2. Inv /\ [Next]_vars => Inv'
  BY StepInv
<1> QED BY <1>1, <1>2, PTL DEF Spec

\* Every balance is the end of the unbroken chain of its logs: no handler,
\* however its statements interleave with others, are rolled back, repeated
\* or refused by a unique index, leaves a balance change without its log.
THEOREM LedgerAlwaysReplays ==
  ASSUME KeysDetermineCommand PROVE Spec => []LedgerReplays
<1>1. Inv => LedgerReplays
  BY DEF Inv, StoreInv
<1> QED BY <1>1, Invariance, PTL

\* No balance and no point of its history is ever below zero, although the
\* check of afterQty is made on a snapshot that may be stale.
THEOREM StockNeverNegative ==
  ASSUME KeysDetermineCommand PROVE Spec => []NeverNegative
<1>1. Inv => NeverNegative
  BY DEF Inv, StoreInv, GoodRow, GoodLog, NeverNegative
<1> QED BY <1>1, Invariance, PTL

\* A log is never reversed twice, whichever two handlers try under whichever
\* keys, and its reversal is its exact opposite on the same balance.
THEOREM NoSecondReversal ==
  ASSUME KeysDetermineCommand PROVE Spec => []ReversedAtMostOnce
<1>1. Inv => ReversedAtMostOnce
  <2> SUFFICES ASSUME Inv PROVE ReversedAtMostOnce
    OBVIOUS
  <2>1. \A l, m \in logs : l.rev # NoKey /\ l.rev = m.rev => l = m
    BY DEF Inv, StoreInv, NoClash, Clash
  <2>2. \A l \in logs : Opposed(l, logs)
    BY DEF Inv, StoreInv, GoodLog
  <2>3. \A l \in logs : l.change \in Int
    BY DEF Inv, TypeOK, LogRow
  <2> QED BY <2>1, <2>2, <2>3 DEF ReversedAtMostOnce, Opposed
<1> QED BY <1>1, Invariance, PTL

-----------------------------------------------------------------------------
(* The ledger implements the atomic one.                                   *)

\* The logs of a balance add up to its quantity: the chain telescopes, one
\* version after the other.
LEMMA ChainTotal ==
  ASSUME NEW row \in Row, NEW L, L \subseteq LogRow, Chained(row, L)
  PROVE  SumFunction([l \in L |-> l.change]) = row.qty
<1> DEFINE f == [l \in L |-> l.change]
           UpTo(n) == {l \in L : l.ver <= n}
           Fits(n) == /\ IsFiniteSet(UpTo(n))
                      /\ n = 0 => SumFunctionOnSet(f, UpTo(n)) = 0
                      /\ \A l \in L : l.ver = n => SumFunctionOnSet(f, UpTo(n)) = l.after
           Bad == {n \in 0..row.ver : ~Fits(n)}
<1>1. /\ row.ver \in Nat /\ row.qty \in Int
      /\ \A l \in L : /\ l.ver \in 1..row.ver /\ l.after = l.before + l.change
                       /\ l.change \in Int /\ l.before \in Int /\ l.after \in Int
                       /\ f[l] = l.change
  BY DEF Chained, Row, LogRow
<1>2. Fits(0)
  <2>1. UpTo(0) = {}
    BY <1>1
  <2>2. IsFiniteSet({}) /\ SumFunctionOnSet(f, {}) = 0
    BY FS_EmptySet, SumStep
  <2>3. \A l \in L : l.ver # 0
    BY <1>1
  <2> HIDE DEF f, UpTo
  <2> QED BY <2>1, <2>2, <2>3
<1>3. ASSUME NEW n \in 0..row.ver, n + 1 \in 0..row.ver, Fits(n)
      PROVE  Fits(n + 1)
  <2>1. PICK l \in L : l.ver = n + 1
    BY <1>1, <1>3 DEF Chained
  <2>2. UpTo(n + 1) \ {l} = UpTo(n) /\ UpTo(n + 1) = UpTo(n) \cup {l}
    <3>1. \A m \in L : m.ver <= n + 1 <=> (m.ver <= n \/ m = l)
      BY <1>1, <1>3, <2>1 DEF Chained
    <3>2. ~(l.ver <= n)
      BY <1>3, <2>1
    <3> QED BY <3>1, <3>2
  <2>3. IsFiniteSet(UpTo(n + 1))
    <3>1. IsFiniteSet(UpTo(n))
      BY <1>3
    <3> HIDE DEF UpTo
    <3>2. IsFiniteSet(UpTo(n) \cup {l})
      BY <3>1, FS_AddElement
    <3> QED BY <2>2, <3>2
  <2>4. SumFunctionOnSet(f, UpTo(n + 1)) = f[l] + SumFunctionOnSet(f, UpTo(n))
    <3>1. \A x \in UpTo(n + 1) : f[x] \in Int
      BY <1>1
    <3>2. l \in UpTo(n + 1)
      BY <2>2
    <3> HIDE DEF f, UpTo
    <3> QED BY <2>2, <2>3, <3>1, <3>2, SumWithout
  <2>5. SumFunctionOnSet(f, UpTo(n)) = l.before
    <3>1. CASE n = 0
      BY <1>3, <2>1, <3>1 DEF Chained
    <3>2. CASE n # 0
      <4>1. PICK m \in L : m.ver = n
        BY <1>1, <1>3, <3>2 DEF Chained
      <4>2. l.before = m.after
        BY <2>1, <4>1 DEF Chained
      <4> QED BY <1>3, <4>1, <4>2
    <3> QED BY <3>1, <3>2
  <2>6. SumFunctionOnSet(f, UpTo(n + 1)) = l.after
    <3> HIDE DEF f, UpTo
    <3> QED BY <1>1, <2>4, <2>5
  <2>7. \A m \in L : m.ver = n + 1 => m = l
    BY <2>1 DEF Chained
  <2>8. n + 1 # 0
    BY <1>3
  <2> HIDE DEF f, UpTo
  <2> QED BY <2>3, <2>6, <2>7, <2>8
<1>4. Bad = {}
  <2> SUFFICES ASSUME Bad # {} PROVE FALSE
    OBVIOUS
  <2>1. PICK n \in Bad : \A m \in Bad : n <= m
    <3>1. Bad \subseteq Nat
      OBVIOUS
    <3> HIDE DEF Bad
    <3> QED BY <3>1, SmallestOf
  <2> HIDE DEF Fits
  <2>2. n # 0 /\ n \in 0..row.ver /\ n - 1 \in 0..row.ver /\ (n - 1) + 1 = n
    BY <1>1, <1>2, <2>1
  <2>3. n - 1 \notin Bad
    BY <2>1, <2>2
  <2>4. Fits(n - 1)
    BY <2>2, <2>3
  <2>5. Fits((n - 1) + 1)
    BY <1>3, <2>2, <2>4
  <2> QED BY <2>1, <2>2, <2>5
<1>5. Fits(row.ver) /\ UpTo(row.ver) = L
  <2>1. row.ver \in 0..row.ver
    BY <1>1
  <2>2. Fits(row.ver)
    <3> HIDE DEF Fits
    <3> QED BY <1>4, <2>1
  <2>3. UpTo(row.ver) = L
    BY <1>1
  <2> QED BY <2>2, <2>3
<1>6. SumFunctionOnSet(f, L) = row.qty
  <2>1. CASE row.ver = 0
    BY <1>5, <2>1 DEF Chained
  <2>2. CASE row.ver # 0
    <3>1. PICK l \in L : l.ver = row.ver
      BY <1>1, <2>2 DEF Chained
    <3> QED BY <1>5, <3>1 DEF Chained
  <2> QED BY <2>1, <2>2
<1>7. DOMAIN f = L
  OBVIOUS
<1> HIDE DEF f
<1>8. SumFunction(f) = row.qty
  BY <1>6, <1>7 DEF SumFunction
<1> QED BY <1>8 DEF f

\* What the committed state is in the terms of the atomic ledger.
LEMMA StoreTotals ==
  ASSUME NEW bal \in [Balances -> Row], NEW L, L \subseteq LogRow,
         \A b \in Balances : Chained(bal[b], LogsOf(L, b))
  PROVE  \A b \in Balances : bal[b].qty = Promise!Total(L, b)
<1> TAKE b \in Balances
<1>1. LogsOf(L, b) \subseteq LogRow /\ bal[b] \in Row
  BY DEF LogsOf
<1>2. SumFunction([l \in LogsOf(L, b) |-> l.change]) = bal[b].qty
  BY <1>1, ChainTotal
<1>3. Promise!Total(L, b) = SumFunction([l \in LogsOf(L, b) |-> l.change])
  BY DEF Promise!Total, LogsOf, Promise!SumFunction, Promise!SumFunctionOnSet,
         Promise!FoldFunctionOnSet, Promise!MapThenFoldSet, SumFunction,
         SumFunctionOnSet, FoldFunctionOnSet, MapThenFoldSet
<1> QED BY <1>2, <1>3

\* What the atomic ledger says of one state.
Kept ==
    /\ \A l \in logs : \E c \in Commands : Promise!Asks(c, l)
    /\ \A l, m \in logs : l.key = m.key => l = m
    /\ \A l \in logs : Promise!IsReversal(l) =>
          /\ \E m \in logs : Promise!Opposes(l, m)
          /\ \A m \in logs : m.rev = l.rev => m = l
    /\ \A b \in Balances : balance[b].qty = Promise!Total(logs, b) /\ balance[b].qty >= 0

LEMMA KeptHolds == Inv => Kept
<1> SUFFICES ASSUME Inv PROVE Kept
  OBVIOUS
<1>1. StoreInv /\ TypeOK
  BY DEF Inv
<1>2. \A l \in logs : Commanded(l) /\ Opposed(l, logs) /\ l.change \in Int
  BY <1>1 DEF StoreInv, GoodLog, TypeOK, LogRow
<1>3. \A l, m \in logs : Clash(l, m) => l = m
  BY <1>1 DEF StoreInv, NoClash
<1>4. ASSUME NEW l \in logs, Promise!IsReversal(l)
      PROVE  \E m \in logs : Promise!Opposes(l, m)
  <2>1. l.rev # NoKey
    BY <1>4 DEF Promise!IsReversal
  <2>2. PICK m \in logs : m.key = l.rev /\ m.bal = l.bal /\ m.change = 0 - l.change
    BY <1>2, <2>1 DEF Opposed
  <2>3. l.change = 0 - m.change
    BY <1>2, <2>2
  <2> QED BY <2>2, <2>3 DEF Promise!Opposes
<1>5. \A b \in Balances : balance[b].qty = Promise!Total(logs, b)
  BY <1>1, StoreTotals DEF TypeOK, StoreInv, LedgerReplays
<1>6. \A b \in Balances : balance[b].qty >= 0
  BY <1>1 DEF StoreInv, GoodRow
<1> QED BY <1>2, <1>3, <1>4, <1>5, <1>6 DEF Kept, Commanded, Clash, Promise!IsReversal

\* Only a commit writes what is committed, and it adds logs.
LEMMA CommitsOnly ==
  ASSUME [Next]_vars
  PROVE  UNCHANGED committed \/ logs \subseteq logs'
<1>1. CASE UNCHANGED vars
  BY <1>1 DEF vars, committed
<1>2. ASSUME NEW p \in Procs, NEW h \in Handlers, Begin(p, h) PROVE UNCHANGED committed
  BY <1>2 DEF Begin
<1>3. ASSUME NEW p \in Procs, Commit(p) PROVE logs \subseteq logs'
  BY <1>3 DEF Commit
<1>4. ASSUME NEW p \in Procs, Rollback(p) PROVE UNCHANGED committed
  BY <1>4 DEF Rollback, Throw
<1>5. ASSUME NEW p \in Procs, CreateBalance(p) \/ UpdateBalance(p) \/ InsertLog(p)
      PROVE  UNCHANGED committed
  BY <1>5 DEF CreateBalance, UpdateBalance, InsertLog, ResolveConflict, Conflict, Throw
<1>6. ASSUME NEW p \in Procs, NEW c,
             IncreaseStock(p, c) \/ DecreaseStock(p, c) \/ ReverseStock(p, c)
      PROVE  UNCHANGED committed
  BY <1>6 DEF IncreaseStock, DecreaseStock, ReverseStock, ReturnExisting, Refuse, Throw, Start
<1> QED BY <1>1, <1>2, <1>3, <1>4, <1>5, <1>6 DEF Next

\* The mapped quantities of the balances.
OnHand == [b \in Balances |-> balance[b].qty]

LEMMA PostsOrStutters ==
  ASSUME Inv, Inv', [Next]_vars
  PROVE  [Promise!Post]_<<OnHand, logs>>
<1>1. Kept /\ Kept'
  <2>1. Inv' => Kept'
    BY KeptHolds, PTL
  <2> QED BY <2>1, KeptHolds
<1>2. CASE logs' = logs
  <2>1. \A b \in Balances : balance'[b].qty = balance[b].qty
    BY <1>1, <1>2 DEF Kept
  <2> QED BY <1>2, <2>1 DEF OnHand
<1>3. CASE logs' # logs
  <2>1. logs \subseteq logs'
    BY <1>3, CommitsOnly DEF committed
  <2>2. /\ \A l \in logs' \ logs : \E c \in Commands : Promise!Asks(c, l)
        /\ \A l, m \in logs' : l.key = m.key => l = m
        /\ \A l \in logs' : Promise!IsReversal(l) =>
              /\ \E m \in logs' : Promise!Opposes(l, m)
              /\ \A m \in logs' : m.rev = l.rev => m = l
    BY <1>1 DEF Kept
  <2>3. OnHand' = [b \in Balances |-> Promise!Total(logs', b)]
    BY <1>1 DEF Kept, OnHand
  <2>4. \A b \in Balances : OnHand'[b] >= 0
    BY <1>1 DEF Kept, OnHand
  <2> QED BY <1>3, <2>1, <2>2, <2>3, <2>4 DEF Promise!Post, OnHand
<1> QED BY <1>2, <1>3

\* The statements of increaseStock, decreaseStock and reverseStock, run one by one
\* in transactions that interleave, retry and roll back, are together what the
\* callers are promised: each commit posts its commands at once, each as asked
\* for and only once, and the stock on hand is the sum of all postings.
THEOREM LedgerImplementsAtomic ==
  ASSUME KeysDetermineCommand PROVE Spec => ImplementsAtomicLedger
<1>1. Init => Promise!Init
  BY DEF Init, Promise!Init, NoRow
<1>2. Inv /\ Inv' /\ [Next]_vars => [Promise!Post]_<<OnHand, logs>>
  BY PostsOrStutters
<1>3. Inv /\ Inv' /\ [Next]_vars
         => [Promise!Post]_<<[b \in Balances |-> balance[b].qty], logs>>
  BY <1>2 DEF OnHand
<1> QED BY <1>1, <1>3, Invariance, PTL DEF Spec, ImplementsAtomicLedger, Promise!Spec
=============================================================================
