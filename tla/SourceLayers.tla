----------------------------- MODULE SourceLayers -----------------------------
(***************************************************************************)
(* The stock commands of inventory-core that keep the source layers: which *)
(* IN log (the layer) each issued quantity was taken from, through the     *)
(* rows of inventory_source_usage.                                         *)
(*                                                                         *)
(* A command is an operator on a transaction t = [v, c, ok, dup]: v is the *)
(* store that the transaction reads (its REPEATABLE READ snapshot with its *)
(* own writes), c the store that its writes apply to (the committed rows   *)
(* with its own writes), ok is FALSE once an exception left the command,   *)
(* dup marks a P2002 that the command in progress may still catch.         *)
(*                                                                         *)
(* A store has at least the fields                                         *)
(*   qty, ver   quantityOnHand and rowVersion of the one balance row       *)
(*   logs       the inventory_log rows                                     *)
(*   usage      <<document, line, source log>> -> [alloc, rel, open]       *)
(***************************************************************************)
EXTENDS Integers, Sequences, TLC, FiniteSetsExt, SequencesExt

NoLog == 0     \* the null of reversalOfLogId, or no source named by hand
AnyPrice == 0  \* no price layer selected

\* A posting: the log row before it is written, when it gets its id.  "source"
\* says that findFifoSourceLogs may return it, "pieces" are its cost allocations.
Posting(key, doc, line, change, price, source, pieces) ==
    [id |-> NoLog, key |-> key, doc |-> doc, line |-> line, change |-> change,
     price |-> price, rev |-> NoLog, source |-> source, pieces |-> pieces]

\* A loop over the ids in S, in the order in which Final says which one is last.
InOrder(op(_, _), base, S, Final(_)) ==
    MapThenFoldSet(LAMBDA id, acc : op(acc, id), base, LAMBDA id : id, Final, S)
OldestFirst(op(_, _), base, S) == InOrder(op, base, S, Max)
NewestFirst(op(_, _), base, S) == InOrder(op, base, S, Min)

\* The function f, with the value x at k.
Put(f, k, x) == [j \in DOMAIN f \cup {k} |-> IF j = k THEN x ELSE f[j]]

Fail(t) == [t EXCEPT !.ok = FALSE]

\* A write that sees the same columns in both stores.
Both(t, F(_)) == [t EXCEPT !.v = F(@), !.c = F(@)]

-----------------------------------------------------------------------------
(* What a store says about its logs and layers.                            *)

HasKey(st, key) == \E l \in st.logs : l.key = key
Reversed(st, id) == \E l \in st.logs : l.rev = id
LogOf(st, id) == CHOOSE l \in st.logs : l.id = id

\* findOriginalLogsByBusinessDocument: what is posted and not reversed.
OriginalLogs(st, doc) ==
    {l \in st.logs : l.doc = doc /\ l.rev = NoLog /\ ~Reversed(st, l.id)}

\* getSourceUsageTotals: allocated less released, over all consumers.
Unreleased(st, K) == MapThenSumSet(LAMBDA k : st.usage[k].alloc - st.usage[k].rel, K)
Claimed(st, id) == Unreleased(st, {k \in DOMAIN st.usage : k[3] = id})
HasUnreleasedAllocations(st, id) == Claimed(st, id) > 0
Available(st, id) == LogOf(st, id).change - Claimed(st, id)

\* findFifoSourceLogs, for one price layer when a price was selected.
FifoSources(st, price) ==
    {l \in st.logs : /\ l.source
                     /\ price \in {l.price, AnyPrice}
                     /\ ~Reversed(st, l.id)
                     /\ Available(st, l.id) > 0}

\* listPriceLayerAvailability.
LayerAvailability(st, price) ==
    MapThenSumSet(LAMBDA l : Available(st, l.id), FifoSources(st, price))

-----------------------------------------------------------------------------
(* The balance and its logs.                                               *)

\* updateBalanceOptimistically: rowVersion must be the one read (mutation: the
\* update goes by id alone).
AnyVersion(t) == TRUE
SameVersion(t) == t.c.ver = t.v.ver

MoveBalance(t, change) ==
    LET qty == t.v.qty + change
    IN  IF ~SameVersion(t) THEN Fail(t)
        ELSE Both(t, LAMBDA st : [st EXCEPT !.qty = qty, !.ver = t.c.ver + 1])

\* inventoryLog.create, once the unique indexes have let it pass.
AddLog(t, posting) ==
    LET log == [posting EXCEPT !.id = Cardinality(t.c.logs) + 1]
    IN  Both(t, LAMBDA st : [st EXCEPT !.logs = @ \cup {log}])

\* increaseStock moves the balance before it writes the log: a key that was
\* taken since the snapshot leaves the movement in place.
IncreaseStock(t, posting) ==
    LET moved == MoveBalance(t, posting.change)
    IN  IF ~t.ok \/ HasKey(t.v, posting.key) THEN t
        ELSE IF ~moved.ok \/ HasKey(t.c, posting.key) THEN moved
        ELSE AddLog(moved, posting)

\* Log first, balance second: a key or a reversal that was there already
\* returns before the balance is looked at.
PostLogFirst(t, posting, taken) ==
    IF t.v.qty + posting.change < 0 THEN Fail(t)
    ELSE IF taken THEN t
    ELSE MoveBalance(AddLog(t, posting), posting.change)

\* reverseStock.
ReverseStock(t, id, key) ==
    LET src == LogOf(t.v, id)
        posting == [Posting(key, src.doc, src.line, 0 - src.change, src.price,
                            FALSE, src.pieces) EXCEPT !.rev = id]
    IN  IF ~t.ok \/ HasKey(t.v, key) \/ Reversed(t.v, id) THEN t
        ELSE PostLogFirst(t, posting, HasKey(t.c, key) \/ Reversed(t.c, id))

-----------------------------------------------------------------------------
(* Source usage.                                                           *)

\* allocateInventorySource with replaceReleasedAllocation, as settlement
\* calls it: a row of an earlier posting of the line must be fully released
\* and is then used afresh.
AllocateInventorySource(t, key, qty) ==
    LET known == key \in DOMAIN t.v.usage
        row == [alloc |-> qty, rel |-> 0, open |-> TRUE]
    IN  CASE known /\ t.v.usage[key].rel # t.v.usage[key].alloc -> Fail(t)
          [] ~known /\ key \in DOMAIN t.c.usage -> [t EXCEPT !.dup = TRUE]
          [] OTHER -> Both(t, LAMBDA st : [st EXCEPT !.usage = Put(@, key, row)])

\* allocateByFifo: oldest layers first.  The layers are read once more under
\* SELECT ... FOR UPDATE, but as plain reads of the same snapshot.
AllocateByFifo(t, doc, line, qty, price) ==
    LET Take(acc, id) ==
            LET take == Min({acc.left, Available(acc.t.v, id)})
            IN  IF acc.left = 0 \/ ~acc.t.ok \/ acc.t.dup THEN acc
                ELSE [t |-> AllocateInventorySource(acc.t, <<doc, line, id>>, take),
                      left |-> acc.left - take]
        all == OldestFirst(Take, [t |-> t, left |-> qty],
                          {l.id : l \in FifoSources(t.v, price)})
    IN  IF all.left > 0 /\ ~all.t.dup THEN Fail(all.t) ELSE all.t

\* allocateManualSource: all of the quantity from the layer that was named,
\* which must be a source, in force, of the price and large enough.
FreeLayer(st, l, qty) == l.source /\ ~Reversed(st, l.id) /\ qty <= Available(st, l.id)
AllocateManualSource(t, doc, line, qty, price, id) ==
    LET layers == {l \in t.v.logs : /\ l.id = id
                                    /\ price \in {l.price, AnyPrice}
                                    /\ FreeLayer(t.v, l, qty)}
    IN  IF layers = {} THEN Fail(t) ELSE AllocateInventorySource(t, <<doc, line, id>>, qty)

\* settleConsumerOut, from a source named by hand or oldest first.  A P2002,
\* from the log or from a usage row, is caught: when the log with the key is
\* committed its settlement is returned, and what was allocated until then
\* stays.
SettleFromSource(t, key, doc, line, qty, price, source) ==
    LET a == IF source = NoLog THEN AllocateByFifo(t, doc, line, qty, price)
             ELSE AllocateManualSource(t, doc, line, qty, price, source)
        taken == HasKey(a.c, key)
        posting == Posting(key, doc, line, 0 - qty, price, FALSE, <<>>)
    IN  IF ~t.ok \/ HasKey(t.v, key) THEN t
        ELSE IF ~a.ok \/ (a.dup /\ ~taken) THEN Fail(a)
        ELSE IF a.dup THEN [a EXCEPT !.dup = FALSE]
        ELSE PostLogFirst(a, posting, taken)
SettleConsumerOut(t, key, doc, line, qty, price) ==
    SettleFromSource(t, key, doc, line, qty, price, NoLog)

\* The released total is set, not added to (mutation: it is added).
AddedRelease(row, target) == row.rel + target
NextReleased(row, target) == target

\* Lowering the released total takes stock of the layer again, which must still
\* be there (mutation: no check); that the layer was reversed meanwhile is not
\* looked at.
AnyRestore(st, key, target) == TRUE
CanRestore(st, key, target) ==
    st.usage[key].rel - target <= Available(st, key[3])

\* releaseInventorySource.
ReleaseInventorySource(t, key, target) ==
    LET row == t.v.usage[key]
        now == [t.c.usage[key] EXCEPT !.rel = NextReleased(row, target),
                                      !.open = target # row.alloc]
    IN  IF ~t.ok \/ key \notin DOMAIN t.v.usage \/ target > row.alloc THEN Fail(t)
        ELSE IF target = row.rel THEN t
        ELSE IF target < row.rel /\ ~CanRestore(t.v, key, target) THEN Fail(t)
        ELSE Both(t, LAMBDA st : [st EXCEPT !.usage[key] = now])

ReleaseAll(t, K) ==
    FoldSet(LAMBDA k, acc : ReleaseInventorySource(acc, k, acc.v.usage[k].alloc), t, K)

\* The usages of a line from which something can still be released.
LineUsages(st, doc, line) ==
    {k \in DOMAIN st.usage : k[1] = doc /\ k[2] = line
                             /\ st.usage[k].rel < st.usage[k].alloc}

\* Those whose status says so, which is what the queries for active usages ask.
ActiveUsages(st, doc, line) == {k \in LineUsages(st, doc, line) : st.usage[k].open}

\* releaseSourceUsagesForConsumerLine (mutation: left out).
KeepLineUsages(t, doc, line) == t
ReleaseSourceUsagesForLine(t, doc, line) == ReleaseAll(t, ActiveUsages(t.v, doc, line))

\* releaseAllSourceUsagesForConsumer (mutation: left out).
KeepSourceUsages(t, doc) == t
ReleaseAllSourceUsages(t, doc) ==
    ReleaseAll(t, UNION {ActiveUsages(t.v, doc, k[2]) : k \in DOMAIN t.v.usage})
=============================================================================
