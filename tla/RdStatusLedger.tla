---------------------------- MODULE RdStatusLedger -----------------------------
(***************************************************************************)
(* The status ledger of procurement request lines: a bucket for each       *)
(* status, and the histories that explain the buckets.  As in SourceLayers *)
(* an operation is an operator on a transaction.  Its store has            *)
(*   buckets     of each request line, status -> quantity                  *)
(*   histories   the rows of rd_material_status_history                    *)
(***************************************************************************)
EXTENDS Documents

\* RdMaterialStatus; the ledger of a line has a bucket for each.
Statuses == {"pending", "inProcurement", "canceled", "accepted", "handedOff",
             "scrapped", "returned"}
Unfilled == <<"inProcurement", "pending">>     \* in the order they are drawn on
NoBuckets == [s \in Statuses |-> 0]
NoHistory == 0

\* updateLedgerGuarded: every bucket must have the value that was read
\* (mutation: the update goes by id alone).
AnyBuckets(t, r) == TRUE
SameBuckets(t, r) == t.c.buckets[r] = t.v.buckets[r]

SetBuckets(t, r, b) ==
    IF ~t.ok \/ ~SameBuckets(t, r) THEN Fail(t)
    ELSE Both(t, LAMBDA st : [st EXCEPT !.buckets[r] = b])

\* A history row; "rev" is reversalOfHistoryId, "undone" isReversed and "log"
\* relatedInventoryLogId, kept for returns only.
History(r, event, doc, from, to, qty, rev) ==
    [id |-> NoHistory, of |-> r, event |-> event, doc |-> doc, from |-> from, to |-> to,
     qty |-> qty, rev |-> rev, undone |-> FALSE, log |-> NoLog]

NextHistory(t) == Cardinality(t.c.histories) + 1
AddHistory(t, h) ==
    LET row == [h EXCEPT !.id = NextHistory(t)]
    IN  Both(t, LAMBDA st : [st EXCEPT !.histories = @ \cup {row}])

\* An update of the history rows in K.
MarkHistories(t, K, Mark(_)) ==
    Both(t, LAMBDA st : [st EXCEPT !.histories =
                {IF h.id \in K THEN Mark(h) ELSE h : h \in @}])

\* What is drawn from each status, in order, until the quantity is complete.
Drawn(b, froms, qty) ==
    LET Draw(acc, s) ==
            LET move == Min({acc.left, b[s]})
            IN  IF move = 0 THEN acc
                ELSE [left |-> acc.left - move,
                      pieces |-> Append(acc.pieces, [from |-> s, qty |-> move])]
    IN  FoldLeft(Draw, [left |-> qty, pieces |-> <<>>], froms)

MoveQty(b, from, to, qty) == [b EXCEPT ![from] = @ - qty, ![to] = @ + qty]

\* transferStatusQuantity: one history for each status that was drawn on.
Transfer(t, r, event, doc, froms, to, qty) ==
    LET drawn == Drawn(t.v.buckets[r], froms, qty)
        b == FoldLeft(LAMBDA acc, m : MoveQty(acc, m.from, to, m.qty),
                      t.v.buckets[r], drawn.pieces)
        Explain(acc, m) == AddHistory(acc, History(r, event, doc, m.from, to, m.qty, NoHistory))
    IN  IF drawn.left > 0 THEN Fail(t)
        ELSE FoldLeft(Explain, SetBuckets(t, r, b), drawn.pieces)

HistoryById(st, id) == CHOOSE h \in st.histories : h.id = id

\* The unique index on reversalOfHistoryId.
NotYetReversed(t, id) == \A h \in t.c.histories : h.rev # id

\* reverseStatusHistory.
ReverseHistory(t, id) ==
    LET h == HistoryById(t.v, id)
        b == t.v.buckets[h.of]
        undone == MarkHistories(SetBuckets(t, h.of, MoveQty(b, h.to, h.from, h.qty)), {id},
                                LAMBDA row : [row EXCEPT !.undone = TRUE])
    IN  IF ~t.ok \/ h.rev # NoHistory \/ h.from = "none" THEN Fail(t)
        ELSE IF h.undone THEN t
        ELSE IF b[h.to] < h.qty \/ ~NotYetReversed(t, id) THEN Fail(t)
        ELSE AddHistory(undone, History(h.of, "rollback", h.doc, h.to, h.from, h.qty, id))

\* reverseStatusHistoriesBySourceDocument, newest first.
ReverseHistories(t, doc, event) ==
    LET rows == {h \in t.v.histories :
                    h.event = event /\ h.doc = doc /\ h.rev = NoHistory /\ ~h.undone}
    IN  NewestFirst(ReverseHistory, t, {h.id : h \in rows})
=============================================================================
