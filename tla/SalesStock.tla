------------------------------ MODULE SalesStock ------------------------------
(***************************************************************************)
(* The sales documents over the stock: acceptance receipts bring source    *)
(* layers in, outbound orders take from them and hold factory numbers,     *)
(* sales returns give back.  One material in the main stock, so one        *)
(* balance row; a layer belongs to a price.                                *)
(***************************************************************************)
EXTENDS Documents

CONSTANTS
    Receipts,       \* documents: acceptance receipts,
    Outbounds,      \*            outbound orders,
    Returns,        \*            sales returns
    ReceiptForms,   \* what a receipt may say: [qty, price]
    OrderForms,     \* what an order may say: sequences of [qty, price, range]
    ReturnForms,    \* what a return may say: [qty, price]
    NoRange,        \* a line without factory numbers
    NoOrder,        \* the source of a standalone return
    MaxRevision,    \* bound: edits of one order
    MaxPostings,    \* bound: logs after which no request is made
    Discipline      \* what the users refrain from (see Disciplined)

Docs == Receipts \cup Outbounds \cup Returns

\* An outbound line has the price layer it was sold from and, when it has
\* factory numbers, one range of as many numbers as pieces.
FormOK(form) ==
    /\ \A i, j \in DOMAIN form : form[i].price = form[j].price => i = j
    /\ \A i \in DOMAIN form : form[i].range # NoRange =>
          form[i].range[2] - form[i].range[1] + 1 = form[i].qty

Rules == {"oneRequestPerDocument", "noEditUnderReturn",
          "noVoidOfReturnedSource", "noVoidOfConsumedReturn"}
ASSUME SalesAssumption ==
    /\ Discipline \subseteq Rules
    /\ {MaxRevision, MaxPostings} \subseteq Nat
    /\ Receipts \cap Outbounds = {} /\ Returns \cap Outbounds = {}
    /\ \A form \in OrderForms : form \in Seq(Range(form))

\* On top of the stock: the documents with their audit snapshot, the
\* approval documents, the order lines, the one line of a receipt or return
\* with the order line it returns to, and the factory_number_reservation rows.
Init ==
    /\ db = [qty |-> 0, ver |-> 0, logs |-> {}, usage |-> <<>>,
             status |-> [d \in Docs |-> "none"],
             audit |-> [d \in Docs |-> "NONE"],
             appr |-> [d \in Docs |-> "NONE"],
             rev |-> [d \in Outbounds |-> 0],
             lines |-> {}, lastLine |-> 0,
             entry |-> [d \in Receipts \cup Returns |->
                          [order |-> NoOrder, line |-> 0, qty |-> 0]],
             numbers |-> {}]
    /\ req = [p \in Procs |-> Idle]
    /\ view = [p \in Procs |-> Idle]

-----------------------------------------------------------------------------
(* Documents.                                                              *)

\* hasActiveDownstreamSalesReturns.
ActiveReturns(st, o) ==
    {r \in Returns : st.status[r] = "effective" /\ st.entry[r].order = o}

\* sumActiveReturnedQtyByOutboundLine.
Returned(st, o, line) ==
    MapThenSumSet(LAMBDA r : st.entry[r].qty,
                  {r \in ActiveReturns(st, o) : st.entry[r].line = line})

-----------------------------------------------------------------------------
(* Factory numbers.                                                        *)

\* reserveFactoryNumber: a released row keeps its place in the unique index
\* (mutation: the conflict is taken for an earlier success).
ReserveOnce(t, o, line, range) ==
    LET row == [doc |-> o, line |-> line, range |-> range, held |-> TRUE]
    IN  IF range = NoRange \/ \E f \in t.c.numbers : f.line = line /\ f.range = range
        THEN t
        ELSE Both(t, LAMBDA st : [st EXCEPT !.numbers = @ \cup {row}])
ReserveNumbers(t, o, line, range) ==
    LET row == [doc |-> o, line |-> line, range |-> range, held |-> TRUE]
    IN  IF ~t.ok \/ range = NoRange THEN t
        ELSE IF \E f \in t.c.numbers : f.line = line /\ f.range = range THEN Fail(t)
        ELSE Both(t, LAMBDA st : [st EXCEPT !.numbers = @ \cup {row}])

\* releaseFactoryNumberReservations, for a document or for one line of it
\* (mutation: left out).
KeepNumbers(t, o, lines) == t
ReleaseNumbers(t, o, lines) ==
    Both(t, LAMBDA st : [st EXCEPT !.numbers =
        {IF f.doc = o /\ f.line \in lines THEN [f EXCEPT !.held = FALSE] ELSE f :
            f \in @}])

-----------------------------------------------------------------------------
(* The bodies of the transactions.                                         *)

\* The line of a receipt or return.
Enter(t, d, order, line, qty) ==
    Both(t, LAMBDA st : [st EXCEPT !.entry[d] =
        [order |-> order, line |-> line, qty |-> qty]])

\* InboundAcceptanceCreationService.createOrder.
ReceiptCreate(t, q) ==
    IncreaseStock(
        Enter(File(t, q.doc, "effective", "PENDING"), q.doc, NoOrder, 0, q.qty),
        Posting(Key("line", q.doc, 0, 0), q.doc, 0, q.qty, q.price, TRUE, <<>>))

\* InboundAcceptanceUpdateService.voidOrder: no log of the receipt may still
\* be in use (mutation: they are not asked).
NoneAsked(st, d) == TRUE
NoneInUse(st, d) ==
    \A l \in OriginalLogs(st, d) : ~HasUnreleasedAllocations(st, l.id)
ReceiptVoid(t, q) ==
    IF ~NoneInUse(t.v, q.doc) THEN Fail(t)
    ELSE Close(ReverseDocument(t, q.doc), q.doc)

\* An order line with what the form says.
OrderLine(id, o, no, form) ==
    [id |-> id, doc |-> o, no |-> no,
     qty |-> form.qty, price |-> form.price, range |-> form.range]

\* A line of an order is written, settled and given its factory numbers.
AddLine(t, o, no, form, kind, n) ==
    LET id == t.c.lastLine + 1
        line == OrderLine(id, o, no, form)
        written == Both(t, LAMBDA st :
                        [st EXCEPT !.lines = @ \cup {line}, !.lastLine = id])
        settled == SettleConsumerOut(written, Key(kind, o, n, id), o, id,
                                     form.qty, form.price)
    IN  ReserveNumbers(settled, o, id, form.range)

\* SalesOutboundService.createOrder.
OrderCreate(t, q) ==
    LET Add(acc, i) == AddLine(acc, q.doc, i, q.form[i], "line", 0)
    IN  FoldLeft(Add, File(t, q.doc, "effective", "PENDING"),
                 [i \in DOMAIN q.form |-> i])

\* SalesOutboundService.voidOrder: not while a return of it is in force
\* (mutation: returns are not looked up).
IgnoreReturns(st, o) == FALSE
HasActiveReturns(st, o) == ActiveReturns(st, o) # {}
OrderVoid(t, q) ==
    IF HasActiveReturns(t.v, q.doc) THEN Fail(t)
    ELSE LET undone == ReverseDocument(ReleaseAllSourceUsages(t, q.doc), q.doc)
             freed == ReleaseNumbers(undone, q.doc, 1..t.c.lastLine)
         IN  Close(freed, q.doc)

\* A line that the request does not name any more.
DropLine(t, o, line, n) ==
    LET undone == UndoLine(t, o, line.id, "delete", n)
        freed == IF line.range = NoRange THEN undone
                 ELSE ReleaseNumbers(undone, o, {line.id})
    IN  IF \A l \in t.c.lines : l.id # line.id THEN Fail(t)
        ELSE Both(freed, LAMBDA st :
                  [st EXCEPT !.lines = {l \in @ : l.id # line.id}])

\* A line that the request names: posted anew only when its quantity or price
\* changed, its numbers exchanged only when the range changed.
KeepLine(t, o, no, line, form, n) ==
    LET repost == line.qty # form.qty \/ line.price # form.price
        renumber == line.range # form.range
        undone == IF repost THEN UndoLine(t, o, line.id, "replace", n) ELSE t
        freed == IF renumber /\ line.range # NoRange
                 THEN ReleaseNumbers(undone, o, {line.id}) ELSE undone
        row == OrderLine(line.id, o, no, form)
        written == Both(freed, LAMBDA st :
                        [st EXCEPT !.lines = {l \in @ : l.id # line.id} \cup {row}])
        settled == IF repost
                   THEN SettleConsumerOut(written, Key("rev", o, n, line.id), o,
                                          line.id, form.qty, form.price)
                   ELSE written
    IN  IF \A l \in t.c.lines : l.id # line.id THEN Fail(t)
        ELSE IF renumber THEN ReserveNumbers(settled, o, line.id, form.range)
        ELSE settled

\* The revision that the keys of an edit carry (mutation: always the first).
FirstRevision(q) == 1
NextRevision(q) == q.rev + 1

\* SalesOutboundUpdateService.updateOrder.  q.ids[i] is the line that line i
\* of the request names, 0 for a new one.
OrderUpdate(t, q) ==
    LET o == q.doc
        n == NextRevision(q)
        named == Range(q.ids) \ {0}
        dropped == {l.id : l \in LinesOf(t.v, o)} \ named
        Drop(acc, id) == DropLine(acc, o, LineById(t.v, id), n)
        Write(acc, i) ==
            IF q.ids[i] = 0 THEN AddLine(acc, o, i, q.form[i], "rev", n)
            ELSE KeepLine(acc, o, i, LineById(t.v, q.ids[i]), q.form[i], n)
        written == FoldLeft(Write, OldestFirst(Drop, t, dropped),
                            [i \in DOMAIN q.form |-> i])
    IN  IF ~(named \subseteq {l.id : l \in LinesOf(t.v, o)}) THEN Fail(t)
        ELSE Both(written, LAMBDA st :
                  [st EXCEPT !.rev[o] = @ + 1, !.audit[o] = "PENDING",
                             !.appr[o] = "PENDING"])

\* releaseOutboundSourceForReturn: the oldest sources of the line first; all of
\* the quantity must come from them.  The pieces are kept with the return.
ReleaseForReturn(t, o, line, qty) ==
    LET sources == {k[3] : k \in LineUsages(t.v, o, line)}
        Give(acc, id) ==
            LET row == acc.t.v.usage[<<o, line, id>>]
                give == Min({acc.left, row.alloc - row.rel})
            IN  IF acc.left = 0 THEN acc
                ELSE [t |-> ReleaseInventorySource(acc.t, <<o, line, id>>, row.rel + give),
                      left |-> acc.left - give,
                      pieces |-> Put(acc.pieces, id, give)]
    IN  OldestFirst(Give, [t |-> t, left |-> qty, pieces |-> <<>>], sources)

\* Enough was released (mutation: a rest is let pass).
AnyRest(given) == TRUE
NoRest(given) == given.left = 0

\* SalesReturnService.createSalesReturn.  A standalone return posts a layer of
\* its own, a linked one gives back to the layers of the order.
ReturnCreate(t, q) ==
    LET filed == Enter(File(t, q.doc, "effective", "PENDING"), q.doc,
                       q.order, q.line, q.qty)
        given == ReleaseForReturn(filed, q.order, q.line, q.qty)
        In(source, pieces) ==
            Posting(Key("line", q.doc, 0, 0), q.doc, 0, q.qty, q.price, source, pieces)
    IN  CASE q.order = NoOrder -> IncreaseStock(filed, In(TRUE, <<>>))
          [] q.order # NoOrder /\ ~NoRest(given) -> Fail(t)
          [] OTHER -> IncreaseStock(given.t, In(FALSE, given.pieces))

\* restoreOutboundSourceForReturnVoid: every piece goes back to its source
\* (mutation: left out).
RestoreNothing(t, from, pieces) == t
RestoreForReturnVoid(t, from, pieces) ==
    LET KeyOf(id) == <<from.order, from.line, id>>
        Restorable(id) == /\ KeyOf(id) \in DOMAIN t.v.usage
                          /\ t.v.usage[KeyOf(id)].rel >= pieces[id]
        Restore(id, acc) ==
            ReleaseInventorySource(acc, KeyOf(id), t.v.usage[KeyOf(id)].rel - pieces[id])
    IN  IF \A id \in DOMAIN pieces : Restorable(id)
        THEN FoldSet(Restore, t, DOMAIN pieces)
        ELSE Fail(t)

\* SalesReturnService.voidSalesReturn.
ReturnVoid(t, q) ==
    LET from == t.v.entry[q.doc]
        logs == OriginalLogs(t.v, q.doc)
        pieces == (CHOOSE l \in logs : TRUE).pieces
        restored == IF from.order = NoOrder THEN t
                    ELSE RestoreForReturnVoid(t, from, pieces)
    IN  IF logs = {} THEN Fail(t)
        ELSE Close(ReverseDocument(restored, q.doc), q.doc)

-----------------------------------------------------------------------------
(* Requests.                                                               *)

\* Some of what d brought in went to a line that a return in force gave back
\* from.
ReturnedFrom(d) ==
    \E r \in Returns, l \in db.logs :
        /\ db.status[r] = "effective"
        /\ l.doc = d
        /\ <<db.entry[r].order, db.entry[r].line, l.id>> \in DOMAIN db.usage

Consumed(r) == \E l \in db.logs : l.doc = r /\ HasUnreleasedAllocations(db, l.id)

\* The void of a document that brought a layer in.
UndoesSource(q) ==
    q.op = "unreceipt" \/ (q.op = "unreturn" /\ db.entry[q.doc].order = NoOrder)

\* Two requests that a rule keeps from being in flight together.
Apart(rule, q, other) ==
    CASE rule = "oneRequestPerDocument" -> q.doc = other.doc
      [] rule = "noEditUnderReturn" ->
            q.op = "edit" /\ other.op = "return" /\ other.order = q.doc
      [] rule = "noVoidOfReturnedSource" ->
            UndoesSource(q) /\ other.op = "return" /\ other.order # NoOrder
      [] rule = "noVoidOfConsumedReturn" ->
            /\ q.op = "unreturn"
            /\ UndoesSource(q)
            /\ other.op \in {"order", "edit"}

\* A request that a rule keeps from being made on what the user sees.
Forbidden(rule, q) ==
    CASE rule = "oneRequestPerDocument" -> FALSE
      [] rule = "noEditUnderReturn" -> q.op = "edit" /\ ActiveReturns(db, q.doc) # {}
      [] rule = "noVoidOfReturnedSource" ->
            UndoesSource(q) /\ ReturnedFrom(q.doc)
      [] rule = "noVoidOfConsumedReturn" -> q.op = "unreturn" /\ Consumed(q.doc)

\* What the users refrain from.  No code enforces these rules: they are
\* assumptions on the use of the system, and a run may drop any of them.
Disciplined(q) ==
    \A rule \in Discipline :
        /\ ~Forbidden(rule, q)
        /\ \A other \in InFlight : ~Apart(rule, q, other) /\ ~Apart(rule, other, q)

Submit(p, q) ==
    /\ Cardinality(db.logs) < MaxPostings
    /\ Disciplined(q)
    /\ Open(p, q)

\* createOrder of a receipt.
SubmitReceipt(p) ==
    \E d \in Fresh(Receipts), f \in ReceiptForms :
        Submit(p, [op |-> "receipt", doc |-> d, qty |-> f.qty, price |-> f.price])

\* A void, and an edit, is refused when the document that was read is not
\* effective.
SubmitVoid(p, op, D) ==
    \E d \in D : db.status[d] = "effective" /\ Submit(p, [op |-> op, doc |-> d])

\* assertOutboundPriceLayerAvailability, before the transaction.
LayersCover(form) ==
    \A i \in DOMAIN form : LayerAvailability(db, form[i].price) >= form[i].qty

SubmitOrder(p) ==
    \E o \in Fresh(Outbounds), f \in OrderForms :
        /\ FormOK(f)
        /\ LayersCover(f)
        /\ Submit(p, [op |-> "order", doc |-> o, form |-> f])

\* The revision is the one that is read here.  A line of the form names a line
\* of the order by its place, or is new.
SubmitEdit(p) ==
    \E o \in Outbounds, f \in OrderForms, keep \in BOOLEAN :
        LET At(no) == {l.id : l \in {m \in LinesOf(db, o) : m.no = no}}
            ids == [i \in DOMAIN f |->
                        IF keep /\ At(i) # {} THEN Max(At(i)) ELSE 0]
        IN  /\ db.status[o] = "effective"
            /\ db.rev[o] < MaxRevision
            /\ FormOK(f)
            /\ Submit(p, [op |-> "edit", doc |-> o, form |-> f, ids |-> ids,
                          rev |-> db.rev[o]])

\* getValidSourceOutbound and the cumulative check, before the transaction.
SubmitReturn(p) ==
    \E r \in Fresh(Returns), l \in db.lines, f \in ReturnForms :
        /\ db.status[l.doc] = "effective"
        /\ Returned(db, l.doc, l.id) + f.qty <= l.qty
        /\ f.price = l.price
        /\ Submit(p, [op |-> "return", doc |-> r, order |-> l.doc, line |-> l.id,
                      qty |-> f.qty, price |-> f.price])

SubmitStandaloneReturn(p) ==
    \E r \in Fresh(Returns), f \in ReturnForms :
        Submit(p, [op |-> "return", doc |-> r, order |-> NoOrder, line |-> 0,
                   qty |-> f.qty, price |-> f.price])

Next ==
    \E p \in Procs :
        \/ SubmitReceipt(p)
        \/ SubmitVoid(p, "unreceipt", Receipts)
        \/ SubmitOrder(p)
        \/ SubmitEdit(p)
        \/ SubmitVoid(p, "unorder", Outbounds)
        \/ SubmitReturn(p)
        \/ SubmitStandaloneReturn(p)
        \/ SubmitVoid(p, "unreturn", Returns)
        \/ Begin(p)
        \/ Commit(p, "receipt", ReceiptCreate)
        \/ Commit(p, "unreceipt", ReceiptVoid)
        \/ Commit(p, "order", OrderCreate)
        \/ Commit(p, "edit", OrderUpdate)
        \/ Commit(p, "unorder", OrderVoid)
        \/ Commit(p, "return", ReturnCreate)
        \/ Commit(p, "unreturn", ReturnVoid)
        \/ Rollback(p)

Spec == Init /\ [][Next]_vars

-----------------------------------------------------------------------------
(* Properties.                                                             *)

Statuses == {"none", "effective", "voided"}
AuditStatuses == {"NONE", "PENDING", "NOT_REQUIRED"}

\* The database and what each process works with have their types; a
\* transaction is only open for a request.
TypeOK ==
    /\ {db.qty, db.ver, db.lastLine} \subseteq Nat
    /\ \A l \in db.logs : l.doc \in Docs /\ l.change # 0 /\ l.rev \in 0..Cardinality(db.logs)
    /\ \A k \in DOMAIN db.usage :
          /\ k[1] \in Outbounds /\ k[2] \in 1..db.lastLine
          /\ k[3] \in {l.id : l \in db.logs}
          /\ db.usage[k].rel \in 0..db.usage[k].alloc
    /\ db.status \in [Docs -> Statuses]
    /\ db.audit \in [Docs -> AuditStatuses]
    /\ db.appr \in [Docs -> AuditStatuses]
    /\ \A l \in db.lines : l.doc \in Outbounds /\ l.id \in 1..db.lastLine
    /\ \A p \in Procs : req[p] = Idle => view[p] = Idle

Sources == {l \in db.logs : l.source}

\* The layers that outbound orders can take from hold exactly the stock on
\* hand: nothing that is there is out of their reach, and nothing that they
\* offer is missing.
LayersMatchBalance ==
    MapThenSumSet(LAMBDA l : Available(db, l.id),
                  {l \in Sources : ~Reversed(db, l.id)}) = db.qty

\* No layer is promised beyond what it brought in, and a layer that was
\* reversed is promised to nobody.
SourcesCoverTheirUses ==
    \A l \in Sources :
        /\ Available(db, l.id) >= 0
        /\ Reversed(db, l.id) => ~HasUnreleasedAllocations(db, l.id)

\* What is posted for an order in force is what its lines say: one OUT log in
\* force for each line and nothing else, sources claimed for just what was not
\* returned.
LinesMatchLedger ==
    \A o \in {d \in Outbounds : db.status[d] = "effective"} :
        LET posted == OriginalLogs(db, o)
            claims == {k \in DOMAIN db.usage : k[1] = o}
        IN  /\ {<<l.line, l.price, 0 - l.change>> : l \in posted} =
                  {<<l.id, l.price, l.qty>> : l \in LinesOf(db, o)}
            /\ \A l, m \in posted : l.line = m.line => l = m
            /\ \A line \in LinesOf(db, o) :
                  Unreleased(db, {k \in claims : k[2] = line.id})
                    = line.qty - Returned(db, o, line.id)
            /\ Unreleased(db, claims) =
                  MapThenSumSet(LAMBDA l : l.qty - Returned(db, o, l.id), LinesOf(db, o))

\* A voided document leaves nothing behind: no log of it is in force and an
\* order claims no source.
VoidedIsUndone ==
    \A d \in {e \in Docs : db.status[e] = "voided"} :
        /\ OriginalLogs(db, d) = {}
        /\ Unreleased(db, {k \in DOMAIN db.usage : k[1] = d}) = 0

\* A return in force has an order in force with the line that it returns to,
\* and the returns to a line never exceed it.
ReturnsHaveTheirOrder ==
    \A o \in Outbounds : \A r \in ActiveReturns(db, o) :
        /\ db.status[o] = "effective"
        /\ \E line \in LinesOf(db, o) :
              /\ line.id = db.entry[r].line
              /\ Returned(db, o, line.id) <= line.qty

\* The factory numbers that are held are those of the lines of the orders in
\* force, each once.
FactoryNumbersMatchLines ==
    {<<f.line, f.range>> : f \in {g \in db.numbers : g.held}} =
        {<<l.id, l.range>> : l \in {m \in db.lines :
            db.status[m.doc] = "effective" /\ m.range # NoRange}}

\* The approval document of a document says what its audit snapshot says; it is
\* closed exactly when the document is voided.
ApprovalFollowsDocument ==
    \A d \in Docs :
        /\ db.appr[d] = db.audit[d]
        /\ (db.appr[d] = "NOT_REQUIRED") <=> (db.status[d] = "voided")
=============================================================================
