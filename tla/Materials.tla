------------------------------- MODULE Materials -------------------------------
(***************************************************************************)
(* The material documents over the main stock: receipts (acceptance and    *)
(* production) bring layers in, supplier returns take a receipt line's     *)
(* layer back, picks and scraps take from the layers, workshop returns     *)
(* give a pick line back to its layers or, standalone, bring in a layer of *)
(* their own.  All but supplier returns can be edited, and the approval of *)
(* a document can be decided at any time.                                  *)
(*                                                                         *)
(* One material, so one balance row.  A line is [id, doc, no, qty, price,  *)
(* from]; "from" is the document and line it returns from, or Nowhere.      *)
(***************************************************************************)
EXTENDS Documents

CONSTANTS
    Receipts, SupplierReturns, Picks, Backs, Scraps,    \* documents; Backs are the workshop returns
    Nowhere,        \* what a line comes from that returns from no other
    Setups,         \* the histories: which requests are made on which documents
                    \* (ops, docs), what receipts, takers and returns may say
                    \* (receipts, takes, backs, standalone), whether sources are
                    \* named by hand (manual), and the bounds on the requests at
                    \* a time and on the logs (requests, postings)
    MaxRevision,    \* bound: edits of one document
    Discipline      \* what the users refrain from (see Disciplined)

Docs == Receipts \cup SupplierReturns \cup Picks \cup Backs \cup Scraps
Takers == Picks \cup Scraps \cup SupplierReturns

NewLine == 0    \* a line yet to be created
Rules == {"oneRequestPerDocument", "noUndoOfReturnedSource",
          "noUndoOfConsumedReturn", "noResetOfVoided"}
ASSUME MaterialsAssumption == Discipline \subseteq Rules /\ MaxRevision \in Nat

\* On top of the stock: the revision of each document, and the revision that
\* the last decision on its approval was made on (a history variable).
Init ==
    /\ \E setup \in Setups :
          db = [qty |-> 0, ver |-> 0, logs |-> {}, usage |-> <<>>,
                status |-> [d \in Docs |-> "none"],
                audit |-> [d \in Docs |-> "NONE"],
                appr |-> [d \in Docs |-> "NONE"],
                rev |-> [d \in Docs |-> 0],
                seen |-> [d \in Docs |-> 0],
                lines |-> {}, lastLine |-> 0, setup |-> setup]
    /\ req = [p \in Procs |-> Idle]
    /\ view = [p \in Procs |-> Idle]

-----------------------------------------------------------------------------
(* Lines and what they post.                                               *)

\* hasActiveReturnDownstream, hasActiveDownstreamDependencies: the documents in
\* force that return from a line of d.
ActiveReturns(st, d) ==
    {r \in Backs \cup SupplierReturns :
        /\ st.status[r] = "effective"
        /\ \E l \in LinesOf(st, r) : l.from # Nowhere /\ l.from[1] = d}

SumOf(L) == MapThenSumSet(LAMBDA l : l.qty, L)

\* sumActiveReturnedQtyByPickLine, sumActiveSupplierReturnedQtyBySourceLine:
\* what documents in force other than d returned from a line.
ReturnedByOthers(st, line, d) ==
    SumOf({l \in st.lines : /\ l.from = <<line.doc, line.id>>
                            /\ l.doc # d
                            /\ st.status[l.doc] = "effective"})

WriteLine(t, row) ==
    Both(t, LAMBDA st : [st EXCEPT !.lines = {l \in @ : l.id # row.id} \cup {row},
                                   !.lastLine = Max({@, row.id})])

\* deleteOrderLinesByOrderId.
DeleteLines(t, d) ==
    Both(t, LAMBDA st : [st EXCEPT !.lines = {l \in @ : l.doc # d}])

\* The postings of a line: an IN log for receipts and workshop returns, whose
\* layers can be taken from unless they are linked; an OUT log with its
\* sources for the others.  Scraps select no price.
PostLine(t, row, key, source) ==
    LET d == row.doc
    IN  IF d \in Receipts \cup Backs
        THEN IncreaseStock(t, Posting(key, d, row.id, row.qty, row.price,
                                      row.from = Nowhere, <<>>))
        ELSE SettleFromSource(t, key, d, row.id, row.qty,
                              IF d \in Scraps THEN AnyPrice ELSE row.price, source)

MaterialLine(id, d, no, form) ==
    [id |-> id, doc |-> d, no |-> no,
     qty |-> form.qty, price |-> form.price, from |-> form.from]

\* New lines in their order, each posted when it is written.
CreateLines(t, d, form, kind, n, source) ==
    LET Create(acc, i) ==
            LET row == MaterialLine(acc.c.lastLine + 1, d, i, form[i])
            IN  PostLine(WriteLine(acc, row), row, Key(kind, d, n, row.id), source)
    IN  FoldLeft(Create, t, [i \in DOMAIN form |-> i])

\* createOrRefreshApprovalDocument, and the audit snapshot of the document
\* (mutation: an edit leaves a decision in place).
KeepDecision(t, d) == Both(t, LAMBDA st : [st EXCEPT !.status[d] = "effective"])
AskApproval(t, d) == File(t, d, "effective", "PENDING")

\* A scrap needs no approval and has no approval document.
Enlist(t, d) ==
    IF d \in Scraps
    THEN Both(t, LAMBDA st : [st EXCEPT !.status[d] = "effective",
                                        !.audit[d] = "NOT_REQUIRED"])
    ELSE File(t, d, "effective", "PENDING")

\* An edit is written: the next revision, to be approved anew.
Revised(t, d) ==
    LET counted == Both(t, LAMBDA st : [st EXCEPT !.rev[d] = t.c.rev[d] + 1])
    IN  IF d \in Scraps THEN counted ELSE AskApproval(counted, d)

-----------------------------------------------------------------------------
(* Receipts, picks, scraps and supplier returns.                           *)

\* createOrder of each service.
Create(t, q) == CreateLines(Enlist(t, q.doc), q.doc, q.form, "line", 0, q.source)

\* A receipt line is undone only when nothing is taken from it (mutation: the
\* takers are not asked), a pick line with its sources.
UndoReceived(t, d, id, kind, n) ==
    LET logs == {l \in OriginalLogs(t.v, d) : l.line = id}
    IN  IF logs = {} THEN Fail(t)
        ELSE ReverseStock(t, Max({l.id : l \in logs}), Key(kind, d, n, id))
UndoUnused(t, d, id, kind, n) ==
    LET logs == {l \in OriginalLogs(t.v, d) : l.line = id}
    IN  IF logs = {} \/ \E l \in logs : HasUnreleasedAllocations(t.v, l.id)
        THEN Fail(t)
        ELSE ReverseStock(t, Max({l.id : l \in logs}), Key(kind, d, n, id))
Undo(t, d, id, kind, n) ==
    IF d \in Receipts THEN UndoUnused(t, d, id, kind, n) ELSE UndoLine(t, d, id, kind, n)

\* manualSourceNeedsRepost: the source named is not the only one in use.
OtherSource(st, line, source) ==
    /\ source # NoLog
    /\ {k[3] : k \in LineUsages(st, line.doc, line.id)} # {source}

\* inventoryNeedsRepost.
NeedsRepost(st, line, form, source) ==
    \/ line.qty # form.qty
    \/ line.price # form.price
    \/ line.doc \in Picks /\ OtherSource(st, line, source)

\* The lines that an edit does not name are undone and deleted, then each line
\* of the form is kept, posted anew or created.  q.ids[i] is the line that line
\* i of the form names.
Revise(t, q, n) ==
    LET d == q.doc
        named == Range(q.ids) \ {NewLine}
        dropped == {l.id : l \in LinesOf(t.v, d)} \ named
        Drop(acc, id) ==
            IF \A l \in acc.c.lines : l.id # id THEN Fail(acc)
            ELSE Both(Undo(acc, d, id, "delete", n), LAMBDA st :
                      [st EXCEPT !.lines = {l \in @ : l.id # id}])
        Keep(acc, i) ==
            LET line == LineById(t.v, q.ids[i])
                row == MaterialLine(line.id, d, i, q.form[i])
                repost == NeedsRepost(acc.v, line, q.form[i], q.source)
                undone == IF repost THEN Undo(acc, d, line.id, "replace", n) ELSE acc
                written == WriteLine(undone, row)
            IN  IF \A l \in acc.c.lines : l.id # line.id THEN Fail(acc)
                ELSE IF repost THEN PostLine(written, row, Key("rev", d, n, line.id), q.source)
                ELSE written
        Write(acc, i) ==
            IF q.ids[i] # NewLine THEN Keep(acc, i)
            ELSE CreateLines(acc, d, <<q.form[i]>>, "rev", n, q.source)
    IN  IF ~(named \subseteq {l.id : l \in LinesOf(t.v, d)}) THEN Fail(t)
        ELSE FoldLeft(Write, OldestFirst(Drop, t, dropped), [i \in DOMAIN q.form |-> i])

\* updateOrder of the acceptance and production receipts, with the revision
\* that was read before the transaction.
ReceiptUpdate(t, q) == Revised(Revise(t, q, q.rev + 1), q.doc)

\* Nothing in the form differs from the lines.
Unchanged(st, q) ==
    /\ DOMAIN q.form = {l.no : l \in LinesOf(st, q.doc)}
    /\ \A i \in DOMAIN q.form :
          \E l \in LinesOf(st, q.doc) :
              /\ l.no = i
              /\ q.ids[i] = l.id
              /\ ~NeedsRepost(st, l, q.form[i], q.source)

\* updatePickOrder: the order is read again in the transaction, an edit that
\* changes nothing returns it.
PickUpdate(t, q) ==
    IF t.v.status[q.doc] # "effective" \/ ActiveReturns(t.v, q.doc) # {} THEN Fail(t)
    ELSE IF Unchanged(t.v, q) THEN t
    ELSE Revised(Revise(t, q, t.v.rev[q.doc] + 1), q.doc)

\* updateScrapOrder: everything is undone, deleted and written anew.
ScrapUpdate(t, q) ==
    LET d == q.doc
        n == t.v.rev[d] + 1
        undone == ReverseAllLogs(ReleaseAllSourceUsages(t, d), d, "undo", n)
    IN  IF t.v.status[d] # "effective" THEN Fail(t)
        ELSE Revised(CreateLines(DeleteLines(undone, d), d, q.form, "rev", n, q.source), d)

\* voidOrder of a receipt.
ReceiptVoid(t, q) ==
    IF \/ ActiveReturns(t.v, q.doc) # {}
       \/ \E l \in OriginalLogs(t.v, q.doc) : HasUnreleasedAllocations(t.v, l.id)
    THEN Fail(t)
    ELSE Close(ReverseDocument(t, q.doc), q.doc)

\* A scrap has no approval document to close.
CloseTaker(t, d) ==
    IF d \in Scraps
    THEN Both(t, LAMBDA st : [st EXCEPT !.status[d] = "voided",
                                        !.audit[d] = "NOT_REQUIRED"])
    ELSE Close(t, d)

\* voidPickOrder, voidScrapOrder, voidSupplierReturn.
TakerVoid(t, q) ==
    IF ActiveReturns(t.v, q.doc) # {} THEN Fail(t)
    ELSE CloseTaker(ReverseDocument(ReleaseAllSourceUsages(t, q.doc), q.doc), q.doc)

-----------------------------------------------------------------------------
(* Workshop returns.                                                       *)

\* validateReturnReplayQuantities: with what others returned, the new lines
\* stay within the pick lines.  A pick that is gone is left to what follows.
WithinPicks(st, d) ==
    \A m \in {l \in st.lines : l.doc \in Picks /\ st.status[l.doc] # "voided"} :
        LET incoming == SumOf({l \in LinesOf(st, d) : l.from = <<m.doc, m.id>>})
        IN  incoming > 0 => ReturnedByOthers(st, m, d) + incoming <= m.qty

\* validateAndRecordReturnRelation: the pick line gives back all of the quantity.
RecordReturn(t, row) ==
    LET picked == {m \in LinesOf(t.v, row.from[1]) :
                      m.id = row.from[2] /\ t.v.status[m.doc] = "effective"}
    IN  IF picked = {} THEN Fail(t) ELSE GiveBack(t, row.from[1], row.from[2], row.qty)

\* restoreSourceUsageForReturnVoid.
RestoreReturn(t, row) == TakeAgain(t, row.from[1], row.from[2], row.qty)

\* The lines of a return that are linked, in their order, folded over.
OverLinked(t, rows, F(_, _)) ==
    LET linked == {l \in rows : l.from # Nowhere}
        RowOf(id) == CHOOSE l \in linked : l.id = id
    IN  OldestFirst(LAMBDA acc, id : IF acc.ok THEN F(acc, RowOf(id)) ELSE acc, t,
                    {l.id : l \in linked})

\* createReturnOrder, and the second half of updateReturnOrder.
Return(t, d, form, kind, n) ==
    LET posted == CreateLines(t, d, form, kind, n, NoLog)
    IN  IF ~WithinPicks(posted.v, d) THEN Fail(t)
        ELSE OverLinked(posted, LinesOf(posted.v, d), RecordReturn)
BackCreate(t, q) == Return(File(t, q.doc, "effective", "PENDING"), q.doc, q.form, "line", 0)

\* updateReturnOrder: restore, reverse, delete, and return anew.
BackUpdate(t, q) ==
    LET d == q.doc
        n == t.v.rev[d] + 1
        restored == OverLinked(t, LinesOf(t.v, d), RestoreReturn)
        undone == DeleteLines(ReverseAllLogs(restored, d, "undo", n), d)
    IN  IF t.v.status[d] # "effective" THEN Fail(t)
        ELSE Revised(Return(undone, d, q.form, "rev", n), d)

\* voidReturnOrder: the logs are reversed first; the lines to restore are those
\* that were read before the transaction (mutation: nothing is restored).
OnlyReverse(t, q) == Close(ReverseDocument(t, q.doc), q.doc)
BackVoid(t, q) ==
    Close(OverLinked(ReverseDocument(t, q.doc), q.lines, RestoreReturn), q.doc)

-----------------------------------------------------------------------------
(* Approval.                                                               *)

\* approve, reject and reset write what was decided, whatever the document
\* became after it was read.
Decide(t, q) ==
    Both(t, LAMBDA st : [st EXCEPT !.appr[q.doc] = q.to, !.seen[q.doc] = q.rev])

-----------------------------------------------------------------------------
(* Requests.                                                               *)

Standalone(d) == \E l \in LinesOf(db, d) : l.from = Nowhere

\* The undoing of a document that brought a layer in.
UndoesSource(q) ==
    \/ q.op \in {"unreceipt", "reedit"}
    \/ q.op \in {"unback", "backedit"} /\ Standalone(q.doc)

\* Some of what d brought in went to a line that a return in force gave back from.
ReturnedFrom(d) ==
    \E l \in db.logs, k \in DOMAIN db.usage :
        l.doc = d /\ k[3] = l.id /\ ActiveReturns(db, k[1]) # {}

Consumed(d) == \E l \in db.logs : l.doc = d /\ HasUnreleasedAllocations(db, l.id)

Apart(rule, q, other) ==
    CASE rule = "oneRequestPerDocument" -> q.doc = other.doc
      [] rule = "noUndoOfReturnedSource" ->
            UndoesSource(q) /\ other.op \in {"back", "backedit"}
      [] rule = "noUndoOfConsumedReturn" ->
            /\ q.op \in {"unback", "backedit"}
            /\ UndoesSource(q)
            /\ other.op \in {"take", "pickedit", "scrapedit"}
      [] rule = "noResetOfVoided" -> FALSE

Forbidden(rule, q) ==
    CASE rule = "oneRequestPerDocument" -> FALSE
      [] rule = "noUndoOfReturnedSource" -> UndoesSource(q) /\ ReturnedFrom(q.doc)
      [] rule = "noUndoOfConsumedReturn" ->
            q.op \in {"unback", "backedit"} /\ Consumed(q.doc)
      [] rule = "noResetOfVoided" ->
            q.op = "decide" /\ db.status[q.doc] = "voided"

\* What the users refrain from.  No code enforces these rules: they are
\* assumptions on the use of the system, and a run may drop any of them.
Disciplined(q) ==
    \A rule \in Discipline :
        /\ ~Forbidden(rule, q)
        /\ \A other \in InFlight : ~Apart(rule, q, other) /\ ~Apart(rule, other, q)

Submit(p, q) ==
    /\ q.op \in db.setup.ops
    /\ q.doc \in db.setup.docs
    /\ Cardinality({r \in Procs : req[r] # Idle}) < db.setup.requests
    /\ Cardinality(db.logs) < db.setup.postings
    /\ Disciplined(q)
    /\ Open(p, q)

\* A form without links, as the lines of a document.
Unlinked(form) ==
    [i \in DOMAIN form |->
        [qty |-> form[i].qty, price |-> form[i].price, from |-> Nowhere]]

\* A source may be named by hand for picks and scraps.
NamedSources == {NoLog} \cup IF db.setup.manual THEN {l.id : l \in db.logs} ELSE {}

SubmitReceipt(p) ==
    \E d \in Fresh(Receipts), f \in db.setup.receipts :
        Submit(p, [op |-> "receipt", doc |-> d, form |-> Unlinked(f), source |-> NoLog])

SubmitTake(p, D) ==
    \E d \in Fresh(D), f \in db.setup.takes, source \in NamedSources :
        Submit(p, [op |-> "take", doc |-> d, form |-> Unlinked(f), source |-> source])

\* createSupplierReturn before its transaction: the receipt is in force, the
\* line has a log in force, and with what was returned before the quantity
\* stays within the line.
SubmitSupplierReturn(p) ==
    \E d \in Fresh(SupplierReturns) :
        \E line \in {l \in db.lines : l.doc \in Receipts}, qty \in db.setup.backs :
            \E log \in {l \in OriginalLogs(db, line.doc) : l.line = line.id} :
                /\ db.status[line.doc] = "effective"
                /\ ReturnedByOthers(db, line, d) + qty <= line.qty
                /\ Submit(p, [op |-> "take", doc |-> d, source |-> log.id,
                              form |-> <<[qty |-> qty, price |-> log.price,
                                          from |-> <<line.doc, line.id>>]>>])

\* The lines a return may have: linked to a pick line, or standalone.
BackForms ==
    {<<[qty |-> qty, price |-> 1, from |-> Nowhere]>> :
        qty \in db.setup.standalone} \cup
    {<<[qty |-> qty, price |-> l.price, from |-> <<l.doc, l.id>>]>> :
        qty \in db.setup.backs, l \in {m \in db.lines : m.doc \in Picks}}

SubmitBack(p) ==
    \E d \in Fresh(Backs), f \in BackForms : Submit(p, [op |-> "back", doc |-> d, form |-> f])

\* A line of the form names a line of the document by its place, or is new; the
\* revision is the one that is read here.
SubmitEdit(p, op, D, forms) ==
    \E d \in D, f \in forms, keep \in BOOLEAN, source \in NamedSources :
        LET At(no) == {l.id : l \in {m \in LinesOf(db, d) : m.no = no}}
            ids == [i \in DOMAIN f |-> IF keep /\ At(i) # {} THEN Max(At(i)) ELSE NewLine]
        IN  /\ db.status[d] = "effective"
            /\ db.rev[d] < MaxRevision
            /\ Submit(p, [op |-> op, doc |-> d, form |-> Unlinked(f), ids |-> ids,
                          source |-> source, rev |-> db.rev[d]])

SubmitBackEdit(p) ==
    \E d \in Backs, f \in BackForms :
        /\ db.status[d] = "effective"
        /\ db.rev[d] < MaxRevision
        /\ Submit(p, [op |-> "backedit", doc |-> d, form |-> f])

\* A void is refused when the document that was read is not in force.
SubmitVoid(p, op, D) ==
    \E d \in D : /\ db.status[d] = "effective"
                 /\ Submit(p, [op |-> op, doc |-> d, lines |-> LinesOf(db, d)])

\* Only a pending document is approved or rejected; reset does not ask.
SubmitDecision(p) ==
    \E d \in Docs, to \in {"APPROVED", "REJECTED", "PENDING"} :
        /\ db.appr[d] # "NONE"
        /\ to # "PENDING" => db.appr[d] = "PENDING"
        /\ Submit(p, [op |-> "decide", doc |-> d, to |-> to, rev |-> db.rev[d]])

Next ==
    \E p \in Procs :
        \/ SubmitReceipt(p)
        \/ SubmitTake(p, Picks)
        \/ SubmitTake(p, Scraps)
        \/ SubmitSupplierReturn(p)
        \/ SubmitBack(p)
        \/ SubmitEdit(p, "reedit", Receipts, db.setup.receipts)
        \/ SubmitEdit(p, "pickedit", Picks, db.setup.takes)
        \/ SubmitEdit(p, "scrapedit", Scraps, db.setup.takes)
        \/ SubmitBackEdit(p)
        \/ SubmitVoid(p, "unreceipt", Receipts)
        \/ SubmitVoid(p, "untake", Takers)
        \/ SubmitVoid(p, "unback", Backs)
        \/ SubmitDecision(p)
        \/ Begin(p)
        \/ Commit(p, "receipt", Create)
        \/ Commit(p, "take", Create)
        \/ Commit(p, "back", BackCreate)
        \/ Commit(p, "reedit", ReceiptUpdate)
        \/ Commit(p, "pickedit", PickUpdate)
        \/ Commit(p, "scrapedit", ScrapUpdate)
        \/ Commit(p, "backedit", BackUpdate)
        \/ Commit(p, "unreceipt", ReceiptVoid)
        \/ Commit(p, "untake", TakerVoid)
        \/ Commit(p, "unback", BackVoid)
        \/ Commit(p, "decide", Decide)
        \/ Rollback(p)

Spec == Init /\ [][Next]_vars

-----------------------------------------------------------------------------
(* Properties.                                                             *)

\* The database and what each process works with have their types.
TypeOK ==
    /\ {db.qty, db.ver, db.lastLine} \subseteq Nat
    /\ \A l \in db.logs : l.doc \in Docs /\ l.change # 0 /\ l.rev \in 0..Cardinality(db.logs)
    /\ \A k \in DOMAIN db.usage :
          /\ k[1] \in Takers /\ k[2] \in 1..db.lastLine
          /\ k[3] \in {l.id : l \in db.logs}
          /\ db.usage[k].rel \in 0..db.usage[k].alloc
    /\ \A l \in db.lines :
          /\ l.doc \in Docs /\ l.id \in 1..db.lastLine
          /\ l.from \in {Nowhere} \cup (Docs \X (1..db.lastLine))
    /\ \A d \in Docs : db.rev[d] \in 0..MaxRevision
    /\ \A p \in Procs : req[p] = Idle => view[p] = Idle

\* The layers in force hold exactly the stock on hand, none of them promised
\* beyond what it brought in: picks, scraps and supplier returns can take all
\* that is there and nothing else, whatever was edited, returned or voided.
LayersMatchBalance ==
    LET layers == {l \in db.logs : l.source /\ ~Reversed(db, l.id)}
    IN  /\ MapThenSumSet(LAMBDA l : Available(db, l.id), layers) = db.qty
        /\ \A l \in layers : Available(db, l.id) >= 0

SignOf(d) == IF d \in Receipts \cup Backs THEN 1 ELSE 0 - 1

\* What is posted for a document is what its lines say while it is in force and
\* nothing once it is voided: a log in force for each line, and sources claimed
\* for what was taken and not given back.
DocumentsMatchLedger ==
    \A d \in Docs :
        LET posted == OriginalLogs(db, d)
            lines == IF db.status[d] = "effective" THEN LinesOf(db, d) ELSE {}
            claims == {k \in DOMAIN db.usage : k[1] = d}
            GivenBack(l) == ReturnedByOthers(db, l, d)
        IN  /\ {<<l.line, l.change>> : l \in posted} = {<<l.id, SignOf(d) * l.qty>> : l \in lines}
            /\ Cardinality(posted) = Cardinality(lines)
            /\ d \in Takers =>
                  /\ Unreleased(db, claims) =
                        MapThenSumSet(LAMBDA l : l.qty - GivenBack(l), lines)
                  /\ \A l \in lines :
                        Unreleased(db, {k \in claims : k[2] = l.id}) = l.qty - GivenBack(l)

\* A decision stands only on the document that the approver read: not on an
\* edit made since, and not on a voided document.
DecisionsFitDocuments ==
    \A d \in Docs :
        /\ db.appr[d] \in {"APPROVED", "REJECTED"} => db.seen[d] = db.rev[d]
        /\ db.status[d] = "voided" => db.appr[d] \in {"NOT_REQUIRED", "NONE"}
=============================================================================
