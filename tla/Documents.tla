------------------------------ MODULE Documents -------------------------------
(***************************************************************************)
(* What the document services have in common: requests that run over the   *)
(* stock commands in one transaction, document lines, the approval         *)
(* document, and how the postings of a document or of a line are undone.   *)
(*                                                                         *)
(* A request goes through three steps.  Open is what the handler does      *)
(* before its transaction: it reads the document and refuses on what it    *)
(* read.  Begin fixes the snapshot.  The commit step runs the body of the  *)
(* transaction: reads from the snapshot, writes to the current rows.  The  *)
(* writes of a transaction hold their rows until it ends, so running them  *)
(* together at the end gives what running them one by one gives;           *)
(* InventoryLedger has them one by one.                                    *)
(*                                                                         *)
(* A store has, besides the fields of SourceLayers, at least               *)
(*   status, audit, appr   of every document: its lifecycle, its audit     *)
(*                         snapshot and the status of its approval row     *)
(*   lines, lastLine       the document lines and their last id            *)
(***************************************************************************)
EXTENDS SourceLayers

CONSTANTS
    Procs,          \* concurrent requests
    Idle            \* no request, or a request without a transaction

VARIABLES
    db,         \* the committed database
    req,        \* the request that each process works on
    view        \* the snapshot of its transaction, Idle before it begins
vars == <<db, req, view>>

LinesOf(st, d) == {l \in st.lines : l.doc = d}
LineById(st, id) == CHOOSE l \in st.lines : l.id = id

\* The document, its audit snapshot and its approval document in one go.
File(t, d, status, audit) ==
    Both(t, LAMBDA st : [st EXCEPT !.status[d] = status, !.audit[d] = audit,
                                   !.appr[d] = audit])

\* markApprovalNotRequired and the lifecycle of a voided document (mutation:
\* the approval document is forgotten).
CloseDocumentOnly(t, d) ==
    Both(t, LAMBDA st : [st EXCEPT !.status[d] = "voided", !.audit[d] = "NOT_REQUIRED"])
Close(t, d) == File(t, d, "voided", "NOT_REQUIRED")

\* An idempotency key: its kind, its document, the revision and the line or
\* log that it names.
Key(kind, doc, n, ref) == [kind |-> kind, doc |-> doc, n |-> n, ref |-> ref]

\* Reverse what is posted for a document; nothing to reverse is an error.
ReverseAllLogs(t, d, kind, n) ==
    LET logs == {l.id : l \in OriginalLogs(t.v, d)}
        Undo(acc, id) == ReverseStock(acc, id, Key(kind, d, n, id))
    IN  IF logs = {} THEN Fail(t) ELSE OldestFirst(Undo, t, logs)
ReverseDocument(t, d) == ReverseAllLogs(t, d, "void", 0)

\* A line's OUT log is reversed, its sources released before.  The key has a
\* revision, the one that the edit is about to make.
UndoLine(t, o, id, kind, n) ==
    LET logs == {l \in OriginalLogs(t.v, o) : l.line = id}
    IN  IF ~t.ok \/ logs = {} THEN Fail(t)
        ELSE ReverseStock(ReleaseSourceUsagesForLine(t, o, id), Max({l.id : l \in logs}),
                          Key(kind, o, n, id))

-----------------------------------------------------------------------------
(* Returned quantities.                                                    *)

\* Move up to qty of the released totals of a consumer line, one layer after
\* the other; what is left over is an error.
Shift(t, doc, line, qty, ids, Final(_), Room(_), sign) ==
    LET Move(acc, id) ==
            LET row == acc.t.v.usage[<<doc, line, id>>]
                some == Min({acc.left, Room(row)})
            IN  IF acc.left = 0 \/ ~acc.t.ok THEN acc
                ELSE [t |-> ReleaseInventorySource(acc.t, <<doc, line, id>>,
                                                   row.rel + sign * some),
                      left |-> acc.left - some]
        all == InOrder(Move, [t |-> t, left |-> qty], ids, Final)
    IN  IF all.left > 0 THEN Fail(all.t) ELSE all.t

SourcesOf(st, doc, line) ==
    {k[3] : k \in {u \in DOMAIN st.usage : u[1] = doc /\ u[2] = line}}

\* A return gives back to the oldest layers first; its void takes from the
\* newest again.
GiveBack(t, doc, line, qty) ==
    Shift(t, doc, line, qty, SourcesOf(t.v, doc, line), Max,
          LAMBDA u : u.alloc - u.rel, 1)
TakeAgain(t, doc, line, qty) ==
    Shift(t, doc, line, qty, SourcesOf(t.v, doc, line), Min,
          LAMBDA u : u.rel, 0 - 1)

-----------------------------------------------------------------------------
(* Requests.                                                               *)

InFlight == {req[p] : p \in Procs} \ {Idle}

Open(p, q) ==
    /\ req[p] = Idle
    /\ req' = [req EXCEPT ![p] = q]
    /\ UNCHANGED <<db, view>>

\* The next document of a kind, the way auto-increment ids are handed out.
Fresh(D) ==
    LET free == {d \in D : db.status[d] = "none" /\ \A q \in InFlight : q.doc # d}
    IN  IF free = {} THEN {} ELSE {CHOOSE d \in free : TRUE}

Begin(p) ==
    /\ req[p] # Idle
    /\ view[p] = Idle
    /\ view' = [view EXCEPT ![p] = db]
    /\ UNCHANGED <<db, req>>

Leave(p) ==
    /\ req' = [req EXCEPT ![p] = Idle]
    /\ view' = [view EXCEPT ![p] = Idle]

\* The body returned and the transaction commits.
Commit(p, op, Body(_, _)) ==
    /\ view[p] # Idle
    /\ req[p].op = op
    /\ LET t == Body([v |-> view[p], c |-> db, ok |-> TRUE, dup |-> FALSE], req[p])
       IN  t.ok /\ db' = t.c
    /\ Leave(p)

\* The body threw, or the process, the connection or the lock wait gave up.
Rollback(p) == req[p] # Idle /\ Leave(p) /\ UNCHANGED db
=============================================================================
