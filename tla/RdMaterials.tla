----------------------------- MODULE RdMaterials ------------------------------
(***************************************************************************)
(* The R&D sub-warehouse: procurement requests with the status ledger of   *)
(* their lines, handoffs that carry main stock into the R&D store, scraps  *)
(* that consume it there, manual returns that carry it back, stocktakes,   *)
(* and the material actions of the project that uses the store.            *)
(*                                                                         *)
(* One project and one material, so one balance row in each of the two     *)
(* stores, "main" and "rd".  A request has one line.  What a transaction   *)
(* does to a store is what SourceLayers does to it: In and Out carry a     *)
(* transaction into a store and back.  The R&D layers are the IN logs of   *)
(* handoffs; a stocktake moves the R&D balance without touching a layer.   *)
(***************************************************************************)
EXTENDS RdStatusLedger

CONSTANTS
    Requests, Handoffs, Scraps, Stocktakes,     \* documents
    Uses,           \* project actions that take: PICK, and SCRAP, which is a pick
                    \* that nobody returns from
    Givebacks,      \* project actions that return: RETURN
    Project,        \* the project, a document that is there from the start
    Tokens,         \* the clientRequestId values that clients send
    NoDoc,          \* the document of the stock that was there before, and no token
    Setups,         \* the histories: which requests are made on which documents
                    \* (ops, docs), the layers of the main stock (layers), what
                    \* documents may say (needs, moves, takes, acts, counts, uses,
                    \* backs), the tokens, NoDoc for none (tokens), and the bounds
                    \* on the requests at a time and on the status histories
                    \* (requests, events)
    Discipline      \* what the users refrain from, see Disciplined

Docs == Requests \cup Handoffs \cup Scraps \cup Stocktakes \cup Uses \cup Givebacks
        \cup {Project}

\* The tables of handoffs and of scraps are tables of their own; quantities are
\* not negative, and the lines of handoffs and scraps name requests.
ASSUME RdAssumption ==
    /\ Discipline \subseteq {"voidAlone", "closeAlone", "oneVoidPerReturn",
                             "noUndoOfReturnedSource"}
    /\ (Handoffs \cup Scraps) \cap (Requests \cup Uses \cup Givebacks) = {}
    /\ \A setup \in Setups :
          /\ setup.layers \in Seq(Nat)
          /\ setup.needs \cup setup.uses \cup setup.backs \subseteq Nat
          /\ setup.moves \cup setup.takes \subseteq Seq([of : Requests, qty : Nat])
          /\ setup.acts \subseteq {"start", "accept", "cancel", "return"} \X Nat

Store(layers) ==
    [qty |-> FoldLeft(LAMBDA a, b : a + b, 0, layers), ver |-> Len(layers),
     logs |-> {[Posting(<<"opening", i>>, NoDoc, 0, layers[i], 1, TRUE, <<>>)
                  EXCEPT !.id = i] : i \in DOMAIN layers},
     usage |-> <<>>]

Init ==
    /\ \E setup \in Setups :
          db = [main |-> Store(setup.layers), rd |-> Store(<<>>),
                buckets |-> [r \in Requests |-> NoBuckets], histories |-> {},
                status |-> [d \in Docs |-> IF d = Project THEN "effective" ELSE "none"],
                token |-> [d \in Docs |-> NoDoc],
                lines |-> {}, lastLine |-> 0, setup |-> setup]
    /\ req = [p \in Procs |-> Idle]
    /\ view = [p \in Procs |-> Idle]

In(t, store) == [t EXCEPT !.v = t.v[store], !.c = t.c[store]]
Out(t, store, u) == [u EXCEPT !.v = [t.v EXCEPT ![store] = u.v],
                              !.c = [t.c EXCEPT ![store] = u.c]]

-----------------------------------------------------------------------------
(* Stock that moves between the stores.                                    *)

\* settleConsumerOut in one store and, for each allocated piece, an increase
\* in the other: the layers are carried across.
Carry(t, from, to, doc, line, qty) ==
    LET out == Out(t, from, SettleConsumerOut(In(t, from), Key("out", doc, line, 0),
                                              doc, line, qty, AnyPrice))
        Bring(acc, id) ==
            Out(acc, to, IncreaseStock(In(acc, to),
                Posting(Key("in", doc, line, id), doc, line,
                        out.v[from].usage[<<doc, line, id>>].alloc, 1, TRUE, <<>>)))
    IN  IF out.ok THEN OldestFirst(Bring, out, SourcesOf(out.v[from], doc, line)) ELSE out

\* reverseStock of the logs with an id in L, oldest first.
ReverseLogs(t, store, L, kind, doc) ==
    LET Undo(acc, id) == ReverseStock(acc, id, Key(kind, doc, 0, id))
    IN  Out(t, store, OldestFirst(Undo, In(t, store), {l.id : l \in L}))

\* The bridged layers must not have been drawn on (mutation: not asked).
AnyLayers(st, L) == TRUE
NoneDrawnOn(st, L) == \A l \in L : ~HasUnreleasedAllocations(st, l.id)

\* What was carried from one store to the other goes back: the layers it made
\* must be whole, and the layers it came from get it again.
CarryBack(t, from, to, ins, outs, Release(_), kind, doc) ==
    LET released == Out(t, from, Release(In(t, from)))
    IN  IF outs = {} \/ ~NoneDrawnOn(t.v[to], ins) THEN Fail(t)
        ELSE ReverseLogs(ReverseLogs(released, to, ins, kind, doc), from, outs, kind, doc)

-----------------------------------------------------------------------------
(* Documents.                                                              *)

\* requireEffectiveProjectById, inside the transaction.
ProjectInForce(st) == st.status[Project] = "effective"

SetStatus(t, d, status) == Both(t, LAMBDA st : [st EXCEPT !.status[d] = status])

\* The unique index on clientRequestId (mutation: there is none).
AnyToken(t, token) == TRUE
FreeToken(t, token) == token = NoDoc \/ \A d \in Docs : t.c.token[d] # token

\* A document that carries a token; when the token is taken the handler
\* answers with the document that has it, and nothing is written.
FileOnce(t, d, token) ==
    IF ~FreeToken(t, token) THEN Fail(t)
    ELSE Both(SetStatus(t, d, "effective"), LAMBDA st : [st EXCEPT !.token[d] = token])

\* The lines of the form, each bound to a request.
WriteLines(t, d, form) ==
    LET n == t.c.lastLine
        rows == {[id |-> n + i, doc |-> d, of |-> form[i].of, qty |-> form[i].qty] :
                    i \in DOMAIN form}
    IN  Both(t, LAMBDA st : [st EXCEPT !.lines = @ \cup rows, !.lastLine = n + Len(form)])
DropLines(t, d) ==
    Both(t, LAMBDA st : [st EXCEPT !.lines = {l \in @ : l.doc # d}])

ForLines(t, d, Do(_, _)) ==
    OldestFirst(LAMBDA acc, id : Do(acc, LineById(acc.v, id)), t,
                {l.id : l \in LinesOf(t.v, d)})

-----------------------------------------------------------------------------
(* Procurement requests.                                                   *)

\* createRequest, initializeRequestStatusTruth.
CreateRequest(t, q) ==
    LET filed == WriteLines(FileOnce(t, q.doc, q.token), q.doc, q.form)
        qty == q.form[1].qty
    IN  AddHistory(Both(filed, LAMBDA st : [st EXCEPT !.buckets[q.doc].pending = qty]),
                   History(q.doc, "created", q.doc, "none", "pending", qty, NoHistory))

\* voidRequest, assertCanVoidRequest, applyRequestVoidStatus.
VoidRequest(t, q) ==
    LET b == t.v.buckets[q.doc]
        left == b.pending + b.inProcurement
        closed == b.accepted + b.handedOff + b.scrapped + b.returned
        canceled == IF left = 0 THEN t
                    ELSE Transfer(t, q.doc, "voided", q.doc, Unfilled, "canceled", left)
    IN  IF closed > 0 THEN Fail(t) ELSE SetStatus(canceled, q.doc, "voided")

\* applyManualReturnWithInventory: the statuses first; the first history that
\* they make stands for the consumer line.
ManualReturn(t, q) ==
    LET anchor == NextHistory(t)
        moved == Transfer(t, q.doc, "return", q.doc, <<"handedOff">>, "returned", q.qty)
        carried == Carry(moved, "rd", "main", q.doc, anchor, q.qty)
        out == {l \in carried.v.rd.logs : l.key = Key("out", q.doc, anchor, 0)}
    IN  IF ~ProjectInForce(t.v) \/ ~moved.ok \/ ~carried.ok THEN Fail(t)
        ELSE MarkHistories(carried, {anchor}, LAMBDA h : [h EXCEPT !.log = Max({l.id : l \in out})])

\* applyStatusAction.
StatusAction(t, q) ==
    CASE q.act = "start" ->
            Transfer(t, q.doc, "start", q.doc, <<"pending">>, "inProcurement", q.qty)
      [] q.act = "accept" -> Transfer(t, q.doc, "accept", q.doc, Unfilled, "accepted", q.qty)
      [] q.act = "cancel" -> Transfer(t, q.doc, "cancel", q.doc, Unfilled, "canceled", q.qty)
      [] q.act = "return" -> ManualReturn(t, q)

\* reverseManualReturnInventory: the logs that carry the history's marker.
TakeBackReturn(t, r, id) ==
    LET Marked(store) == {l \in OriginalLogs(t.v[store], r) : l.line = id}
    IN  CarryBack(t, "rd", "main", Marked("main"), Marked("rd"),
                  LAMBDA u : ReleaseSourceUsagesForLine(u, r, id), "undo", r)

\* reverseStatusAction, assertReversibleManualHistory.
Reversible == {"start", "accept", "cancel", "return"}
ReverseAction(t, q) ==
    LET h == HistoryById(t.v, q.history)
        back == IF h.event = "return" /\ h.log # NoLog THEN TakeBackReturn(t, q.doc, h.id) ELSE t
    IN  IF h.doc # q.doc \/ h.undone \/ h.event \notin Reversible THEN Fail(t)
        ELSE ReverseHistory(back, h.id)

-----------------------------------------------------------------------------
(* Handoffs, scraps, stocktakes.                                           *)

\* The status of each line, when all lines have moved their stock.
LineStatuses(t, d, event, from, to) ==
    ForLines(t, d, LAMBDA acc, l : Transfer(acc, l.of, event, d, <<from>>, to, l.qty))

\* Each line asks for the project again before it moves stock.
CreateHandoff(t, q) ==
    LET filed == WriteLines(FileOnce(t, q.doc, q.token), q.doc, q.form)
        carried == ForLines(filed, q.doc, LAMBDA acc, l :
                        Carry(acc, "main", "rd", q.doc, l.id, l.qty))
    IN  IF ~ProjectInForce(t.v) THEN Fail(t)
        ELSE LineStatuses(carried, q.doc, "handoff", "accepted", "handedOff")

VoidHandoff(t, q) ==
    LET undone == ReverseHistories(t, q.doc, "handoff")
        back == CarryBack(undone, "main", "rd", OriginalLogs(t.v.rd, q.doc),
                          OriginalLogs(t.v.main, q.doc),
                          LAMBDA u : ReleaseAllSourceUsages(u, q.doc), "void", q.doc)
    IN  SetStatus(back, q.doc, "voided")

\* The lines take their quantities from the R&D layers, oldest first.
TakeLines(t, d, kind) ==
    ForLines(t, d, LAMBDA acc, l :
        Out(acc, "rd", SettleConsumerOut(In(acc, "rd"), Key(kind, d, 0, l.id),
                                         d, l.id, l.qty, AnyPrice)))

SettleScrap(t, d) ==
    IF ~ProjectInForce(t.v) THEN Fail(t)
    ELSE LineStatuses(TakeLines(t, d, "scrap"), d, "scrap", "handedOff", "scrapped")

CreateScrap(t, q) ==
    SettleScrap(WriteLines(SetStatus(t, q.doc, "effective"), q.doc, q.form), q.doc)

\* A scrap order is undone from its sources to its stock.
UndoScrap(t, d, kind) ==
    LET released == Out(t, "rd", ReleaseAllSourceUsages(In(t, "rd"), d))
        undone == ReverseHistories(released, d, "scrap")
    IN  Out(undone, "rd", ReverseAllLogs(In(undone, "rd"), d, kind, 0))

\* updateScrapOrder: undone, and written anew.
UpdateScrap(t, q) ==
    IF t.v.status[q.doc] # "effective" THEN Fail(t)
    ELSE SettleScrap(WriteLines(DropLines(UndoScrap(t, q.doc, "edit"), q.doc), q.doc, q.form),
                     q.doc)

VoidScrap(t, q) == SetStatus(UndoScrap(t, q.doc, "void"), q.doc, "voided")

\* createOrder of a stocktake: what was counted against what the R&D logs in
\* force say.
CreateStocktake(t, q) ==
    LET u == In(SetStatus(t, q.doc, "effective"), "rd")
        book == MapThenSumSet(LAMBDA l : l.change,
                    {l \in u.v.logs : l.rev = NoLog /\ ~Reversed(u.v, l.id)})
        change == q.counted - book
        posting == Posting(Key("count", q.doc, 0, 0), q.doc, 0, change, 1, FALSE, <<>>)
    IN  Out(SetStatus(t, q.doc, "effective"), "rd",
            CASE ~ProjectInForce(t.v) -> Fail(u)
              [] change = 0 -> u
              [] change > 0 -> IncreaseStock(u, posting)
              [] OTHER -> PostLogFirst(u, posting, FALSE))

VoidStocktake(t, q) ==
    SetStatus(ReverseLogs(t, "rd", OriginalLogs(t.v.rd, q.doc), "void", q.doc), q.doc, "voided")

-----------------------------------------------------------------------------
(* The project: its material actions on the R&D store.                     *)

\* createMaterialAction of a pick or a scrap.
CreateUse(t, q) ==
    TakeLines(WriteLines(FileOnce(t, q.doc, q.token), q.doc, q.form), q.doc, "use")

\* The lines of returns in force that name the line.
ReturnsOf(st, line) ==
    {l \in st.lines : l.doc \in Givebacks /\ st.status[l.doc] = "effective" /\ l.of = line.id}
ReturnedQty(st, line) == MapThenSumSet(LAMBDA l : l.qty, ReturnsOf(st, line))

\* prepareActionLines: a return names lines of picks in force and stays within
\* what has not come back yet.
Returnable(st, form) ==
    \A i \in DOMAIN form :
        LET same == {j \in DOMAIN form : form[j].of = form[i].of}
        IN  \E l \in st.lines :
                /\ l.id = form[i].of
                /\ l.doc \in Uses /\ st.status[l.doc] = "effective"
                /\ MapThenSumSet(LAMBDA j : form[j].qty, same) + ReturnedQty(st, l) <= l.qty

\* createMaterialAction of a return, releaseSourceUsageForReturnCreation: the
\* log it writes is no layer, the layers of the pick line are free again.
CreateGiveback(t, q) ==
    LET filed == WriteLines(FileOnce(t, q.doc, q.token), q.doc, q.form)
        GiveLine(acc, l) ==
            LET u == IncreaseStock(In(acc, "rd"),
                         Posting(Key("use", q.doc, 0, l.id), q.doc, l.id, l.qty, 1, FALSE, <<>>))
            IN  Out(acc, "rd", GiveBack(u, LineById(acc.v, l.of).doc, l.of, l.qty))
    IN  IF Returnable(t.v, q.form) THEN ForLines(filed, q.doc, GiveLine) ELSE Fail(t)

\* voidMaterialAction of a pick or a scrap.
VoidUse(t, q) ==
    LET freed == ReleaseAllSourceUsages(In(t, "rd"), q.doc)
    IN  IF \E l \in LinesOf(t.v, q.doc) : ReturnsOf(t.v, l) # {} THEN Fail(t)
        ELSE SetStatus(Out(t, "rd", ReverseDocument(freed, q.doc)), q.doc, "voided")

\* voidMaterialAction of a return, restoreSourceUsageForReturnVoid.
VoidGiveback(t, q) ==
    LET TakeLine(acc, l) ==
            Out(acc, "rd", TakeAgain(In(acc, "rd"), LineById(acc.v, l.of).doc, l.of, l.qty))
    IN  SetStatus(ForLines(Out(t, "rd", ReverseDocument(In(t, "rd"), q.doc)), q.doc, TakeLine),
                  q.doc, "voided")

\* voidProject: what it refuses on was read before, see SubmitClose.
VoidProject(t, q) == SetStatus(t, Project, "voided")

-----------------------------------------------------------------------------
(* Requests.  What a handler reads before its transaction is its guard.     *)

\* Some of what handoff d brought in went to a pick that a return in force gave
\* back from.
ReturnedFrom(d) ==
    \E l \in OriginalLogs(db.rd, d), k \in DOMAIN db.rd.usage :
        /\ k[1] \in Uses /\ k[3] = l.id
        /\ ReturnsOf(db, LineById(db, k[2])) # {}

\* A procurement request is not voided while an action on it is under way, the
\* project is not voided while anything is, a project's return is not voided
\* twice at a time, and a handoff is not voided while returns of what it brought
\* are in force.  No code enforces these rules: a run may drop them.
Disciplined(q) ==
    /\ \A other \in InFlight :
          LET ops == {q.op, other.op}
          IN  /\ "voidAlone" \in Discipline /\ other.doc = q.doc => "unneed" \notin ops
              /\ "closeAlone" \in Discipline => "close" \notin ops
              /\ "oneVoidPerReturn" \in Discipline /\ q.op = "ungiveback" => other.doc # q.doc
    /\ "noUndoOfReturnedSource" \in Discipline /\ q.op = "unhandoff" => ~ReturnedFrom(q.doc)

Submit(p, q) ==
    /\ q.op \in db.setup.ops
    /\ q.doc \in db.setup.docs
    /\ Cardinality({r \in Procs : req[r] # Idle}) < db.setup.requests
    /\ Cardinality(db.histories) < db.setup.events
    /\ Disciplined(q)
    /\ Open(p, q)

Effective(D) == {d \in D : db.status[d] = "effective"}

\* requireEffectiveProjectByCode.
ProjectIsEffective == ProjectInForce(db)

\* A token that is known is answered with its document, before and after.
NewTokens == {token \in db.setup.tokens :
                token = NoDoc \/ \A d \in Docs : db.token[d] # token}

SubmitRequest(p) ==
    ProjectIsEffective /\ \E d \in Fresh(Requests), token \in NewTokens, qty \in db.setup.needs :
        Submit(p, [op |-> "need", doc |-> d, token |-> token,
                   form |-> <<[of |-> d, qty |-> qty]>>])

\* resolveHandoffSourceRequest: the requests of the lines are in force.
SubmitHandoff(p) ==
    \E d \in Fresh(Handoffs), token \in NewTokens, form \in db.setup.moves :
        /\ ProjectIsEffective
        /\ \A i \in DOMAIN form : form[i].of \in Effective(Requests)
        /\ Submit(p, [op |-> "handoff", doc |-> d, token |-> token, form |-> form])

\* assertRdScrapSourceLine: they are there and not voided.
SubmitScrap(p, op, D) ==
    \E d \in D, form \in db.setup.takes :
        /\ \A i \in DOMAIN form : form[i].of \in Effective(Requests)
        /\ Submit(p, [op |-> op, doc |-> d, form |-> form])

SubmitStocktake(p) ==
    \E d \in Fresh(Stocktakes), counted \in db.setup.counts :
        Submit(p, [op |-> "count", doc |-> d, counted |-> counted])

SubmitAction(p) ==
    \E d \in Effective(Requests), a \in db.setup.acts :
        Submit(p, [op |-> "act", doc |-> d, act |-> a[1], qty |-> a[2]])

SubmitReverse(p) ==
    \E d \in Effective(Requests) : \E h \in {g \in db.histories : g.of = d} :
        Submit(p, [op |-> "react", doc |-> d, history |-> h.id])

SubmitUse(p) ==
    \E d \in Fresh(Uses), token \in NewTokens, qty \in db.setup.uses :
        /\ ProjectIsEffective
        /\ Submit(p, [op |-> "use", doc |-> d, token |-> token,
                      form |-> <<[of |-> NoDoc, qty |-> qty]>>])

SubmitGiveback(p) ==
    \E d \in Fresh(Givebacks), token \in NewTokens, qty \in db.setup.backs,
       l \in {m \in db.lines : m.doc \in Uses} :
        /\ ProjectIsEffective
        /\ Submit(p, [op |-> "giveback", doc |-> d, token |-> token,
                      form |-> <<[of |-> l.id, qty |-> qty]>>])

\* voidProject: nothing of the project may be in force.
SubmitClose(p) ==
    /\ ProjectIsEffective
    /\ Effective(Requests \cup Uses \cup Givebacks) = {}
    /\ Submit(p, [op |-> "close", doc |-> Project])

SubmitVoid(p, op, D) == \E d \in Effective(D) : Submit(p, [op |-> op, doc |-> d])

Next ==
    \E p \in Procs :
        \/ SubmitRequest(p)
        \/ SubmitHandoff(p)
        \/ SubmitScrap(p, "scrap", Fresh(Scraps))
        \/ SubmitScrap(p, "rescrap", Effective(Scraps))
        \/ SubmitStocktake(p)
        \/ SubmitAction(p)
        \/ SubmitReverse(p)
        \/ SubmitUse(p)
        \/ SubmitGiveback(p)
        \/ SubmitClose(p)
        \/ SubmitVoid(p, "unneed", Requests)
        \/ SubmitVoid(p, "unhandoff", Handoffs)
        \/ SubmitVoid(p, "unscrap", Scraps)
        \/ SubmitVoid(p, "uncount", Stocktakes)
        \/ SubmitVoid(p, "unuse", Uses)
        \/ SubmitVoid(p, "ungiveback", Givebacks)
        \/ Begin(p)
        \/ Commit(p, "need", CreateRequest)
        \/ Commit(p, "handoff", CreateHandoff)
        \/ Commit(p, "scrap", CreateScrap)
        \/ Commit(p, "rescrap", UpdateScrap)
        \/ Commit(p, "count", CreateStocktake)
        \/ Commit(p, "act", StatusAction)
        \/ Commit(p, "react", ReverseAction)
        \/ Commit(p, "unneed", VoidRequest)
        \/ Commit(p, "unhandoff", VoidHandoff)
        \/ Commit(p, "unscrap", VoidScrap)
        \/ Commit(p, "uncount", VoidStocktake)
        \/ Commit(p, "use", CreateUse)
        \/ Commit(p, "giveback", CreateGiveback)
        \/ Commit(p, "unuse", VoidUse)
        \/ Commit(p, "ungiveback", VoidGiveback)
        \/ Commit(p, "close", VoidProject)
        \/ Rollback(p)

Spec == Init /\ [][Next]_vars

-----------------------------------------------------------------------------
(* Properties.                                                             *)

TotalOf(H) == MapThenSumSet(LAMBDA h : h.qty, H)
InForce(st) == {h \in st.histories : h.rev = NoHistory /\ ~h.undone}

\* The buckets of a request are what its histories in force add up to, whatever
\* several documents did to them at the same time; together they are the
\* quantity that was requested, and a rolled back history has one rollback.
BucketsMatchHistories ==
    /\ \A r \in Requests :
          LET H == {h \in InForce(db) : h.of = r}
          IN  /\ \A s \in Statuses :
                    /\ db.buckets[r][s] >= 0
                    /\ db.buckets[r][s] = TotalOf({h \in H : h.to = s})
                                          - TotalOf({h \in H : h.from = s})
              /\ MapThenSumSet(LAMBDA s : db.buckets[r][s], Statuses)
                    = TotalOf({h \in H : h.event = "created"})
    /\ \A h \in db.histories :
          Cardinality({g \in db.histories : g.rev = h.id}) = (IF h.undone THEN 1 ELSE 0)

LayersLeft(st) ==
    LET layers == {l \in st.logs : l.source /\ ~Reversed(st, l.id)}
    IN  MapThenSumSet(LAMBDA l : Available(st, l.id), layers)

\* What the documents of D have moved in a store, what was reversed left out.
Posted(store, D) == MapThenSumSet(LAMBDA l : l.change, UNION {OriginalLogs(store, d) : d \in D})

\* What project actions in force hold of the R&D layers.
InUse == Unreleased(db.rd, {k \in DOMAIN db.rd.usage : k[1] \in Uses})

\* What the requests call handed off is what the R&D layers still hold or the
\* project has picked, so that it can be scrapped, returned or picked; what the
\* project holds is what its picks say less what came back; both stores'
\* balances are their layers, except for what stocktakes in force have counted.
StatusesMatchStores ==
    /\ MapThenSumSet(LAMBDA r : db.buckets[r].handedOff, Requests) = LayersLeft(db.rd) + InUse
    /\ \A l \in UNION {LinesOf(db, d) : d \in Effective(Uses)} :
          Unreleased(db.rd, {k \in DOMAIN db.rd.usage : k[1] = l.doc /\ k[2] = l.id})
            = l.qty - ReturnedQty(db, l)
    /\ db.rd.qty = LayersLeft(db.rd) + Posted(db.rd, Stocktakes)
    /\ db.main.qty = LayersLeft(db.main)

\* A handoff or a scrap in force has moved its lines' quantities once, in the
\* stock and in the statuses, a voided one nothing; the returns in force have
\* carried back what the requests call returned; a token made one document, a
\* voided request waits for nothing, and a voided project has nothing in force.
DocumentsMatchStatuses ==
    /\ \A d \in Handoffs \cup Scraps :
          LET lines == IF db.status[d] = "effective" THEN LinesOf(db, d) ELSE {}
              H == {h \in InForce(db) : h.doc = d}
              sign == IF d \in Handoffs THEN 1 ELSE 0 - 1
          IN  /\ \A r \in Requests :
                    TotalOf({h \in H : h.of = r}) = TotalOf({l \in lines : l.of = r})
              /\ Posted(db.rd, {d}) = sign * TotalOf(lines)
              /\ d \in Handoffs => Posted(db.main, {d}) = 0 - TotalOf(lines)
    /\ \A r \in Requests :
          /\ Posted(db.main, {r}) = db.buckets[r].returned
          /\ Posted(db.rd, {r}) = 0 - db.buckets[r].returned
          /\ db.status[r] = "voided" => db.buckets[r].pending + db.buckets[r].inProcurement = 0
    /\ \A d \in Uses \cup Givebacks :
          LET qty == IF db.status[d] = "effective" THEN TotalOf(LinesOf(db, d)) ELSE 0
          IN  Posted(db.rd, {d}) = (IF d \in Uses THEN 0 - qty ELSE qty)
    /\ ProjectInForce(db) \/ Effective(Requests \cup Uses \cup Givebacks) = {}
    /\ \A d, e \in Docs : d # e /\ db.token[d] = db.token[e] => db.token[d] = NoDoc
=============================================================================
