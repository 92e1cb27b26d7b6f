------------------------------- MODULE RbacState -------------------------------
(***************************************************************************)
(* The users, roles, menus and settings of the system, of which there are  *)
(* three copies: the tables, a snapshot in Redis with the version of the   *)
(* tables it was taken from, and the state in the process.                 *)
(*                                                                         *)
(* Every request loads the state first: from the snapshot, or from the     *)
(* tables if their version is another.  A change is made in the process    *)
(* and a rewrite of all tables is queued, which takes what is in the       *)
(* process when it comes to it.  Queries are steps of their own: what they *)
(* return is used one step later.                                          *)
(***************************************************************************)
EXTENDS Integers, Sequences, FiniteSets

CONSTANTS
    Procs,          \* requests at a time
    Changes,        \* the changes that are made, once each
    None,
    MaxFaults       \* bound: crashes, losses of Redis, failures of a rewrite

ASSUME RbacAssumption == None \notin Changes /\ MaxFaults \in Nat

\* A change of a user touches rows and links (the roles of the user).
Parts == {"rows", "links"}
Contents == [Parts -> SUBSET Changes]
Nothing == [q \in Parts |-> {}]
With(content, c) == [q \in Parts |-> content[q] \cup {c}]
Whole(content, c) == \A q \in Parts : c \in content[q]

\* What the variables hold, when it is not None.
Snapshot == [content : Contents, version : Nat]
Rewriting ==
    [change : Changes, step : {"links", "commit", "resolve", "save"},
     draft : Contents, seen : Nat]
Load ==
    [step : {"get", "check", "use", "read", "replace", "resolve", "save", "act"},
     change : Changes \cup {None}, snap : Snapshot \cup {None}, seen : Nat,
     got : Contents, left : SUBSET Parts]
Flush == [step : {"flush"}, change : Changes]

ASSUME RbacNoneAssumption == None \notin Snapshot \cup Rewriting \cup Load \cup Flush

VARIABLES
    state,      \* RbacState: the changes that are in it
    cache,      \* the snapshot in Redis: [content, version] or None
    tables,     \* the committed tables
    version,    \* counts their rewrites (updatedAt, highest ids)
    queue,      \* persistenceQueue: the changes that wait for a rewrite
    rewrite,    \* the rewrite in progress: [change, step, draft, seen] or None
    load,       \* loads in progress: [step, change, snap, seen, got] or None
    faults,
    made,       \* history: changes that were begun
    kept,       \* history: changes whose request was told that they are made
    crossed     \* history: changes during which another request loaded
rbac == <<state, cache, tables, version, queue, rewrite, load, faults, made, kept, crossed>>

RbacInit ==
    /\ state = Nothing /\ tables = Nothing /\ version = 0
    /\ cache = [content |-> Nothing, version |-> 0]
    /\ queue = <<>> /\ rewrite = None
    /\ load = [p \in Procs |-> None]
    /\ faults = 0 /\ made = {} /\ kept = {} /\ crossed = {}

-----------------------------------------------------------------------------
(* Loads.                                                                  *)

Loading(p) == load[p] # None /\ load[p].step # "flush"
Pending == {queue[i] : i \in DOMAIN queue} \cup
           (IF rewrite = None THEN {} ELSE {rewrite.change})
LoadNext(p, step) == load' = [load EXCEPT ![p].step = step]

\* The start of a load, for a change or to look (None).
BeginLoad(p, c) ==
    /\ load[p] = None
    /\ load' = [load EXCEPT ![p] = [step |-> "get", change |-> c, snap |-> None,
                                    seen |-> 0, got |-> Nothing, left |-> {}]]
    /\ crossed' = crossed \cup Pending

\* Without a snapshot the tables are read at once.
GetSnapshot(p) ==
    /\ load[p].step = "get"
    /\ load' = IF cache = None
               THEN [load EXCEPT ![p].step = "read", ![p].left = Parts]
               ELSE [load EXCEPT ![p].step = "check", ![p].snap = cache]
    /\ UNCHANGED <<state, cache, tables, version, queue, rewrite, faults, made, kept, crossed>>

ReadVersion(p) ==
    /\ load[p].step = "check"
    /\ load' = [load EXCEPT ![p].step = "use", ![p].seen = version]
    /\ UNCHANGED <<state, cache, tables, version, queue, rewrite, faults, made, kept, crossed>>

\* isRuntimeStateStale.
Stale(snap, seen) == snap.version # seen

GoToTables(p) ==
    /\ load[p].step = "use"
    /\ Stale(load[p].snap, load[p].seen)
    /\ load' = [load EXCEPT ![p].step = "read", ![p].snap = None, ![p].seen = 0,
                            ![p].left = Parts]
    /\ UNCHANGED <<state, cache, tables, version, queue, rewrite, faults, made, kept, crossed>>

\* The tables are read one by one, in any order and in no transaction.
ReadTable(p) ==
    /\ load[p].step = "read"
    /\ \E q \in load[p].left :
          load' = [load EXCEPT ![p].got[q] = tables[q], ![p].left = @ \ {q},
                               ![p].step = IF load[p].left = {q} THEN "replace" ELSE "read"]
    /\ UNCHANGED <<state, cache, tables, version, queue, rewrite, faults, made, kept, crossed>>

Replace(p) ==
    /\ load[p].step = "replace"
    /\ state' = load[p].got
    /\ load' = [load EXCEPT ![p].step = "resolve", ![p].got = Nothing]
    /\ UNCHANGED <<cache, tables, version, queue, rewrite, faults, made, kept, crossed>>

Resolve(p) ==
    /\ load[p].step = "resolve"
    /\ load' = [load EXCEPT ![p].step = "save", ![p].seen = version]
    /\ UNCHANGED <<state, cache, tables, version, queue, rewrite, faults, made, kept, crossed>>

\* The snapshot is of the state as it is now, with the version as it was.
SaveLoaded(p) ==
    /\ load[p].step = "save"
    /\ cache' = [content |-> state, version |-> load[p].seen]
    /\ LoadNext(p, "act")
    /\ UNCHANGED <<state, tables, version, queue, rewrite, faults, made, kept, crossed>>

\* The action of readState or mutateState, on the content that was loaded.  A
\* change is queued to be written and then waited for (flushPersistence).
Act(p, content) ==
    LET c == load[p].change
    IN  IF c = None
        THEN /\ state' = content
             /\ load' = [load EXCEPT ![p] = None]
             /\ UNCHANGED <<queue, made, crossed>>
        ELSE /\ state' = With(content, c)
             /\ queue' = Append(queue, c)
             /\ load' = [load EXCEPT ![p] = [step |-> "flush", change |-> c]]
             /\ made' = made \cup {c}
             /\ crossed' = IF \E r \in Procs \ {p} : Loading(r)
                           THEN crossed \cup {c} ELSE crossed

\* With a fresh snapshot the state is replaced and acted on without a wait.
ActOnSnapshot(p) ==
    /\ load[p].step = "use"
    /\ ~Stale(load[p].snap, load[p].seen)
    /\ Act(p, load[p].snap.content)
    /\ UNCHANGED <<cache, tables, version, rewrite, faults, kept>>

ActOnTables(p) ==
    /\ load[p].step = "act"
    /\ Act(p, state)
    /\ UNCHANGED <<cache, tables, version, rewrite, faults, kept>>

FetchStep(p) ==
    \/ GetSnapshot(p) \/ ReadVersion(p) \/ GoToTables(p) \/ ReadTable(p)
    \/ Replace(p) \/ Resolve(p) \/ SaveLoaded(p)
ActStep(p) == ActOnSnapshot(p) \/ ActOnTables(p)

-----------------------------------------------------------------------------
(* Rewrites of the tables, one at a time (persistState).                   *)

\* The highest id of a link is new after each rewrite (mutation: only rows are
\* counted).
SameVersion == version
NextVersion == version + 1

\* (mutation: the links are left as they are.)
OldLinks == tables["links"]
NewLinks == state["links"]

\* The rows are taken from the state as it is when they are inserted, and later
\* the links.
WriteRows ==
    /\ rewrite = None /\ queue # <<>>
    /\ rewrite' = [change |-> Head(queue), step |-> "links",
                   draft |-> [Nothing EXCEPT !["rows"] = state["rows"]], seen |-> 0]
    /\ queue' = Tail(queue)
    /\ UNCHANGED <<state, cache, tables, version, load, faults, made, kept, crossed>>

WriteLinks ==
    /\ rewrite # None /\ rewrite.step = "links"
    /\ rewrite' = [rewrite EXCEPT !.step = "commit", !.draft["links"] = NewLinks]
    /\ UNCHANGED <<state, cache, tables, version, queue, load, faults, made, kept, crossed>>

Commit ==
    /\ rewrite # None /\ rewrite.step = "commit"
    /\ tables' = rewrite.draft
    /\ version' = NextVersion
    /\ rewrite' = [rewrite EXCEPT !.step = "resolve", !.draft = Nothing]
    /\ UNCHANGED <<state, cache, queue, load, faults, made, kept, crossed>>

ResolveRewritten ==
    /\ rewrite # None /\ rewrite.step = "resolve"
    /\ rewrite' = [rewrite EXCEPT !.step = "save", !.seen = version]
    /\ UNCHANGED <<state, cache, tables, version, queue, load, faults, made, kept, crossed>>

\* The request that waits for the rewrite (mutation: it is not told).
Waiting == {p \in Procs : load[p] # None /\ load[p].step = "flush"
                          /\ load[p].change = rewrite.change}
NoneReleased == load
Released == [p \in Procs |-> IF p \in Waiting THEN None ELSE load[p]]

SaveRewritten ==
    /\ rewrite # None /\ rewrite.step = "save"
    /\ cache' = [content |-> state, version |-> rewrite.seen]
    /\ rewrite' = None
    /\ load' = Released
    /\ kept' = kept \cup {rewrite.change}
    /\ UNCHANGED <<state, tables, version, queue, faults, made, crossed>>

\* The transaction fails (its five seconds are over), or Redis does: the request
\* is refused, the next rewrite follows.
RewriteFails ==
    /\ rewrite # None /\ faults < MaxFaults
    /\ rewrite' = None
    /\ load' = Released
    /\ faults' = faults + 1
    /\ UNCHANGED <<state, cache, tables, version, queue, made, kept, crossed>>

RewriteStep == WriteRows \/ WriteLinks \/ Commit \/ ResolveRewritten \/ SaveRewritten

-----------------------------------------------------------------------------
(* Faults.                                                                 *)

\* A crash, and a start that loads the tables and saves the snapshot before the
\* first request.
RbacCrash ==
    /\ faults < MaxFaults
    /\ faults' = faults + 1
    /\ state' = tables
    /\ cache' = [content |-> tables, version |-> version]
    /\ queue' = <<>> /\ rewrite' = None
    /\ load' = [p \in Procs |-> None]
    /\ UNCHANGED <<tables, version, made, kept, crossed>>

\* Redis comes back empty.
LoseSnapshot ==
    /\ cache # None /\ faults < MaxFaults
    /\ faults' = faults + 1
    /\ cache' = None
    /\ UNCHANGED <<state, tables, version, queue, rewrite, load, made, kept, crossed>>

-----------------------------------------------------------------------------
(* Requests that look at the state or change it, and nothing else.         *)

BeginRequest(p) ==
    /\ \E c \in (Changes \ (made \cup {load[q].change : q \in {r \in Procs : load[r] # None}}))
                    \cup {None} :
          BeginLoad(p, c)
    /\ UNCHANGED <<state, cache, tables, version, queue, rewrite, faults, made, kept>>

RbacNext ==
    \/ \E p \in Procs :
          BeginRequest(p) \/ (load[p] # None /\ (FetchStep(p) \/ ActStep(p)))
    \/ RewriteStep \/ RewriteFails \/ RbacCrash \/ LoseSnapshot

RbacSpec == RbacInit /\ [][RbacNext]_rbac

-----------------------------------------------------------------------------
(* Properties.                                                             *)

\* Every variable has values of its kind; no version is of the future, and only
\* changes that were begun are written or answered.
RbacTypeOK ==
    /\ {state, tables} \subseteq Contents
    /\ version \in Nat /\ faults \in Nat
    /\ cache \in Snapshot \cup {None}
    /\ cache # None => cache.version <= version
    /\ queue \in Seq(Changes)
    /\ rewrite \in Rewriting \cup {None}
    /\ rewrite # None => rewrite.seen <= version
    /\ load \in [Procs -> Load \cup Flush \cup {None}]
    /\ \A p \in Procs : Loading(p) =>
          /\ load[p].seen <= version
          /\ load[p].snap # None => load[p].snap.version <= version
          /\ load[p].step \in {"check", "use"} => load[p].snap # None
    /\ made \subseteq Changes
    /\ kept \subseteq made /\ Pending \subseteq made

\* A change that its request was told is made is in the tables, rows and links.
\* Not so: a request that loads the old snapshot between the change and the
\* rewrite puts the old state back, and the rewrite writes that.
ChangesKept == \A c \in kept : Whole(tables, c)

\* A change during which no other request loaded the state is in the tables from
\* its answer on, whatever overlaps, fails or crashes later.
CalmChangesKept == \A c \in kept \ crossed : Whole(tables, c)

\* A snapshot with the version of the tables has every change that was written
\* by its own rewrite, and not refused after that, but changes during which
\* another request loaded.
Written ==
    kept \cup (IF rewrite # None /\ rewrite.step \in {"resolve", "save"}
               THEN {rewrite.change} ELSE {})
SnapshotIsCurrent ==
    cache # None /\ cache.version = version =>
        \A c \in Written \ crossed : Whole(cache.content, c)
=============================================================================
