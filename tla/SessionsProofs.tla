---------------------------- MODULE SessionsProofs ----------------------------
(***************************************************************************)
(* Safety of sessions and of the users they carry.  First the three copies *)
(* of the users and roles, for any number of requests and changes: a       *)
(* change that was answered, and during which no other request loaded,     *)
(* stays in the tables, and in every snapshot that passes for current.     *)
(* These are facts about RbacState, cited with the variables of Sessions.  *)
(* Then the sessions: what a request holds of a session, what Redis holds  *)
(* of it, and what was given out, fit together, however many requests      *)
(* store it as they found it.                                              *)
(***************************************************************************)
EXTENDS Sessions, TLAPS

\* Every step there is on the three copies, whoever takes it.
Begins == \E p \in Procs, c \in Changes \cup {None} :
             /\ BeginLoad(p, c)
             /\ UNCHANGED <<state, cache, tables, version, queue, rewrite, faults, made, kept>>
Fetches == \E p \in Procs : load[p] # None /\ FetchStep(p)
Acts == \E p \in Procs : load[p] # None /\ ActStep(p)
RbacStep ==
    \/ Begins \/ Fetches \/ Acts
    \/ RewriteStep \/ RewriteFails \/ RbacCrash \/ LoseSnapshot

USE RbacAssumption, RbacNoneAssumption

-----------------------------------------------------------------------------
(* The operators of the model.                                             *)

LEMMA ContentFacts ==
  ASSUME NEW content \in Contents
  PROVE  /\ Nothing \in Contents
         /\ \A c \in Changes : With(content, c) \in Contents /\ Whole(With(content, c), c)
         /\ \A c, d \in Changes : Whole(content, d) => Whole(With(content, c), d)
         /\ \A q \in Parts, S \in SUBSET Changes : [content EXCEPT ![q] = S] \in Contents
BY DEF Contents, Nothing, With, Whole

\* The first of the queue goes into the rewrite.
LEMMA QueueTail ==
  ASSUME NEW S, NEW s \in Seq(S), s # <<>>
  PROVE  /\ Head(s) \in S /\ Tail(s) \in Seq(S)
         /\ {s[i] : i \in DOMAIN s} = {Head(s)} \cup {Tail(s)[i] : i \in DOMAIN Tail(s)}
<1>1. /\ Len(s) \in Nat /\ Len(s) > 0 /\ DOMAIN s = 1..Len(s)
      /\ Head(s) = s[1] /\ Tail(s) \in Seq(S)
      /\ DOMAIN Tail(s) = 1..(Len(s) - 1)
      /\ \A i \in 1..(Len(s) - 1) : Tail(s)[i] = s[i + 1]
  OBVIOUS
<1>2. ASSUME NEW i \in DOMAIN s
      PROVE  s[i] \in {Head(s)} \cup {Tail(s)[k] : k \in DOMAIN Tail(s)}
  <2>1. CASE i = 1
    BY <1>1, <2>1
  <2>2. CASE i # 1
    <3>1. i - 1 \in DOMAIN Tail(s) /\ Tail(s)[i - 1] = s[i]
      BY <1>1, <2>2
    <3> QED BY <3>1
  <2> QED BY <2>1, <2>2
<1>3. ASSUME NEW i \in DOMAIN Tail(s) PROVE Tail(s)[i] \in {s[k] : k \in DOMAIN s}
  BY <1>1
<1>4. Head(s) \in {s[k] : k \in DOMAIN s}
  BY <1>1
<1> QED BY <1>1, <1>2, <1>3, <1>4

LEMMA QueueAppend ==
  ASSUME NEW S, NEW s \in Seq(S), NEW x \in S
  PROVE  /\ Append(s, x) \in Seq(S)
         /\ {Append(s, x)[i] : i \in DOMAIN Append(s, x)} = {s[i] : i \in DOMAIN s} \cup {x}
<1>1. /\ Len(s) \in Nat /\ DOMAIN s = 1..Len(s) /\ Append(s, x) \in Seq(S)
      /\ DOMAIN Append(s, x) = 1..(Len(s) + 1)
      /\ \A i \in 1..Len(s) : Append(s, x)[i] = s[i]
      /\ Append(s, x)[Len(s) + 1] = x
  OBVIOUS
<1> QED BY <1>1
-----------------------------------------------------------------------------
(* Type correctness.                                                       *)

LEMMA RbacInitTypes == RbacInit => RbacTypeOK
<1> SUFFICES ASSUME RbacInit PROVE RbacTypeOK
  OBVIOUS
<1>1. Nothing \in Contents /\ queue \in Seq(Changes) /\ DOMAIN queue = {}
  BY DEF RbacInit, Nothing, Contents
<1>2. cache \in Snapshot /\ cache.version = 0
  BY <1>1 DEF RbacInit, Snapshot
<1>3. Pending = {}
  BY <1>1 DEF RbacInit, Pending
<1> QED BY <1>1, <1>2, <1>3 DEF RbacInit, RbacTypeOK, Loading

LEMMA BeginLoadTypes ==
  ASSUME RbacTypeOK, Begins
  PROVE  RbacTypeOK'
<1>1. PICK p \in Procs, c \in Changes \cup {None} :
         load' = [load EXCEPT ![p] = [step |-> "get", change |-> c, snap |-> None,
                                      seen |-> 0, got |-> Nothing, left |-> {}]]
  BY DEF Begins, BeginLoad
<1> DEFINE e == [step |-> "get", change |-> c, snap |-> None,
                 seen |-> 0, got |-> Nothing, left |-> {}]
<1>2. e \in Load
  BY DEF Load, Contents, Nothing
<1>3. load' \in [Procs -> Load \cup Flush \cup {None}]
  <2>1. load' = [load EXCEPT ![p] = e]
    BY <1>1
  <2> HIDE DEF e
  <2> QED BY <1>2, <2>1 DEF RbacTypeOK
<1>4. ASSUME NEW q \in Procs, Loading(q)'
      PROVE  /\ load'[q].seen <= version
             /\ load'[q].snap # None => load'[q].snap.version <= version
             /\ load'[q].step \in {"check", "use"} => load'[q].snap # None
  <2>1. CASE q = p
    BY <1>1, <2>1 DEF RbacTypeOK
  <2>2. CASE q # p
    BY <1>1, <1>4, <2>2 DEF RbacTypeOK, Loading
  <2> QED BY <2>1, <2>2
<1> QED BY <1>3, <1>4 DEF Begins, RbacTypeOK, Pending

\* A step of a load leaves a load, and nothing but the state and the snapshot
\* changes beside it.
LEMMA FetchTypes ==
  ASSUME RbacTypeOK, NEW p \in Procs, load[p] # None, FetchStep(p)
  PROVE  RbacTypeOK' /\ load[p] \in Load /\ load'[p] \in Load
<1>1. /\ load[p] \in Load /\ load[p].step \in {"get", "check", "use", "read", "replace", "resolve", "save"}
      /\ version \in Nat /\ cache \in Snapshot \cup {None}
      /\ state \in Contents /\ tables \in Contents /\ Nothing \in Contents
  BY DEF RbacTypeOK, FetchStep, GetSnapshot, ReadVersion, GoToTables, ReadTable, Replace, Resolve,
     SaveLoaded, Flush, Nothing, Contents
<1>2. UNCHANGED <<tables, version, queue, rewrite, faults, made, kept>>
  BY DEF FetchStep, GetSnapshot, ReadVersion, GoToTables, ReadTable, Replace, Resolve, SaveLoaded
<1>3. ASSUME NEW e \in Load, load' = [load EXCEPT ![p] = e],
             state' \in Contents, cache' \in Snapshot \cup {None},
             cache' # None => cache'.version <= version,
             e.seen <= version, e.snap # None => e.snap.version <= version,
             e.step \in {"check", "use"} => e.snap # None
      PROVE  RbacTypeOK' /\ load'[p] \in Load
  <2>1. load' \in [Procs -> Load \cup Flush \cup {None}] /\ load'[p] = e
    BY <1>3 DEF RbacTypeOK
  <2>2. ASSUME NEW q \in Procs, Loading(q)'
        PROVE  /\ load'[q].seen <= version
               /\ load'[q].snap # None => load'[q].snap.version <= version
               /\ load'[q].step \in {"check", "use"} => load'[q].snap # None
    <3>1. CASE q = p
      BY <1>3, <2>1, <3>1
    <3>2. CASE q # p
      BY <1>3, <2>2, <3>2 DEF RbacTypeOK, Loading
    <3> QED BY <3>1, <3>2
  <2>3. RbacTypeOK'
    BY <1>2, <1>3, <2>1, <2>2 DEF RbacTypeOK, Pending
  <2> QED BY <2>1, <2>3, <1>3
<1>4. /\ cache # None => cache.version <= version
      /\ load[p].seen <= version
      /\ load[p].snap # None => load[p].snap.version <= version
      /\ load[p].step \in {"check", "use"} => load[p].snap # None
      /\ cache # None => cache \in Snapshot
  BY <1>1 DEF RbacTypeOK, Loading, Load
<1>5. CASE GetSnapshot(p)
  <2> DEFINE e == IF cache = None THEN [load[p] EXCEPT !.step = "read", !.left = Parts]
                  ELSE [load[p] EXCEPT !.step = "check", !.snap = cache]
  <2>1. /\ e \in Load /\ e.seen <= version /\ (e.snap # None => e.snap.version <= version)
        /\ (e.step \in {"check", "use"} => e.snap # None)
    BY <1>1, <1>4 DEF Load
  <2>2. load' = [load EXCEPT ![p] = e] /\ UNCHANGED <<state, cache>>
    BY <1>5 DEF GetSnapshot
  <2> HIDE DEF e
  <2> QED BY <1>1, <1>3, <1>4, <2>1, <2>2
<1>6. CASE ReadVersion(p)
  <2> DEFINE e == [load[p] EXCEPT !.step = "use", !.seen = version]
  <2>1. e \in Load /\ e.seen = version /\ e.snap = load[p].snap /\ e.step = "use"
    BY <1>1 DEF Load
  <2>3. /\ e.seen <= version /\ (e.snap # None => e.snap.version <= version)
        /\ e.step \in {"check", "use"} => e.snap # None
    BY <1>1, <1>4, <1>6, <2>1 DEF ReadVersion
  <2>2. load' = [load EXCEPT ![p] = e] /\ UNCHANGED <<state, cache>>
    BY <1>6 DEF ReadVersion
  <2> HIDE DEF e
  <2> QED BY <1>1, <1>3, <1>4, <2>1, <2>2, <2>3
<1>7. CASE GoToTables(p)
  <2> DEFINE e == [load[p] EXCEPT !.step = "read", !.snap = None, !.seen = 0, !.left = Parts]
  <2>1. e \in Load /\ e.seen = 0 /\ e.snap = None /\ e.step = "read"
    BY <1>1 DEF Load
  <2>3. /\ e.seen <= version /\ (e.snap # None => e.snap.version <= version)
        /\ e.step \in {"check", "use"} => e.snap # None
    BY <1>1, <1>4, <2>1
  <2>2. load' = [load EXCEPT ![p] = e] /\ UNCHANGED <<state, cache>>
    BY <1>7 DEF GoToTables
  <2> HIDE DEF e
  <2> QED BY <1>1, <1>3, <1>4, <2>1, <2>2, <2>3
<1>8. CASE ReadTable(p)
  <2>1. PICK q \in load[p].left :
           load' = [load EXCEPT ![p].got[q] = tables[q], ![p].left = @ \ {q},
                        ![p].step = IF load[p].left = {q} THEN "replace" ELSE "read"]
    BY <1>8 DEF ReadTable
  <2> DEFINE e == [load[p] EXCEPT !.got[q] = tables[q], !.left = @ \ {q},
                       !.step = IF load[p].left = {q} THEN "replace" ELSE "read"]
  <2>2. load[p].got \in Contents /\ q \in Parts /\ tables[q] \in SUBSET Changes
    BY <1>1 DEF Load, Contents
  <2>3. [load[p].got EXCEPT ![q] = tables[q]] \in Contents
    BY <2>2, ContentFacts
  <2>4. /\ e \in Load /\ e.seen <= version /\ (e.snap # None => e.snap.version <= version)
        /\ e.step \notin {"check", "use"}
    BY <1>1, <1>4, <2>3 DEF Load
  <2>5. load' = [load EXCEPT ![p] = e] /\ UNCHANGED <<state, cache>>
    BY <1>8, <2>1 DEF ReadTable
  <2> HIDE DEF e
  <2> QED BY <1>1, <1>3, <1>4, <2>4, <2>5
<1>9. CASE Replace(p)
  <2> DEFINE e == [load[p] EXCEPT !.step = "resolve", !.got = Nothing]
  <2>1. /\ e \in Load /\ load[p].got \in Contents
        /\ e.seen <= version /\ (e.snap # None => e.snap.version <= version)
        /\ (e.step \in {"check", "use"} => e.snap # None)
    BY <1>1, <1>4 DEF Load
  <2>2. load' = [load EXCEPT ![p] = e] /\ UNCHANGED cache /\ state' = load[p].got
    BY <1>9 DEF Replace
  <2> HIDE DEF e
  <2> QED BY <1>1, <1>3, <1>4, <2>1, <2>2
<1>10. CASE Resolve(p)
  <2> DEFINE e == [load[p] EXCEPT !.step = "save", !.seen = version]
  <2>1. e \in Load /\ e.seen = version /\ e.snap = load[p].snap /\ e.step = "save"
    BY <1>1 DEF Load
  <2>3. /\ e.seen <= version /\ (e.snap # None => e.snap.version <= version)
        /\ e.step \in {"check", "use"} => e.snap # None
    BY <1>1, <1>4, <2>1
  <2>2. load' = [load EXCEPT ![p] = e] /\ UNCHANGED <<state, cache>>
    BY <1>10 DEF Resolve
  <2> HIDE DEF e
  <2> QED BY <1>1, <1>3, <1>4, <2>1, <2>2, <2>3
<1>11. CASE SaveLoaded(p)
  <2> DEFINE e == [load[p] EXCEPT !.step = "act"]
  <2>1. /\ e \in Load /\ load[p].seen \in Nat
        /\ e.seen <= version /\ (e.snap # None => e.snap.version <= version)
        /\ (e.step \in {"check", "use"} => e.snap # None)
    BY <1>1, <1>4 DEF Load
  <2>2. load' = [load EXCEPT ![p] = e] /\ UNCHANGED state
    BY <1>11 DEF SaveLoaded, LoadNext
  <2>3. cache' = [content |-> state, version |-> load[p].seen]
    BY <1>11 DEF SaveLoaded
  <2>4. cache' \in Snapshot
    BY <1>1, <2>1, <2>3 DEF Snapshot
  <2> HIDE DEF e
  <2> QED BY <1>1, <1>3, <1>4, <2>1, <2>2, <2>3, <2>4
<1> QED BY <1>1, <1>5, <1>6, <1>7, <1>8, <1>9, <1>10, <1>11 DEF FetchStep
\* What a request acts on is a content.
LEMMA ActTypes ==
  ASSUME RbacTypeOK, NEW p \in Procs, load[p] # None, NEW content \in Contents, Act(p, content),
         load[p] \in Load, UNCHANGED <<cache, tables, version, rewrite, faults, kept>>
  PROVE  RbacTypeOK'
<1>1. CASE load[p].change = None
  <2>1. /\ state' = content /\ load' = [load EXCEPT ![p] = None]
        /\ UNCHANGED <<queue, made, crossed>>
    BY <1>1 DEF Act
  <2> QED BY <2>1 DEF RbacTypeOK, Loading, Pending
<1>2. CASE load[p].change # None
  <2> DEFINE c == load[p].change
             e == [step |-> "flush", change |-> c]
  <2>1. c \in Changes
    BY <1>2 DEF Load
  <2>2. e \in Flush /\ e.step = "flush"
    BY <2>1 DEF Flush
  <2>3. /\ state' = With(content, c) /\ queue' = Append(queue, c)
        /\ load' = [load EXCEPT ![p] = e] /\ made' = made \cup {c}
    BY <1>2 DEF Act
  <2> HIDE DEF e
  <2>4. state' \in Contents
    BY <2>1, <2>3, ContentFacts
  <2>5. queue' \in Seq(Changes) /\ Pending' = Pending \cup {c}
    BY <2>1, <2>3, QueueAppend DEF Pending, RbacTypeOK
  <2>6. /\ load' \in [Procs -> Load \cup Flush \cup {None}]
        /\ \A q \in Procs : Loading(q)' => Loading(q) /\ load'[q] = load[q]
    BY <2>2, <2>3 DEF RbacTypeOK, Loading
  <2> HIDE DEF c
  <2>7. made' \subseteq Changes /\ kept \subseteq made' /\ Pending' \subseteq made'
    BY <2>1, <2>3, <2>5 DEF RbacTypeOK
  <2> QED BY <2>3, <2>4, <2>6, <2>7 DEF RbacTypeOK
<1> QED BY <1>1, <1>2

LEMMA ActStepTypes ==
  ASSUME RbacTypeOK, NEW p \in Procs, load[p] # None, ActStep(p)
  PROVE  RbacTypeOK'
<1>1. load[p] \in Load
  BY DEF ActStep, ActOnSnapshot, ActOnTables, RbacTypeOK, Flush
<1>2. CASE ActOnSnapshot(p)
  <2>1. load[p].snap \in Snapshot
    BY <1>1, <1>2 DEF ActOnSnapshot, RbacTypeOK, Loading, Load
  <2>2. load[p].snap.content \in Contents
    BY <2>1 DEF Snapshot
  <2> QED BY <1>1, <1>2, <2>2, ActTypes DEF ActOnSnapshot
<1>3. CASE ActOnTables(p)
  BY <1>1, <1>3, ActTypes DEF ActOnTables, RbacTypeOK
<1> QED BY <1>2, <1>3 DEF ActStep

\* The requests that wait for a rewrite are no loads.
LEMMA ReleasedTypes ==
  ASSUME RbacTypeOK, load' = Released
  PROVE  /\ load' \in [Procs -> Load \cup Flush \cup {None}]
         /\ \A p \in Procs : Loading(p)' => Loading(p) /\ load'[p] = load[p]
BY DEF RbacTypeOK, Released, Waiting, Loading

\* The first change of the queue goes into the rewrite.
LEMMA WriteRowsMoves ==
  ASSUME RbacTypeOK, WriteRows
  PROVE  /\ rewrite' \in Rewriting /\ rewrite'.seen = 0 /\ rewrite'.step = "links"
         /\ rewrite'.draft["rows"] = state["rows"]
         /\ queue' \in Seq(Changes) /\ Pending' = Pending
<1> DEFINE e == [change |-> Head(queue), step |-> "links",
                 draft |-> [Nothing EXCEPT !["rows"] = state["rows"]], seen |-> 0]
<1>1. Head(queue) \in Changes /\ queue' \in Seq(Changes)
  BY QueueTail DEF WriteRows, RbacTypeOK
<1>2. /\ e \in Rewriting /\ e.seen = 0 /\ e.change = Head(queue) /\ e.step = "links"
      /\ e.draft["rows"] = state["rows"]
  <2>1. [Nothing EXCEPT !["rows"] = state["rows"]] \in Contents
    BY ContentFacts DEF Contents, Parts, RbacTypeOK
  <2> QED BY <1>1, <2>1 DEF Rewriting, Nothing, Parts
<1>3. rewrite' = e
  BY DEF WriteRows
<1> HIDE DEF e
<1>4. Pending' = Pending
  <2>1. rewrite = None /\ rewrite' # None /\ rewrite'.change = Head(queue)
    BY <1>2, <1>3 DEF WriteRows
  <2>2. {queue[i] : i \in DOMAIN queue} =
           {Head(queue)} \cup {queue'[i] : i \in DOMAIN queue'}
    <3>1. queue \in Seq(Changes) /\ queue # <<>> /\ queue' = Tail(queue)
      BY DEF WriteRows, RbacTypeOK
    <3>2. {queue[i] : i \in DOMAIN queue} =
             {Head(queue)} \cup {Tail(queue)[i] : i \in DOMAIN Tail(queue)}
      BY <3>1, QueueTail
    <3> QED BY <3>1, <3>2
  <2>3. Pending = {queue[i] : i \in DOMAIN queue}
    BY <2>1 DEF Pending
  <2>4. Pending' = {queue'[i] : i \in DOMAIN queue'} \cup {Head(queue)}
    BY <2>1 DEF Pending
  <2> QED BY <2>2, <2>3, <2>4
<1> QED BY <1>1, <1>2, <1>3, <1>4

LEMMA RewriteTypes ==
  ASSUME RbacTypeOK, RewriteStep \/ RewriteFails
  PROVE  RbacTypeOK'
<1>1. /\ version \in Nat /\ faults \in Nat /\ state \in Contents
      /\ rewrite # None => /\ rewrite \in Rewriting /\ rewrite.change \in Changes
                           /\ rewrite.draft \in Contents /\ rewrite.seen \in Nat
  BY DEF RbacTypeOK, Rewriting
<1>2. CASE WriteRows
  <2>1. rewrite' \in Rewriting /\ rewrite'.seen <= version
    BY <1>1, <1>2, WriteRowsMoves
  <2>2. UNCHANGED <<state, cache, tables, version, load, faults, made, kept>>
    BY <1>2 DEF WriteRows
  <2>3. \A p \in Procs : Loading(p)' <=> Loading(p)
    BY <2>2 DEF Loading
  <2> QED BY <1>2, <2>1, <2>2, <2>3, WriteRowsMoves DEF RbacTypeOK
<1>3. ASSUME rewrite # None, NEW e \in Rewriting, rewrite' = e, e.change = rewrite.change,
             e.seen <= version', version' \in Nat, version <= version', tables' \in Contents,
             UNCHANGED <<state, cache, queue, load, faults, made, kept>>
      PROVE  RbacTypeOK'
  <2>1. Pending' = Pending
    BY <1>3 DEF Pending
  <2>2. \A n \in Nat : n <= version => n <= version'
    BY <1>1, <1>3
  <2>3. cache # None => cache.version \in Nat
    BY DEF RbacTypeOK, Snapshot
  <2>4. ASSUME NEW p \in Procs, Loading(p)'
        PROVE  /\ load[p].seen <= version'
               /\ load[p].snap # None => load[p].snap.version <= version'
               /\ load[p].step \in {"check", "use"} => load[p].snap # None
    <3>1. load[p] \in Load /\ Loading(p)
      BY <1>3, <2>4 DEF Loading, RbacTypeOK, Flush
    <3>2. load[p].seen \in Nat /\ (load[p].snap # None => load[p].snap.version \in Nat)
      BY <3>1 DEF Load, Snapshot
    <3> QED BY <2>2, <3>1, <3>2 DEF RbacTypeOK
  <2> QED BY <1>3, <2>1, <2>2, <2>3, <2>4 DEF RbacTypeOK
<1>4. CASE WriteLinks
  <2> DEFINE e == [rewrite EXCEPT !.step = "commit", !.draft["links"] = NewLinks]
  <2>1. [rewrite.draft EXCEPT !["links"] = NewLinks] \in Contents
    BY <1>1, <1>4, ContentFacts DEF WriteLinks, NewLinks, Contents, Parts
  <2>2. e \in Rewriting /\ e.change = rewrite.change /\ e.seen = rewrite.seen
    BY <1>1, <1>4, <2>1 DEF WriteLinks, Rewriting
  <2>3. rewrite' = e /\ rewrite.seen <= version
    BY <1>4 DEF WriteLinks, RbacTypeOK
  <2> HIDE DEF e
  <2> QED BY <1>1, <1>3, <1>4, <2>2, <2>3 DEF WriteLinks, RbacTypeOK
<1>5. CASE Commit
  <2> DEFINE e == [rewrite EXCEPT !.step = "resolve", !.draft = Nothing]
  <2>1. e \in Rewriting /\ e.change = rewrite.change /\ e.seen = rewrite.seen
    BY <1>1, <1>5, ContentFacts DEF Commit, Rewriting
  <2>2. rewrite' = e /\ rewrite.seen <= version /\ version' = version + 1
    BY <1>5 DEF Commit, RbacTypeOK, NextVersion
  <2> HIDE DEF e
  <2>3. version' \in Nat /\ version <= version' /\ e.seen <= version'
    BY <1>1, <1>5, <2>1, <2>2 DEF Commit
  <2> QED BY <1>1, <1>3, <1>5, <2>1, <2>2, <2>3 DEF Commit
<1>6. CASE ResolveRewritten
  <2> DEFINE e == [rewrite EXCEPT !.step = "save", !.seen = version]
  <2>1. e \in Rewriting /\ e.change = rewrite.change /\ e.seen = version
    BY <1>1, <1>6 DEF ResolveRewritten, Rewriting
  <2>2. rewrite' = e
    BY <1>6 DEF ResolveRewritten
  <2> HIDE DEF e
  <2> QED BY <1>1, <1>3, <1>6, <2>1, <2>2 DEF ResolveRewritten, RbacTypeOK
<1>7. CASE SaveRewritten
  <2>1. cache' = [content |-> state, version |-> rewrite.seen] /\ rewrite.seen <= version
    BY <1>7 DEF SaveRewritten, RbacTypeOK
  <2>2. cache' \in Snapshot /\ cache'.version <= version
    BY <1>1, <1>7, <2>1 DEF SaveRewritten, Snapshot
  <2>3. Pending' \subseteq Pending /\ rewrite.change \in Pending
    BY <1>7 DEF SaveRewritten, Pending
  <2> QED BY <1>1, <1>7, <2>2, <2>3, ReleasedTypes DEF SaveRewritten, RbacTypeOK
<1>8. CASE RewriteFails
  <2>1. Pending' \subseteq Pending
    BY <1>8 DEF RewriteFails, Pending
  <2> QED BY <1>1, <1>8, <2>1, ReleasedTypes DEF RewriteFails, RbacTypeOK
<1> QED BY <1>2, <1>4, <1>5, <1>6, <1>7, <1>8 DEF RewriteStep

LEMMA FaultTypes ==
  ASSUME RbacTypeOK, RbacCrash \/ LoseSnapshot
  PROVE  RbacTypeOK'
<1>1. CASE RbacCrash
  <2>1. cache' \in Snapshot /\ cache'.version <= version
    BY <1>1 DEF RbacCrash, RbacTypeOK, Snapshot
  <2>2. queue' \in Seq(Changes) /\ Pending' = {}
    BY <1>1 DEF RbacCrash, Pending
  <2> QED BY <1>1, <2>1, <2>2 DEF RbacCrash, RbacTypeOK, Loading
<1>2. CASE LoseSnapshot
  BY <1>2 DEF LoseSnapshot, RbacTypeOK, Loading, Pending
<1> QED BY <1>1, <1>2

\* Every step keeps the types.
LEMMA RbacTypes == RbacTypeOK /\ (RbacStep \/ UNCHANGED rbac) => RbacTypeOK'
<1> SUFFICES ASSUME RbacTypeOK, RbacStep \/ UNCHANGED rbac PROVE RbacTypeOK'
  OBVIOUS
<1>1. CASE UNCHANGED rbac
  BY <1>1 DEF rbac, RbacTypeOK, Loading, Pending
<1> QED BY <1>1, BeginLoadTypes, FetchTypes, ActStepTypes, RewriteTypes, FaultTypes
        DEF RbacStep, Fetches, Acts

-----------------------------------------------------------------------------
(* The inductive invariant.                                                *)

\* What the rewrite in progress has taken so far has c.
Drafted(c) ==
    /\ rewrite.step = "links" => c \in rewrite.draft["rows"]
    /\ rewrite.step = "commit" => Whole(rewrite.draft, c)

\* What a load may put back has c: a snapshot it takes for current, and the
\* tables it has read.
Carries(l, c) ==
    /\ l.step = "check" /\ l.snap.version = version => Whole(l.snap.content, c)
    /\ l.step = "use" /\ l.snap.version = l.seen => Whole(l.snap.content, c)
    /\ l.step \in {"read", "replace"} => \A q \in Parts \ l.left : c \in l.got[q]

\* A change that waits for its rewrite, or is in it, is in the process, and no
\* load is there to put an old state back.
PendingSafe ==
    \A c \in Pending \ crossed :
        /\ Whole(state, c)
        /\ \A p \in Procs : ~Loading(p)
        /\ rewrite # None /\ rewrite.change = c => Drafted(c)

\* A change that was rewritten is in the tables, in the process, in what is
\* being written, and in everything that may be put back.
WrittenSafe ==
    \A c \in Written \ crossed :
        /\ Whole(tables, c) /\ Whole(state, c)
        /\ cache # None /\ cache.version = version => Whole(cache.content, c)
        /\ rewrite # None => Drafted(c)
        /\ \A p \in Procs : Loading(p) => Carries(load[p], c)

\* The state is replaced when all tables were read.
ReplaceComplete == \A p \in Procs : Loading(p) /\ load[p].step = "replace" => load[p].left = {}

RbacSafe == RbacTypeOK /\ PendingSafe /\ WrittenSafe /\ ReplaceComplete

LEMMA RbacInitSafe == RbacInit => RbacSafe
<1> SUFFICES ASSUME RbacInit PROVE RbacSafe
  OBVIOUS
<1>1. Pending = {} /\ Written = {}
  BY DEF RbacInit, Pending, Written
<1> QED BY <1>1, RbacInitTypes DEF RbacInit, RbacSafe, PendingSafe, WrittenSafe, ReplaceComplete,
        Loading

\* The start of a load crosses all changes that wait.
LEMMA BeginSafe ==
  ASSUME RbacSafe, Begins
  PROVE  PendingSafe' /\ WrittenSafe' /\ ReplaceComplete'
<1>1. PICK p \in Procs, c \in Changes \cup {None} :
         load' = [load EXCEPT ![p] = [step |-> "get", change |-> c, snap |-> None,
                                      seen |-> 0, got |-> Nothing, left |-> {}]]
  BY DEF Begins, BeginLoad
<1>2. /\ crossed' = crossed \cup Pending
      /\ UNCHANGED <<state, cache, tables, version, queue, rewrite, kept>>
  BY DEF Begins, BeginLoad
<1>3. Pending' = Pending /\ Written' = Written
  BY <1>2 DEF Pending, Written
<1>4. PendingSafe'
  BY <1>2, <1>3 DEF PendingSafe
<1>5. /\ load'[p].step = "get"
      /\ \A q \in Procs \ {p} : load'[q] = load[q] /\ (Loading(q)' <=> Loading(q))
  BY <1>1 DEF RbacSafe, RbacTypeOK, Loading
<1>6. ASSUME NEW d \in Written' \ crossed' PROVE
        /\ Whole(tables', d) /\ Whole(state', d)
        /\ cache' # None /\ cache'.version = version' => Whole(cache'.content, d)
        /\ rewrite' # None => Drafted(d)'
        /\ \A q \in Procs : Loading(q)' => Carries(load[q], d)'
  <2>1. d \in Written \ crossed
    BY <1>2, <1>3
  <2>2. /\ Whole(tables, d) /\ Whole(state, d)
        /\ cache # None /\ cache.version = version => Whole(cache.content, d)
        /\ rewrite # None => Drafted(d)
        /\ \A q \in Procs : Loading(q) => Carries(load[q], d)
    BY <2>1 DEF RbacSafe, WrittenSafe
  <2>3. ASSUME NEW q \in Procs, Loading(q)' PROVE Carries(load[q], d)'
    <3>1. CASE q = p
      BY <1>5, <3>1 DEF Carries
    <3>2. CASE q # p
      BY <1>2, <1>5, <2>2, <2>3, <3>2 DEF Carries
    <3> QED BY <3>1, <3>2
  <2> QED BY <1>2, <2>2, <2>3 DEF Drafted
<1>7. WrittenSafe'
  BY <1>6 DEF WrittenSafe
<1>8. ReplaceComplete'
  BY <1>5 DEF RbacSafe, ReplaceComplete
<1> QED BY <1>4, <1>7, <1>8

\* Where a load is, every change that waits is crossed; the written ones are in
\* whatever it puts back.
LEMMA FetchSafe ==
  ASSUME RbacSafe, NEW p \in Procs, load[p] # None, FetchStep(p)
  PROVE  PendingSafe' /\ WrittenSafe' /\ ReplaceComplete'
<1>1. /\ load[p] \in Load /\ Loading(p)
      /\ version \in Nat /\ cache \in Snapshot \cup {None} /\ load \in [Procs -> Load \cup Flush \cup {None}]
  BY FetchTypes DEF RbacSafe, RbacTypeOK, FetchStep, GetSnapshot, ReadVersion, GoToTables, ReadTable,
     Replace, Resolve, SaveLoaded, Loading
<1>2. UNCHANGED <<tables, version, queue, rewrite, faults, made, kept, crossed>>
  BY DEF FetchStep, GetSnapshot, ReadVersion, GoToTables, ReadTable, Replace, Resolve, SaveLoaded
<1>3. ASSUME NEW c \in Written \ crossed
      PROVE  /\ Whole(tables, c) /\ Whole(state, c)
             /\ cache # None /\ cache.version = version => Whole(cache.content, c)
             /\ rewrite # None => Drafted(c)
             /\ \A q \in Procs : Loading(q) => Carries(load[q], c)
             /\ Carries(load[p], c)
  BY <1>1, <1>3 DEF RbacSafe, WrittenSafe
<1>4. load[p].step = "replace" => load[p].left = {}
  BY <1>1 DEF RbacSafe, ReplaceComplete
<1>5. PendingSafe'
  <2>1. Pending' = Pending
    BY <1>2 DEF Pending
  <2>2. Pending \subseteq crossed
    BY <1>1 DEF RbacSafe, PendingSafe
  <2> QED BY <1>2, <2>1, <2>2 DEF PendingSafe
<1>6. ASSUME NEW e \in Load, load' = [load EXCEPT ![p] = e], e.step = "replace" => e.left = {},
             \A c \in Written \ crossed :
                /\ Whole(state', c) /\ Carries(e, c)
                /\ cache' # None /\ cache'.version = version => Whole(cache'.content, c)
      PROVE  WrittenSafe' /\ ReplaceComplete'
  <2>1. /\ load'[p] = e
        /\ \A q \in Procs \ {p} : load'[q] = load[q] /\ (Loading(q)' <=> Loading(q))
    BY <1>1, <1>6 DEF Loading
  <2>2. Written' = Written
    BY <1>2 DEF Written
  <2>3. ASSUME NEW d \in Written' \ crossed' PROVE
          /\ Whole(tables', d) /\ Whole(state', d)
          /\ cache' # None /\ cache'.version = version' => Whole(cache'.content, d)
          /\ rewrite' # None => Drafted(d)'
          /\ \A q \in Procs : Loading(q)' => Carries(load[q], d)'
    <3>1. d \in Written \ crossed
      BY <1>2, <2>2
    <3>2. ASSUME NEW q \in Procs, Loading(q)' PROVE Carries(load[q], d)'
      <4>1. CASE q = p
        <5>1. Carries(e, d)
          BY <1>6, <3>1
        <5> QED BY <1>2, <2>1, <4>1, <5>1 DEF Carries
      <4>2. CASE q # p
        <5>1. Carries(load[q], d)
          BY <1>3, <2>1, <3>1, <3>2, <4>2
        <5> QED BY <1>2, <2>1, <4>2, <5>1 DEF Carries
      <4> QED BY <4>1, <4>2
    <3> QED BY <1>2, <1>3, <1>6, <3>1, <3>2 DEF Drafted
  <2>4. WrittenSafe'
    BY <2>3 DEF WrittenSafe
  <2>5. ReplaceComplete'
    BY <1>6, <2>1 DEF RbacSafe, ReplaceComplete
  <2> QED BY <2>4, <2>5
<1>7. CASE GetSnapshot(p)
  <2> DEFINE e == IF cache = None THEN [load[p] EXCEPT !.step = "read", !.left = Parts]
                  ELSE [load[p] EXCEPT !.step = "check", !.snap = cache]
  <2>1. /\ e \in Load /\ e.step \in {"read", "check"}
        /\ e.step = "check" => cache # None /\ e.snap = cache
        /\ e.step = "read" => e.left = Parts
    BY <1>1, <1>7 DEF GetSnapshot, Load
  <2>2. load' = [load EXCEPT ![p] = e] /\ UNCHANGED <<state, cache>>
    BY <1>7 DEF GetSnapshot
  <2> HIDE DEF e
  <2>3. ASSUME NEW c \in Written \ crossed PROVE Carries(e, c)
    BY <1>3, <2>1, <2>3 DEF Carries
  <2> QED BY <1>3, <1>5, <1>6, <2>1, <2>2, <2>3
<1>8. CASE ReadVersion(p)
  <2> DEFINE e == [load[p] EXCEPT !.step = "use", !.seen = version]
  <2>1. /\ e \in Load /\ e.step = "use" /\ e.snap = load[p].snap /\ e.seen = version
        /\ load[p].step = "check"
    BY <1>1, <1>8 DEF ReadVersion, Load
  <2>2. load' = [load EXCEPT ![p] = e] /\ UNCHANGED <<state, cache>>
    BY <1>8 DEF ReadVersion
  <2> HIDE DEF e
  <2>3. ASSUME NEW c \in Written \ crossed PROVE Carries(e, c)
    BY <1>3, <2>1, <2>3 DEF Carries
  <2> QED BY <1>3, <1>5, <1>6, <2>1, <2>2, <2>3
<1>9. CASE GoToTables(p)
  <2> DEFINE e == [load[p] EXCEPT !.step = "read", !.snap = None, !.seen = 0, !.left = Parts]
  <2>1. e \in Load /\ e.step = "read" /\ e.left = Parts
    BY <1>1, <1>9 DEF GoToTables, Load
  <2>2. load' = [load EXCEPT ![p] = e] /\ UNCHANGED <<state, cache>>
    BY <1>9 DEF GoToTables
  <2> HIDE DEF e
  <2>3. ASSUME NEW c \in Written \ crossed PROVE Carries(e, c)
    BY <1>3, <2>1, <2>3 DEF Carries
  <2> QED BY <1>3, <1>5, <1>6, <2>1, <2>2, <2>3
<1>10. CASE ReadTable(p)
  <2>1. PICK q \in load[p].left :
           load' = [load EXCEPT ![p].got[q] = tables[q], ![p].left = @ \ {q},
                        ![p].step = IF load[p].left = {q} THEN "replace" ELSE "read"]
    BY <1>10 DEF ReadTable
  <2> DEFINE e == [load[p] EXCEPT !.got[q] = tables[q], !.left = @ \ {q},
                       !.step = IF load[p].left = {q} THEN "replace" ELSE "read"]
  <2>2. load[p].got \in Contents /\ q \in Parts /\ tables[q] \in SUBSET Changes
    BY <1>1 DEF Load, Contents, RbacSafe, RbacTypeOK
  <2>3. [load[p].got EXCEPT ![q] = tables[q]] \in Contents
    BY <2>2, ContentFacts
  <2>4. /\ e \in Load /\ e.step \in {"read", "replace"} /\ (e.step = "replace" => e.left = {})
        /\ e.left = load[p].left \ {q} /\ e.got = [load[p].got EXCEPT ![q] = tables[q]]
        /\ load[p].step = "read"
    BY <1>1, <1>10, <2>3 DEF ReadTable, Load
  <2>5. load' = [load EXCEPT ![p] = e] /\ UNCHANGED <<state, cache>>
    BY <1>10, <2>1 DEF ReadTable
  <2> HIDE DEF e
  <2>6. ASSUME NEW c \in Written \ crossed PROVE Carries(e, c)
    <3>1. \A r \in Parts \ load[p].left : c \in load[p].got[r]
      BY <1>3, <2>4, <2>6 DEF Carries
    <3>2. c \in tables[q]
      BY <1>3, <2>2, <2>6 DEF Whole
    <3>3. \A r \in Parts \ e.left : c \in e.got[r]
      BY <2>2, <2>4, <3>1, <3>2 DEF Contents
    <3> QED BY <2>4, <3>3 DEF Carries
  <2> QED BY <1>3, <1>5, <1>6, <2>4, <2>5, <2>6
<1>11. CASE Replace(p)
  <2> DEFINE e == [load[p] EXCEPT !.step = "resolve", !.got = Nothing]
  <2>1. e \in Load /\ e.step = "resolve"
    BY <1>1, ContentFacts DEF Load
  <2>2. /\ load' = [load EXCEPT ![p] = e] /\ UNCHANGED cache /\ state' = load[p].got
        /\ load[p].step = "replace"
    BY <1>11 DEF Replace
  <2> HIDE DEF e
  <2>3. ASSUME NEW c \in Written \ crossed PROVE Carries(e, c) /\ Whole(state', c)
    <3>1. \A q \in Parts : c \in load[p].got[q]
      BY <1>3, <1>4, <2>2, <2>3 DEF Carries
    <3> QED BY <2>1, <2>2, <3>1 DEF Carries, Whole
  <2> QED BY <1>3, <1>5, <1>6, <2>1, <2>2, <2>3
<1>12. CASE Resolve(p)
  <2> DEFINE e == [load[p] EXCEPT !.step = "save", !.seen = version]
  <2>1. e \in Load /\ e.step = "save"
    BY <1>1 DEF Load
  <2>2. load' = [load EXCEPT ![p] = e] /\ UNCHANGED <<state, cache>>
    BY <1>12 DEF Resolve
  <2> HIDE DEF e
  <2>3. ASSUME NEW c \in Written \ crossed PROVE Carries(e, c)
    BY <2>1 DEF Carries
  <2> QED BY <1>3, <1>5, <1>6, <2>1, <2>2, <2>3
<1>13. CASE SaveLoaded(p)
  <2> DEFINE e == [load[p] EXCEPT !.step = "act"]
  <2>1. e \in Load /\ e.step = "act"
    BY <1>1 DEF Load
  <2>2. /\ load' = [load EXCEPT ![p] = e] /\ UNCHANGED state
        /\ cache' = [content |-> state, version |-> load[p].seen]
    BY <1>13 DEF SaveLoaded, LoadNext
  <2> HIDE DEF e
  <2>3. ASSUME NEW c \in Written \ crossed PROVE Carries(e, c) /\ Whole(cache'.content, c)
    BY <1>3, <2>1, <2>2, <2>3 DEF Carries
  <2> QED BY <1>3, <1>5, <1>6, <2>1, <2>2, <2>3
<1> QED BY <1>5, <1>7, <1>8, <1>9, <1>10, <1>11, <1>12, <1>13 DEF FetchStep

\* A change is queued: it is in the process, and crossed if another load is
\* there.
LEMMA ActSafe ==
  ASSUME RbacSafe, NEW p \in Procs, NEW content \in Contents, Act(p, content),
         load[p] \in Load, Loading(p), UNCHANGED <<cache, tables, version, rewrite, faults, kept>>,
         \A d \in Written \ crossed : Whole(content, d)
  PROVE  PendingSafe' /\ WrittenSafe' /\ ReplaceComplete'
<1>1. Written' = Written
  BY DEF Written
<1>2. /\ Pending \subseteq crossed /\ crossed \subseteq crossed'
      /\ \A q \in Procs : Loading(q)' => q # p /\ Loading(q) /\ load'[q] = load[q]
      /\ \A d \in Written \ crossed : Whole(state', d)
  <2>1. Pending \subseteq crossed
    BY DEF RbacSafe, PendingSafe
  <2>2. CASE load[p].change = None
    <3>1. state' = content /\ load' = [load EXCEPT ![p] = None] /\ crossed' = crossed
      BY <2>2 DEF Act
    <3>2. load \in [Procs -> Load \cup Flush \cup {None}]
      BY DEF RbacSafe, RbacTypeOK
    <3> QED BY <2>1, <3>1, <3>2 DEF Loading
  <2>3. CASE load[p].change # None
    <3> DEFINE c == load[p].change
               e == [step |-> "flush", change |-> c]
    <3>1. /\ state' = With(content, c) /\ load' = [load EXCEPT ![p] = e] /\ e.step = "flush"
          /\ crossed \subseteq crossed'
      BY <2>3 DEF Act
    <3>2. load \in [Procs -> Load \cup Flush \cup {None}] /\ Written \subseteq Changes
      BY DEF RbacSafe, RbacTypeOK, Written, Rewriting
    <3>3. c \in Changes
      BY <2>3 DEF Load
    <3> HIDE DEF e, c
    <3>4. \A d \in Written \ crossed : Whole(state', d)
      BY <3>1, <3>2, <3>3, ContentFacts
    <3> QED BY <2>1, <3>1, <3>2, <3>4 DEF Loading
  <2> QED BY <2>2, <2>3
<1>3. ASSUME NEW d \in Written' \ crossed' PROVE
        /\ Whole(tables', d) /\ Whole(state', d)
        /\ cache' # None /\ cache'.version = version' => Whole(cache'.content, d)
        /\ rewrite' # None => Drafted(d)'
        /\ \A q \in Procs : Loading(q)' => Carries(load[q], d)'
  <2>1. d \in Written \ crossed
    BY <1>1, <1>2
  <2>2. /\ Whole(tables, d) /\ Whole(state', d)
        /\ cache # None /\ cache.version = version => Whole(cache.content, d)
        /\ rewrite # None => Drafted(d)
        /\ \A q \in Procs : Loading(q) => Carries(load[q], d)
    BY <1>2, <2>1 DEF RbacSafe, WrittenSafe
  <2>3. ASSUME NEW q \in Procs, Loading(q)' PROVE Carries(load[q], d)'
    BY <1>2, <2>2, <2>3 DEF Carries
  <2> QED BY <2>2, <2>3 DEF Drafted
<1>4. WrittenSafe'
  BY <1>3 DEF WrittenSafe
<1>5. ReplaceComplete'
  BY <1>2 DEF RbacSafe, ReplaceComplete
<1>6. PendingSafe'
  <2>1. CASE load[p].change = None
    <3>1. Pending' = Pending
      BY <2>1 DEF Act, Pending
    <3> QED BY <1>2, <3>1 DEF PendingSafe
  <2>2. CASE load[p].change # None
    <3> DEFINE c == load[p].change
    <3>1. c \in Changes
      BY <2>2 DEF Load
    <3>2. /\ state' = With(content, c) /\ queue' = Append(queue, c)
          /\ (\E r \in Procs \ {p} : Loading(r)) => c \in crossed'
      BY <2>2 DEF Act
    <3> HIDE DEF c
    <3>3. Pending' = Pending \cup {c}
      BY <3>1, <3>2, QueueAppend DEF Pending, RbacSafe, RbacTypeOK
    <3>4. Whole(state', c)
      BY <3>1, <3>2, ContentFacts
    <3>5. ASSUME NEW d \in Pending' \ crossed'
          PROVE  /\ Whole(state', d)
                 /\ \A q \in Procs : ~Loading(q)'
                 /\ rewrite' # None /\ rewrite'.change = d => Drafted(d)'
      <4>1. d = c /\ d \notin Pending
        BY <1>2, <3>3
      <4>2. ~(rewrite # None /\ rewrite.change = d)
        BY <4>1 DEF Pending
      <4>3. ASSUME NEW q \in Procs, Loading(q)' PROVE FALSE
        BY <1>2, <3>2, <3>5, <4>1, <4>3
      <4> QED BY <3>4, <4>1, <4>2, <4>3
    <3> QED BY <3>5 DEF PendingSafe
  <2> QED BY <2>1, <2>2
<1> QED BY <1>4, <1>5, <1>6

LEMMA ActStepSafe ==
  ASSUME RbacSafe, NEW p \in Procs, load[p] # None, ActStep(p)
  PROVE  PendingSafe' /\ WrittenSafe' /\ ReplaceComplete'
<1>1. load[p] \in Load /\ Loading(p) /\ state \in Contents
  BY DEF ActStep, ActOnSnapshot, ActOnTables, RbacSafe, RbacTypeOK, Flush, Loading
<1>2. CASE ActOnSnapshot(p)
  <2>1. load[p].snap \in Snapshot /\ load[p].step = "use" /\ load[p].snap.version = load[p].seen
    BY <1>1, <1>2 DEF ActOnSnapshot, Stale, RbacSafe, RbacTypeOK, Loading, Load
  <2>2. load[p].snap.content \in Contents
    BY <2>1 DEF Snapshot
  <2>3. \A d \in Written \ crossed : Whole(load[p].snap.content, d)
    BY <1>1, <2>1 DEF RbacSafe, WrittenSafe, Carries
  <2> QED BY <1>1, <1>2, <2>2, <2>3, ActSafe DEF ActOnSnapshot
<1>3. CASE ActOnTables(p)
  <2>1. \A d \in Written \ crossed : Whole(state, d)
    BY DEF RbacSafe, WrittenSafe
  <2> QED BY <1>1, <1>3, <2>1, ActSafe DEF ActOnTables
<1> QED BY <1>2, <1>3 DEF ActStep

\* The rewrite takes what is in the process, and with the tables the version is
\* a new one, which no snapshot has.
LEMMA RewriteSafe ==
  ASSUME RbacSafe, RewriteStep
  PROVE  PendingSafe' /\ WrittenSafe' /\ ReplaceComplete'
<1>1. /\ version \in Nat /\ RbacTypeOK /\ crossed' = crossed /\ state' = state
      /\ rewrite # None => rewrite \in Rewriting /\ rewrite.change \in Pending
  BY DEF RbacSafe, RbacTypeOK, RewriteStep, WriteRows, WriteLinks, Commit, ResolveRewritten,
     SaveRewritten, Pending
<1>2. ASSUME NEW d \in Written \ crossed
      PROVE  /\ Whole(tables, d) /\ Whole(state, d)
             /\ cache # None /\ cache.version = version => Whole(cache.content, d)
             /\ rewrite # None => Drafted(d)
             /\ \A q \in Procs : Loading(q) => Carries(load[q], d)
  BY <1>2 DEF RbacSafe, WrittenSafe
<1>3. ASSUME NEW d \in Pending \ crossed
      PROVE  /\ Whole(state, d)
             /\ \A q \in Procs : ~Loading(q)
             /\ rewrite # None /\ rewrite.change = d => Drafted(d)
  BY <1>3 DEF RbacSafe, PendingSafe
<1>4. \A d \in Changes, x \in Contents : Whole(x, d) => d \in x["rows"] /\ d \in x["links"]
  BY DEF Whole, Parts
<1>5. Pending \subseteq Changes /\ Written \subseteq Changes /\ state \in Contents
  BY <1>1 DEF RbacTypeOK, Written, Rewriting
\* Where the loads, the tables and the snapshot stay, the draft is to be shown.
<1>6. ASSUME rewrite' # None, Pending' = Pending, Written' = Written,
             UNCHANGED <<cache, tables, version, load>>,
             \A d \in (Pending \cup Written) \ crossed :
                 /\ Whole(state, d)
                 /\ rewrite # None /\ (d \in Written \/ d = rewrite.change) => Drafted(d)
                 /\ d \in Written \/ d = rewrite'.change
                 => Drafted(d)'
      PROVE  PendingSafe' /\ WrittenSafe' /\ ReplaceComplete'
  <2>1. \A q \in Procs : Loading(q)' <=> Loading(q)
    BY <1>6 DEF Loading
  <2>2. ASSUME NEW d \in Written' \ crossed' PROVE
          /\ Whole(tables', d) /\ Whole(state', d)
          /\ cache' # None /\ cache'.version = version' => Whole(cache'.content, d)
          /\ rewrite' # None => Drafted(d)'
          /\ \A q \in Procs : Loading(q)' => Carries(load[q], d)'
    <3>1. d \in Written \ crossed
      BY <1>1, <1>6
    <3>2. Drafted(d)'
      BY <1>2, <1>6, <3>1
    <3>3. ASSUME NEW q \in Procs, Loading(q)' PROVE Carries(load[q], d)'
      BY <1>2, <1>6, <2>1, <3>1, <3>3 DEF Carries
    <3> QED BY <1>1, <1>2, <1>6, <3>1, <3>2, <3>3
  <2>3. ASSUME NEW d \in Pending' \ crossed' PROVE
          /\ Whole(state', d)
          /\ \A p \in Procs : ~Loading(p)'
          /\ rewrite' # None /\ rewrite'.change = d => Drafted(d)'
    <3>1. d \in Pending \ crossed
      BY <1>1, <1>6
    <3>2. rewrite # None /\ (d \in Written \/ d = rewrite.change) => Drafted(d)
      BY <1>2, <1>3, <3>1
    <3> QED BY <1>1, <1>3, <1>6, <2>1, <3>1, <3>2
  <2> QED BY <1>6, <2>1, <2>2, <2>3 DEF WrittenSafe, PendingSafe, ReplaceComplete, RbacSafe
<1>7. CASE WriteRows
  <2>1. /\ rewrite' \in Rewriting /\ rewrite'.step = "links"
        /\ rewrite'.draft["rows"] = state["rows"] /\ Pending' = Pending /\ rewrite = None
    BY <1>1, <1>7, WriteRowsMoves DEF WriteRows
  <2>2. rewrite' # None /\ Written' = Written /\ UNCHANGED <<cache, tables, version, load>>
    BY <1>7, <2>1 DEF WriteRows, Written
  <2>3. ASSUME NEW d \in (Pending \cup Written) \ crossed, Whole(state, d)
        PROVE  Drafted(d)'
    BY <1>4, <1>5, <2>1, <2>3 DEF Drafted
  <2> QED BY <1>6, <2>1, <2>2, <2>3
<1>8. CASE WriteLinks
  <2> DEFINE e == [rewrite EXCEPT !.step = "commit", !.draft["links"] = NewLinks]
  <2>1. /\ rewrite # None /\ rewrite' = e /\ rewrite.step = "links" /\ rewrite \in Rewriting
        /\ UNCHANGED <<cache, tables, version, load, queue, kept>>
    BY <1>1, <1>8 DEF WriteLinks
  <2>2. /\ e.step = "commit" /\ e.change = rewrite.change
        /\ e.draft["rows"] = rewrite.draft["rows"] /\ e.draft["links"] = state["links"]
    BY <2>1 DEF Rewriting, Contents, Parts, NewLinks
  <2>3. e \in Rewriting
    <3>1. [rewrite.draft EXCEPT !["links"] = NewLinks] \in Contents
      BY <1>5, <2>1, ContentFacts DEF NewLinks, Contents, Parts, Rewriting
    <3> QED BY <2>1, <3>1 DEF Rewriting
  <2> HIDE DEF e
  <2>4. rewrite' # None /\ Written' = Written /\ Pending' = Pending
    BY <2>1, <2>2, <2>3 DEF Written, Pending
  <2>5. ASSUME NEW d \in (Pending \cup Written) \ crossed, Whole(state, d), Drafted(d)
        PROVE  Drafted(d)'
    <3>1. d \in rewrite.draft["rows"] /\ d \in state["links"]
      BY <1>4, <1>5, <2>1, <2>5 DEF Drafted
    <3>2. Whole(e.draft, d)
      BY <2>2, <3>1 DEF Whole, Parts
    <3> QED BY <2>1, <2>2, <3>2 DEF Drafted
  <2> QED BY <1>6, <2>1, <2>2, <2>4, <2>5
<1>9. CASE Commit
  <2> DEFINE e == [rewrite EXCEPT !.step = "resolve", !.draft = Nothing]
  <2>1. /\ rewrite # None /\ rewrite' = e /\ rewrite.step = "commit" /\ rewrite \in Rewriting
        /\ tables' = rewrite.draft /\ version' = version + 1
        /\ UNCHANGED <<cache, load, queue, kept>>
    BY <1>1, <1>9 DEF Commit, NextVersion
  <2>2. e \in Rewriting /\ e.step = "resolve" /\ e.change = rewrite.change
    BY <1>5, <2>1, ContentFacts DEF Rewriting
  <2> HIDE DEF e
  <2>3. rewrite' # None /\ Pending' = Pending /\ Written' = Written \cup {rewrite.change}
    BY <2>1, <2>2 DEF Written, Pending
  <2>4. \A q \in Procs : Loading(q)' <=> Loading(q)
    BY <2>1 DEF Loading
  <2>5. \A d : Drafted(d)'
    BY <2>1, <2>2 DEF Drafted
  <2>6. ASSUME NEW d \in Written' \ crossed' PROVE
          /\ Whole(tables', d) /\ Whole(state', d)
          /\ cache' # None /\ cache'.version = version' => Whole(cache'.content, d)
          /\ rewrite' # None => Drafted(d)'
          /\ \A q \in Procs : Loading(q)' => Carries(load[q], d)'
    <3>1. d \in Written \ crossed \/ (d = rewrite.change /\ d \in Pending \ crossed)
      BY <1>1, <2>1, <2>3
    <3>2. Drafted(d) /\ Whole(state, d)
      BY <1>2, <1>3, <2>1, <3>1
    <3>3. Whole(tables', d)
      BY <2>1, <3>2 DEF Drafted
    <3>4. ~(cache' # None /\ cache'.version = version')
      <4>1. cache # None => cache.version <= version /\ cache.version \in Nat
        BY <1>1 DEF RbacTypeOK, Snapshot
      <4> QED BY <1>1, <2>1, <4>1
    <3>5. ASSUME NEW q \in Procs, Loading(q)' PROVE Carries(load[q], d)'
      <4>1. d \in Written \ crossed
        BY <1>3, <2>4, <3>1, <3>5
      <4>2. Carries(load[q], d) /\ Loading(q)
        BY <1>2, <2>4, <3>5, <4>1
      <4>3. load[q].step = "check" => load[q].snap.version # version'
        <5>1. load[q] \in Load
          BY <1>1, <4>2 DEF RbacTypeOK, Loading, Flush
        <5>2. load[q].step = "check" => load[q].snap.version <= version /\ load[q].snap.version \in Nat
          BY <1>1, <4>2, <5>1 DEF RbacTypeOK, Load, Snapshot
        <5> QED BY <1>1, <2>1, <5>2
      <4> QED BY <2>1, <4>2, <4>3 DEF Carries
    <3> QED BY <1>1, <2>5, <3>2, <3>3, <3>4, <3>5
  <2>7. PendingSafe'
    BY <1>1, <1>3, <2>3, <2>4, <2>5 DEF PendingSafe
  <2> QED BY <2>1, <2>4, <2>6, <2>7 DEF WrittenSafe, ReplaceComplete, RbacSafe
<1>10. CASE ResolveRewritten
  <2> DEFINE e == [rewrite EXCEPT !.step = "save", !.seen = version]
  <2>1. /\ rewrite # None /\ rewrite' = e /\ rewrite.step = "resolve" /\ rewrite \in Rewriting
        /\ UNCHANGED <<cache, tables, version, load, queue, kept>>
    BY <1>1, <1>10 DEF ResolveRewritten
  <2>2. e \in Rewriting /\ e.step = "save" /\ e.change = rewrite.change
    BY <1>1, <2>1 DEF Rewriting
  <2> HIDE DEF e
  <2>3. rewrite' # None /\ Written' = Written /\ Pending' = Pending
    BY <2>1, <2>2 DEF Written, Pending
  <2>4. \A d : Drafted(d)'
    BY <2>1, <2>2 DEF Drafted
  <2> QED BY <1>6, <2>1, <2>3, <2>4
<1>11. CASE SaveRewritten
  <2>1. /\ rewrite # None /\ rewrite.step = "save" /\ rewrite' = None
        /\ cache' = [content |-> state, version |-> rewrite.seen]
        /\ kept' = kept \cup {rewrite.change} /\ UNCHANGED <<tables, version, queue>>
    BY <1>11 DEF SaveRewritten
  <2>2. Written' = Written /\ Pending' \subseteq Pending
    BY <2>1 DEF Written, Pending
  <2>3. \A q \in Procs : Loading(q)' => Loading(q) /\ load'[q] = load[q]
    BY <1>1, <1>11, ReleasedTypes DEF SaveRewritten
  <2>4. ASSUME NEW d \in Written' \ crossed' PROVE
          /\ Whole(tables', d) /\ Whole(state', d)
          /\ cache' # None /\ cache'.version = version' => Whole(cache'.content, d)
          /\ rewrite' # None => Drafted(d)'
          /\ \A q \in Procs : Loading(q)' => Carries(load[q], d)'
    <3>1. d \in Written \ crossed
      BY <1>1, <2>2
    <3>2. ASSUME NEW q \in Procs, Loading(q)' PROVE Carries(load[q], d)'
      BY <1>2, <2>1, <2>3, <3>1, <3>2 DEF Carries
    <3> QED BY <1>1, <1>2, <2>1, <3>1, <3>2
  <2>5. PendingSafe'
    BY <1>1, <1>3, <2>1, <2>2, <2>3 DEF PendingSafe
  <2> QED BY <2>3, <2>4, <2>5 DEF WrittenSafe, ReplaceComplete, RbacSafe
<1> QED BY <1>7, <1>8, <1>9, <1>10, <1>11 DEF RewriteStep

\* What fails is forgotten, and what dies leaves the tables.
LEMMA FaultSafe ==
  ASSUME RbacSafe, RewriteFails \/ RbacCrash \/ LoseSnapshot
  PROVE  PendingSafe' /\ WrittenSafe' /\ ReplaceComplete'
<1>1. ASSUME NEW d \in Written \ crossed
      PROVE  /\ Whole(tables, d) /\ Whole(state, d)
             /\ cache # None /\ cache.version = version => Whole(cache.content, d)
             /\ rewrite # None => Drafted(d)
             /\ \A q \in Procs : Loading(q) => Carries(load[q], d)
  BY <1>1 DEF RbacSafe, WrittenSafe
<1>2. CASE RewriteFails
  <2>1. /\ rewrite # None /\ rewrite' = None
        /\ UNCHANGED <<state, cache, tables, version, queue, kept, crossed>>
    BY <1>2 DEF RewriteFails
  <2>2. Written' \subseteq Written /\ Pending' \subseteq Pending
    BY <2>1 DEF Written, Pending
  <2>3. \A q \in Procs : Loading(q)' => Loading(q) /\ load'[q] = load[q]
    BY <1>2, ReleasedTypes DEF RewriteFails, RbacSafe
  <2>4. ASSUME NEW d \in Written' \ crossed' PROVE
          /\ Whole(tables', d) /\ Whole(state', d)
          /\ cache' # None /\ cache'.version = version' => Whole(cache'.content, d)
          /\ rewrite' # None => Drafted(d)'
          /\ \A q \in Procs : Loading(q)' => Carries(load[q], d)'
    <3>1. d \in Written \ crossed
      BY <2>1, <2>2
    <3>2. ASSUME NEW q \in Procs, Loading(q)' PROVE Carries(load[q], d)'
      BY <1>1, <2>1, <2>3, <3>1, <3>2 DEF Carries
    <3> QED BY <1>1, <2>1, <3>1, <3>2
  <2>5. PendingSafe'
    BY <2>1, <2>2, <2>3 DEF PendingSafe, RbacSafe
  <2> QED BY <2>3, <2>4, <2>5 DEF WrittenSafe, ReplaceComplete, RbacSafe
<1>3. CASE RbacCrash
  <2>1. /\ state' = tables /\ cache' = [content |-> tables, version |-> version]
        /\ queue' = <<>> /\ rewrite' = None /\ load' = [p \in Procs |-> None]
        /\ UNCHANGED <<tables, version, kept, crossed>>
    BY <1>3 DEF RbacCrash
  <2>2. Written' \subseteq Written /\ Pending' = {}
    BY <2>1 DEF Written, Pending
  <2>3. \A q \in Procs : ~Loading(q)'
    BY <2>1 DEF Loading
  <2> QED BY <1>1, <2>1, <2>2, <2>3 DEF WrittenSafe, PendingSafe, ReplaceComplete
<1>4. CASE LoseSnapshot
  <2>1. cache' = None /\ UNCHANGED <<state, tables, version, queue, rewrite, load, kept, crossed>>
    BY <1>4 DEF LoseSnapshot
  <2>2. Written' = Written /\ Pending' = Pending /\ \A q \in Procs : Loading(q)' <=> Loading(q)
    BY <2>1 DEF Written, Pending, Loading
  <2> QED BY <1>1, <2>1, <2>2
          DEF WrittenSafe, PendingSafe, ReplaceComplete, RbacSafe, Carries, Drafted
<1> QED BY <1>2, <1>3, <1>4

\* Every step keeps the invariant, and so does a step of something else.
LEMMA RbacSafeStep == RbacSafe /\ (RbacStep \/ UNCHANGED rbac) => RbacSafe'
<1> SUFFICES ASSUME RbacSafe, RbacStep \/ UNCHANGED rbac PROVE RbacSafe'
  OBVIOUS
<1>1. RbacTypeOK'
  BY RbacTypes DEF RbacSafe
<1>2. CASE UNCHANGED rbac
  <2>1. Written' = Written /\ Pending' = Pending /\ \A q \in Procs : Loading(q)' <=> Loading(q)
    BY <1>2 DEF rbac, Written, Pending, Loading
  <2> QED BY <1>1, <1>2, <2>1
          DEF rbac, WrittenSafe, PendingSafe, ReplaceComplete, RbacSafe, Carries, Drafted
<1> QED BY <1>1, <1>2, BeginSafe, FetchSafe, ActStepSafe, RewriteSafe, FaultSafe
        DEF RbacStep, Fetches, Acts, RbacSafe

-----------------------------------------------------------------------------
(* What follows of it.                                                     *)

LEMMA RbacSafeHolds == RbacSafe => CalmChangesKept /\ SnapshotIsCurrent
<1> SUFFICES ASSUME RbacSafe PROVE CalmChangesKept /\ SnapshotIsCurrent
  OBVIOUS
<1>1. kept \subseteq Written
  BY DEF Written
<1> QED BY <1>1 DEF RbacSafe, WrittenSafe, CalmChangesKept, SnapshotIsCurrent

LEMMA RbacNextSteps == RbacNext => RbacStep
<1> SUFFICES ASSUME RbacNext PROVE RbacStep
  OBVIOUS
<1>1. ASSUME NEW p \in Procs, BeginRequest(p) PROVE Begins
  BY <1>1 DEF BeginRequest, Begins
<1> QED BY <1>1 DEF RbacNext, RbacStep, Fetches, Acts

LEMMA RbacInvariant == RbacSpec => []RbacSafe
<1>1. RbacSafe /\ [RbacNext]_rbac => RbacSafe'
  BY RbacSafeStep, RbacNextSteps
<1> QED BY <1>1, RbacInitSafe, PTL DEF RbacSpec

\* The copies and the loads of them have values of their kind, and none is of a
\* version that the tables have not had (RbacState, its queue and its snapshot).
THEOREM RbacTypeCorrect == RbacSpec => []RbacTypeOK
<1>1. RbacSafe => RbacTypeOK
  BY DEF RbacSafe
<1> QED BY <1>1, RbacInvariant, PTL

\* A change that was answered, and during which no other request loaded the
\* state, is in the tables (wrapPersistentMutation, persistState and the loads
\* around them), with any number of requests and changes, failures and crashes.
THEOREM ChangesAreKept == RbacSpec => []CalmChangesKept
BY RbacInvariant, RbacSafeHolds, PTL

\* A snapshot that isRuntimeStateStale would let pass has those changes too.
THEOREM SnapshotsAreCurrent == RbacSpec => []SnapshotIsCurrent
BY RbacInvariant, RbacSafeHolds, PTL

USE RbacAssumption, RbacNoneAssumption, SessionsAssumption, SessionsNoneAssumption

-----------------------------------------------------------------------------
(* The inductive invariant.                                                *)

\* The user that the request got has what was answered when it came.
Fresh(r) == \A c \in r.known \ crossed : Whole(r.obj.user, c)

Without == {"find", "change", "flush", "end"}
Synced == {"passed", "resync ttl", "resync"}

\* What a request is and holds at each of its steps.
StepFits(r) ==
    /\ r.op = "login" => r.step \in {"user", "create"} /\ issued[r.sid] = 0
    /\ r.step = "create" => r.op = "login" /\ r.obj # None /\ r.obj.token = 1
    /\ r.step \in Without => r.obj = None
    /\ r.op # "login" /\ r.step \notin Without => r.obj # None
    /\ r.step = "resync" => r.left > 0
    /\ r.known \subseteq kept
    /\ r.step \in Synced => Fresh(r)

\* What a request holds of a session that is not its login's: it may be stored,
\* so it has the maximum that the session has, and the last token unless it was
\* overlapped, and the session is not one that was ended for good.
CopyFits(r) ==
    /\ r.op # "login" => issued[r.sid] > 0
    /\ \A s \in r.list : issued[s] > 0
    /\ r.op # "login" /\ r.obj # None =>
          /\ r.obj.expires <= r.obj.max
          /\ r.sid \notin overlapped => r.obj.token = issued[r.sid]
          /\ r.sid \notin ended \ exposed
          /\ store[r.sid] # None => store[r.sid].max = r.obj.max
          /\ r.step = "resync" /\ ~r.aged => r.left <= r.obj.max

\* Two requests: a login has its session for itself, and the copies of a session
\* have one maximum.
PairFits(r, t) ==
    r.sid = t.sid =>
        /\ r.op # "login" /\ t.op # "login"
        /\ r.obj # None /\ t.obj # None => r.obj.max = t.obj.max

\* The load of a request: one for the user is not a change.
LoadFits(l, r) ==
    l # None => /\ r # None /\ r.step \in {"user", "change", "flush"}
                /\ r.step = "user" => l.change = None

\* What Redis holds of a session.
StoreFits(s) ==
    /\ store[s] # None =>
          /\ issued[s] > 0 /\ store[s].expires <= store[s].max
          /\ s \notin overlapped => store[s].token = issued[s]
          /\ s \notin drifted => ttl[s] <= store[s].max
    /\ s \in ended => issued[s] > 0
    /\ s \in ended \ exposed => store[s] = None

SessionsSafe ==
    /\ RbacSafe /\ TypeOK
    /\ \A p \in Procs : req[p] # None => StepFits(req[p]) /\ CopyFits(req[p])
    /\ \A p \in Procs : LoadFits(load[p], req[p])
    /\ \A p, q \in Procs : p # q /\ req[p] # None /\ req[q] # None => PairFits(req[p], req[q])
    /\ \A s \in Sids : StoreFits(s)

LEMMA SessionsInitSafe == Init => SessionsSafe
<1> SUFFICES ASSUME Init PROVE SessionsSafe
  OBVIOUS
<1>1. /\ \A s \in Sids : store[s] = None /\ ttl[s] = 0 /\ issued[s] = 0
      /\ store \in [Sids -> Session \cup {None}]
      /\ ttl \in [Sids -> 0..MaxTtl] /\ issued \in [Sids -> 0..MaxTokens]
      /\ req \in [Procs -> Request \cup {None}] /\ \A p \in Procs : req[p] = None /\ load[p] = None
      /\ ended = {} /\ exposed = {} /\ overlapped = {} /\ drifted = {} /\ setup \in Setups
  BY DEF Init, RbacInit
<1>2. RbacSafe
  BY RbacInitSafe DEF Init
<1>3. TypeOK
  BY <1>1, <1>2 DEF TypeOK, RbacSafe
<1> QED BY <1>1, <1>2, <1>3 DEF SessionsSafe, LoadFits, StoreFits

-----------------------------------------------------------------------------
(* The three copies under the requests.                                    *)

\* What was answered stays answered, what was crossed stays crossed.
LEMMA HistoryGrows ==
  ASSUME RbacStep \/ UNCHANGED rbac
  PROVE  kept \subseteq kept' /\ crossed \subseteq crossed'
<1>1. CASE UNCHANGED rbac
  BY <1>1 DEF rbac
<1>2. CASE Begins
  BY <1>2 DEF Begins, BeginLoad
<1>3. CASE Fetches
  BY <1>3 DEF Fetches, FetchStep, GetSnapshot, ReadVersion, GoToTables, ReadTable, Replace, Resolve,
     SaveLoaded
<1>4. CASE Acts
  <2>1. PICK p \in Procs : ActStep(p)
    BY <1>4 DEF Acts
  <2>2. CASE ActOnSnapshot(p)
    BY <2>2 DEF ActOnSnapshot, Act
  <2>3. CASE ActOnTables(p)
    BY <2>3 DEF ActOnTables, Act
  <2> QED BY <2>1, <2>2, <2>3 DEF ActStep
<1>5. CASE RewriteStep
  BY <1>5 DEF RewriteStep, WriteRows, WriteLinks, Commit, ResolveRewritten, SaveRewritten
<1>6. CASE RewriteFails \/ RbacCrash \/ LoseSnapshot
  BY <1>6 DEF RewriteFails, RbacCrash, LoseSnapshot
<1> QED BY <1>1, <1>2, <1>3, <1>4, <1>5, <1>6 DEF RbacStep

\* A step of one request leaves the loads of the others.
LEMMA OthersLoad ==
  ASSUME RbacTypeOK, NEW p \in Procs, load[p] # None, FetchStep(p) \/ ActStep(p)
  PROVE  /\ \A q \in Procs \ {p} : load'[q] = load[q]
         /\ FetchStep(p) => load'[p] # None /\ load'[p].change = load[p].change
         /\ ActStep(p) /\ load[p].change = None => load'[p] = None
<1>1. load \in [Procs -> Load \cup Flush \cup {None}]
  BY DEF RbacTypeOK
<1>2. CASE FetchStep(p)
  <2>1. load'[p] \in Load
    BY <1>2, FetchTypes
  <2>2. load[p] \in Load
    BY <1>2, FetchTypes
  <2>3. load'[p].change = load[p].change /\ \A q \in Procs \ {p} : load'[q] = load[q]
    <3>1. CASE GetSnapshot(p)
      <4>1. CASE cache = None
        BY <1>1, <2>2, <3>1, <4>1 DEF GetSnapshot, Load
      <4>2. CASE cache # None
        BY <1>1, <2>2, <3>1, <4>2 DEF GetSnapshot, Load
      <4> QED BY <4>1, <4>2
    <3>2. CASE ReadVersion(p) \/ GoToTables(p) \/ Resolve(p)
      BY <1>1, <2>2, <3>2 DEF ReadVersion, GoToTables, Resolve, Load
    <3>3. CASE ReadTable(p)
      BY <1>1, <2>2, <3>3 DEF ReadTable, Load
    <3>4. CASE Replace(p) \/ SaveLoaded(p)
      BY <1>1, <2>2, <3>4 DEF Replace, SaveLoaded, LoadNext, Load
    <3> QED BY <1>2, <3>1, <3>2, <3>3, <3>4 DEF FetchStep
  <2>4. ~ActStep(p)
    BY <1>2 DEF FetchStep, ActStep, GetSnapshot, ReadVersion, GoToTables, ReadTable, Replace,
       Resolve, SaveLoaded, ActOnSnapshot, ActOnTables
  <2> QED BY <2>1, <2>3, <2>4
<1>3. CASE ActStep(p)
  <2>1. ~FetchStep(p)
    BY <1>3 DEF FetchStep, ActStep, GetSnapshot, ReadVersion, GoToTables, ReadTable, Replace,
       Resolve, SaveLoaded, ActOnSnapshot, ActOnTables
  <2>2. PICK content : Act(p, content)
    BY <1>3 DEF ActStep, ActOnSnapshot, ActOnTables
  <2>3. CASE load[p].change = None
    BY <1>1, <2>1, <2>2, <2>3 DEF Act
  <2>4. CASE load[p].change # None
    <3> DEFINE e == [step |-> "flush", change |-> load[p].change]
    <3>1. load' = [load EXCEPT ![p] = e]
      BY <2>2, <2>4 DEF Act
    <3> HIDE DEF e
    <3> QED BY <1>1, <2>1, <2>4, <3>1
  <2> QED BY <2>3, <2>4
<1> QED BY <1>2, <1>3

-----------------------------------------------------------------------------
(* A step of one request.                                                  *)

\* What was fresh stays fresh.
LEMMA FreshStays ==
  ASSUME NEW r, Fresh(r), crossed \subseteq crossed'
  PROVE  Fresh(r)'
BY DEF Fresh

\* PairFits does not depend on the order.
LEMMA PairSymmetry ==
  ASSUME NEW r, NEW t, PairFits(r, t)
  PROVE  PairFits(t, r)
BY DEF PairFits

LEMMA OneMoves ==
  ASSUME SessionsSafe, NEW p \in Procs, NEW x \in Request \cup {None},
         req' = [req EXCEPT ![p] = x], setup' = setup,
         RbacSafe', kept \subseteq kept', crossed \subseteq crossed',
         \A q \in Procs \ {p} : load'[q] = load[q],
         LoadFits(load'[p], x),
         store' \in [Sids -> Session \cup {None}],
         ttl' \in [Sids -> 0..MaxTtl], issued' \in [Sids -> 0..MaxTokens],
         \A s \in Sids : (store'[s] # None) <=> (ttl'[s] > 0),
         {ended', exposed', overlapped', drifted'} \subseteq SUBSET Sids,
         \A s \in Sids : StoreFits(s)',
         x # None => StepFits(x)' /\ CopyFits(x)',
         \A q \in Procs \ {p} : x # None /\ req[q] # None => PairFits(x, req[q]),
         \A r \in Request : (\E q \in Procs \ {p} : req[q] = r) =>
             CopyFits(r)' /\ (r.op = "login" => issued'[r.sid] = 0)
  PROVE  SessionsSafe'
<1>1. /\ req'[p] = x /\ \A q \in Procs \ {p} : req'[q] = req[q]
      /\ req' \in [Procs -> Request \cup {None}]
  BY DEF SessionsSafe, TypeOK
<1>2. \A q \in Procs : LoadFits(load[q], req[q])'
  <2>1. ASSUME NEW q \in Procs PROVE LoadFits(load'[q], req'[q])
    <3>1. CASE q = p
      BY <1>1, <3>1
    <3>2. CASE q # p
      BY <1>1, <3>2 DEF SessionsSafe
    <3> QED BY <3>1, <3>2
  <2> QED BY <2>1 DEF LoadFits
<1>3. \A q \in Procs : load'[q] # None => req'[q] # None
  BY <1>2 DEF LoadFits
<1>4. TypeOK'
  BY <1>1, <1>3 DEF SessionsSafe, TypeOK, RbacSafe
<1>5. ASSUME NEW q \in Procs, req'[q] # None
      PROVE  StepFits(req[q])' /\ CopyFits(req[q])'
  <2>1. PICK r \in Request : r = req'[q]
    BY <1>1, <1>5
  <2>2. StepFits(r)' /\ CopyFits(r)'
    <3>1. CASE q = p
      BY <1>1, <1>5, <2>1, <3>1
    <3>2. CASE q # p
      <4>1. r = req[q] /\ CopyFits(r)' /\ (r.op = "login" => issued'[r.sid] = 0)
        BY <1>1, <2>1, <3>2
      <4>2. StepFits(r)
        BY <1>1, <1>5, <3>2, <4>1 DEF SessionsSafe
      <4> QED BY <4>1, <4>2, FreshStays DEF StepFits
    <3> QED BY <3>1, <3>2
  <2> QED BY <2>1, <2>2 DEF StepFits, CopyFits, Fresh
<1>6. ASSUME NEW q \in Procs, NEW t \in Procs, q # t, req'[q] # None, req'[t] # None
      PROVE  PairFits(req[q], req[t])'
  <2>1. CASE q # p /\ t # p
    BY <1>1, <1>6, <2>1 DEF SessionsSafe, PairFits
  <2>2. CASE q = p
    BY <1>1, <1>6, <2>2 DEF PairFits
  <2>3. CASE t = p
    BY <1>1, <1>6, <2>3 DEF PairFits
  <2> QED BY <2>1, <2>2, <2>3
<1> QED BY <1>2, <1>4, <1>5, <1>6 DEF SessionsSafe

\* The same of a request that is answered.
LEMMA OneLeaves ==
  ASSUME SessionsSafe, NEW p \in Procs,
         req' = [req EXCEPT ![p] = None], setup' = setup,
         RbacSafe', kept \subseteq kept', crossed \subseteq crossed',
         \A q \in Procs \ {p} : load'[q] = load[q],
         load'[p] = None,
         store' \in [Sids -> Session \cup {None}],
         ttl' \in [Sids -> 0..MaxTtl], issued' \in [Sids -> 0..MaxTokens],
         \A s \in Sids : (store'[s] # None) <=> (ttl'[s] > 0),
         {ended', exposed', overlapped', drifted'} \subseteq SUBSET Sids,
         \A s \in Sids : StoreFits(s)',
         \A r \in Request : (\E q \in Procs \ {p} : req[q] = r) =>
             CopyFits(r)' /\ (r.op = "login" => issued'[r.sid] = 0)
  PROVE  SessionsSafe'
<1>1. PICK x \in Request \cup {None} : x = None
  OBVIOUS
<1>2. req' = [req EXCEPT ![p] = x] /\ LoadFits(load'[p], x)
  BY <1>1 DEF LoadFits
<1> QED BY <1>1, <1>2, OneMoves

\* The same where the store and the histories stay.
LEMMA OneMovesOn ==
  ASSUME SessionsSafe, NEW p \in Procs, NEW x \in Request \cup {None},
         req' = [req EXCEPT ![p] = x], UNCHANGED <<setup, records, issued, sessionHistory>>,
         RbacSafe', kept \subseteq kept', crossed \subseteq crossed',
         \A q \in Procs \ {p} : load'[q] = load[q],
         LoadFits(load'[p], x),
         x # None => StepFits(x)' /\ CopyFits(x),
         \A q \in Procs \ {p} : x # None /\ req[q] # None => PairFits(x, req[q])
  PROVE  SessionsSafe'
<1>1. UNCHANGED <<setup, store, ttl, issued, ended, exposed, overlapped, drifted>>
  BY DEF records, sessionHistory
<1>2. \A r : CopyFits(r) => CopyFits(r)'
  BY <1>1 DEF CopyFits
<1>3. \A s \in Sids : StoreFits(s)'
  BY <1>1 DEF SessionsSafe, StoreFits
<1>4. \A r \in Request : (\E q \in Procs \ {p} : req[q] = r) =>
          CopyFits(r)' /\ (r.op = "login" => issued'[r.sid] = 0)
  BY <1>1, <1>2 DEF SessionsSafe, StepFits
<1>5. x # None => CopyFits(x)'
  BY <1>2
<1> QED BY <1>1, <1>3, <1>4, <1>5, OneMoves DEF SessionsSafe, TypeOK

\* What the invariant says of one request.
LEMMA RequestFacts ==
  ASSUME SessionsSafe, NEW p \in Procs, NEW r, r = req[p], r # None
  PROVE  /\ r \in Request /\ StepFits(r) /\ CopyFits(r)
         /\ r.obj # None => r.obj \in Session
         /\ \A q \in Procs \ {p} : req[q] # None => PairFits(r, req[q])
         /\ LoadFits(load[p], r) /\ RbacSafe /\ RbacTypeOK /\ TypeOK
BY DEF SessionsSafe, TypeOK, RbacSafe, Request

\* A request that keeps its session, and the maximum of it, fits as before.
LEMMA PairStays ==
  ASSUME NEW r, NEW x, NEW t, PairFits(r, t), x.sid = r.sid, x.op = r.op,
         x.obj # None => r.obj # None /\ x.obj.max = r.obj.max
  PROVE  PairFits(x, t)
BY DEF PairFits

LEMMA RbacRests ==
  ASSUME SessionsSafe, UNCHANGED rbac
  PROVE  RbacSafe' /\ kept' = kept /\ crossed' = crossed /\ load' = load
BY RbacSafeStep DEF SessionsSafe, rbac

LEMMA AnswerSafe ==
  ASSUME SessionsSafe, NEW p \in Procs, load[p] = None, Answer(p),
         UNCHANGED <<rbac, setup, records, issued, sessionHistory>>
  PROVE  SessionsSafe'
<1>1. req' = [req EXCEPT ![p] = None] /\ LoadFits(load'[p], None)
  BY RbacRests DEF Answer, LoadFits
<1> QED BY <1>1, RbacRests, OneMovesOn

\* The next step of a request that loads nothing.
LEMMA QuietSafe ==
  ASSUME SessionsSafe, NEW p \in Procs, NEW x \in Request, req' = [req EXCEPT ![p] = x],
         UNCHANGED <<rbac, setup, records, issued, sessionHistory>>,
         load[p] = None, StepFits(x), CopyFits(x),
         \A q \in Procs \ {p} : req[q] # None => PairFits(x, req[q])
  PROVE  SessionsSafe'
<1>1. StepFits(x)'
  BY RbacRests DEF StepFits, Fresh
<1>2. LoadFits(load'[p], x)
  BY RbacRests DEF LoadFits
<1> QED BY <1>1, <1>2, RbacRests, OneMovesOn

LEMMA SubmitSafe ==
  ASSUME SessionsSafe, NEW p \in Procs, Submit(p)
  PROVE  SessionsSafe'
<1>0. PICK op \in {"view", "change", "kick", "refresh", "logout"}, s \in setup.sids :
         /\ issued[s] > 0
         /\ \E token \in IF op = "refresh" THEN 1..issued[s] ELSE {0} :
               Enter(p, op, s, "find", token)
  BY DEF Submit
<1>1. PICK token \in 0..issued[s] : Enter(p, op, s, "find", token)
  <2>1. s \in Sids /\ issued[s] \in Nat
    BY DEF SessionsSafe, TypeOK
  <2> QED BY <1>0, <2>1
<1>2. PICK x : x = [op |-> op, sid |-> s, step |-> "find", token |-> token,
                    obj |-> None, left |-> 0, aged |-> FALSE, change |-> None,
                    list |-> {}, known |-> kept]
  OBVIOUS
<1>3. s \in Sids /\ issued[s] \in 0..MaxTokens /\ kept \subseteq Changes
  BY DEF SessionsSafe, TypeOK, RbacTypeOK
<1>4. x \in Request
  <2>1. token \in 0..MaxTokens /\ 0 \in 0..MaxTtl /\ op \in Ops
    BY <1>3 DEF Ops
  <2> QED BY <1>2, <1>3, <2>1 DEF Request
<1>5. req' = [req EXCEPT ![p] = x] /\ req[p] = None
  BY <1>1, <1>2 DEF Enter
<1>6. load[p] = None
  BY <1>5 DEF SessionsSafe, LoadFits
<1>7. StepFits(x) /\ CopyFits(x)
  BY <1>0, <1>2 DEF StepFits, CopyFits, Without, Synced
<1>8. ASSUME NEW q \in Procs, req[q] # None PROVE PairFits(x, req[q])
  <2>1. StepFits(req[q])
    BY <1>8 DEF SessionsSafe
  <2> QED BY <1>0, <1>2, <2>1 DEF StepFits, PairFits
<1> QED BY <1>4, <1>5, <1>6, <1>7, <1>8, QuietSafe DEF Submit

LEMMA SubmitLoginSafe ==
  ASSUME SessionsSafe, NEW p \in Procs, SubmitLogin(p), RbacSafe',
         kept \subseteq kept', crossed \subseteq crossed'
  PROVE  SessionsSafe'
<1>1. PICK s \in setup.sids :
         /\ issued[s] = 0 /\ \A q \in Procs : req[q] # None => req[q].sid # s
         /\ Enter(p, "login", s, "user", 0)
  BY DEF SubmitLogin
<1>2. PICK x : x = [op |-> "login", sid |-> s, step |-> "user", token |-> 0,
                    obj |-> None, left |-> 0, aged |-> FALSE, change |-> None,
                    list |-> {}, known |-> kept]
  OBVIOUS
<1>3. s \in Sids /\ kept \subseteq Changes
  BY DEF SessionsSafe, TypeOK, RbacTypeOK
<1>4. x \in Request
  <2>1. 0 \in 0..MaxTokens /\ 0 \in 0..MaxTtl /\ "login" \in Ops
    BY DEF Ops
  <2> QED BY <1>2, <1>3, <2>1 DEF Request
<1>5. /\ req' = [req EXCEPT ![p] = x]
      /\ UNCHANGED <<setup, records, issued, sessionHistory>>
  BY <1>1, <1>2 DEF Enter, SubmitLogin
<1>6. StepFits(x)' /\ CopyFits(x)
  BY <1>1, <1>2, <1>5 DEF StepFits, CopyFits, Without, Synced
<1>7. \A q \in Procs : req[q] # None => PairFits(x, req[q])
  BY <1>1, <1>2 DEF PairFits
<1>8. LoadFits(load'[p], x) /\ \A q \in Procs \ {p} : load'[q] = load[q]
  <2>1. load \in [Procs -> Load \cup Flush \cup {None}]
    BY DEF SessionsSafe, TypeOK, RbacTypeOK
  <2> DEFINE e == [step |-> "get", change |-> None, snap |-> None,
                   seen |-> 0, got |-> Nothing, left |-> {}]
  <2>2. load' = [load EXCEPT ![p] = e] /\ e.change = None
    BY DEF SubmitLogin, BeginLoad
  <2> HIDE DEF e
  <2> QED BY <1>2, <1>4, <2>1, <2>2 DEF LoadFits
<1> QED BY <1>4, <1>5, <1>6, <1>7, <1>8, OneMovesOn

-----------------------------------------------------------------------------
(* The store.                                                              *)

\* Who else has found the session exposes it; nobody else stores it any more.
LEMMA EndSafe ==
  ASSUME SessionsSafe, NEW p \in Procs, req[p] # None, load[p] = None,
         NEW s \in Sids, issued[s] > 0, End(p, s),
         NEW x \in Request \cup {None}, req' = [req EXCEPT ![p] = x],
         UNCHANGED <<rbac, setup, issued>>,
         x # None => /\ x.obj = None /\ StepFits(x) /\ CopyFits(x)
                     /\ x.sid = req[p].sid /\ x.op = req[p].op
  PROVE  SessionsSafe'
<1>1. /\ store' = [t \in Sids |-> IF t \in {s} THEN None ELSE store[t]]
      /\ ttl' = [t \in Sids |-> IF t \in {s} THEN 0 ELSE ttl[t]]
      /\ ended' = ended \cup {s}
      /\ exposed' = IF Others(p, s) # {} THEN exposed \cup {s} ELSE exposed
      /\ UNCHANGED <<overlapped, drifted>>
  BY DEF End, Gone
<1>2. /\ store \in [Sids -> Session \cup {None}] /\ ttl \in [Sids -> 0..MaxTtl]
      /\ \A t \in Sids : (store[t] # None) <=> (ttl[t] > 0)
      /\ {ended, exposed, overlapped, drifted} \subseteq SUBSET Sids
      /\ issued \in [Sids -> 0..MaxTokens]
      /\ \A t \in Sids : StoreFits(t)
      /\ 0 \in 0..MaxTtl
  BY DEF SessionsSafe, TypeOK
<1>3. /\ store' \in [Sids -> Session \cup {None}] /\ ttl' \in [Sids -> 0..MaxTtl]
      /\ \A t \in Sids : (store'[t] # None) <=> (ttl'[t] > 0)
      /\ {ended', exposed', overlapped', drifted'} \subseteq SUBSET Sids
  BY <1>1, <1>2
<1>4. \A t \in Sids : StoreFits(t)'
  BY <1>1, <1>2 DEF StoreFits
<1>5. ASSUME NEW r \in Request, CopyFits(r),
             r.obj # None /\ r.sid = s => Others(p, s) # {}
      PROVE  CopyFits(r)'
  <2>1. r.sid \in Sids
    BY DEF Request
  <2> QED BY <1>1, <1>2, <1>5, <2>1 DEF CopyFits
<1>6. ASSUME NEW r \in Request, NEW q \in Procs \ {p}, req[q] = r
      PROVE  CopyFits(r)' /\ (r.op = "login" => issued'[r.sid] = 0)
  <2>1. r # None /\ CopyFits(r) /\ StepFits(r)
    BY <1>6 DEF SessionsSafe
  <2>2. r.obj # None /\ r.sid = s => q \in Others(p, s)
    BY <1>6, <2>1 DEF Others, Holders
  <2>3. CopyFits(r)'
    BY <1>5, <2>1, <2>2
  <2> QED BY <2>1, <2>3 DEF StepFits
<1>7. x # None => StepFits(x)' /\ CopyFits(x)'
  <2> SUFFICES ASSUME x # None PROVE StepFits(x)' /\ CopyFits(x)'
    OBVIOUS
  <2>1. StepFits(x)'
    BY RbacRests DEF StepFits, Fresh
  <2> QED BY <1>5, <2>1
<1>8. ASSUME NEW q \in Procs \ {p}, x # None, req[q] # None PROVE PairFits(x, req[q])
  BY <1>8, PairStays DEF SessionsSafe
<1>9. LoadFits(load'[p], x)
  BY RbacRests DEF LoadFits
<1>10. /\ RbacSafe' /\ kept \subseteq kept' /\ crossed \subseteq crossed'
       /\ \A q \in Procs \ {p} : load'[q] = load[q]
       /\ setup' = setup /\ issued' \in [Sids -> 0..MaxTokens]
  BY <1>2, RbacRests
<1>11. \A q \in Procs \ {p} : x # None /\ req[q] # None => PairFits(x, req[q])
  BY <1>8
<1> QED BY <1>3, <1>4, <1>6, <1>7, <1>9, <1>10, <1>11, OneMoves

\* A session is stored as one who found it has it: the others have the same
\* maximum of it.
LEMMA SaveSafe ==
  ASSUME SessionsSafe, NEW p \in Procs, req[p] # None, load[p] = None,
         NEW r \in Request, r = req[p], r.op # "login", r.obj # None,
         NEW obj \in Session, NEW time \in 1..MaxTtl, Save(r.sid, obj, time),
         obj.max = r.obj.max, obj.expires <= obj.max,
         r.sid \notin overlapped => obj.token = issued[r.sid],
         r.sid \notin drifted' => time <= obj.max,
         drifted' \subseteq Sids, \A t \in Sids \ {r.sid} : t \in drifted' <=> t \in drifted,
         NEW x \in Request, req' = [req EXCEPT ![p] = x],
         UNCHANGED <<rbac, setup, issued, ended, exposed, overlapped>>,
         StepFits(x), CopyFits(x), x.sid = r.sid, x.op = r.op, x.obj # None, x.obj.max = r.obj.max
  PROVE  SessionsSafe'
<1>1. /\ store' = [store EXCEPT ![r.sid] = obj] /\ ttl' = [ttl EXCEPT ![r.sid] = time]
      /\ r.sid \in Sids /\ obj # None
  BY DEF Save, Request
<1>2. /\ store \in [Sids -> Session \cup {None}] /\ ttl \in [Sids -> 0..MaxTtl]
      /\ \A t \in Sids : (store[t] # None) <=> (ttl[t] > 0)
      /\ {ended, exposed, overlapped, drifted} \subseteq SUBSET Sids
      /\ issued \in [Sids -> 0..MaxTokens]
      /\ \A t \in Sids : StoreFits(t)
      /\ time \in 0..MaxTtl /\ time > 0
  BY DEF SessionsSafe, TypeOK
<1>3. /\ store' \in [Sids -> Session \cup {None}] /\ ttl' \in [Sids -> 0..MaxTtl]
      /\ \A t \in Sids : (store'[t] # None) <=> (ttl'[t] > 0)
      /\ {ended', exposed', overlapped', drifted'} \subseteq SUBSET Sids
  BY <1>1, <1>2
<1>4. StepFits(r) /\ CopyFits(r) /\ \A q \in Procs \ {p} : req[q] # None => PairFits(r, req[q])
  BY RequestFacts
<1>5. \A t \in Sids : StoreFits(t)'
  <2>1. ASSUME NEW t \in Sids, t # r.sid PROVE StoreFits(t)'
    BY <1>1, <1>2, <2>1 DEF StoreFits
  <2>2. StoreFits(r.sid)'
    <3>1. /\ issued[r.sid] > 0 /\ r.sid \notin ended \ exposed
          /\ store'[r.sid] = obj /\ ttl'[r.sid] = time
      BY <1>1, <1>2, <1>4 DEF CopyFits
    <3> QED BY <3>1 DEF StoreFits
  <2> QED BY <2>1, <2>2
<1>6. ASSUME NEW c \in Request, CopyFits(c), c.sid = r.sid /\ c.obj # None => c.obj.max = obj.max
      PROVE  CopyFits(c)'
  <2>1. c.sid \in Sids
    BY DEF Request
  <2>2. store'[c.sid] # None /\ c.obj # None => c.op = "login" \/ store'[c.sid].max = c.obj.max
    <3>1. CASE c.sid = r.sid
      BY <1>1, <1>2, <1>6, <3>1
    <3>2. CASE c.sid # r.sid
      BY <1>1, <1>2, <1>6, <2>1, <3>2 DEF CopyFits
    <3> QED BY <3>1, <3>2
  <2> QED BY <1>6, <2>2 DEF CopyFits
<1>7. ASSUME NEW c \in Request, NEW q \in Procs \ {p}, req[q] = c
      PROVE  CopyFits(c)' /\ (c.op = "login" => issued'[c.sid] = 0)
  <2>1. c # None /\ CopyFits(c) /\ StepFits(c) /\ PairFits(r, c)
    BY <1>4, <1>7 DEF SessionsSafe
  <2> QED BY <1>6, <2>1 DEF PairFits, StepFits
<1>8. StepFits(x)' /\ CopyFits(x)'
  <2>1. StepFits(x)'
    BY RbacRests DEF StepFits, Fresh
  <2> QED BY <1>6, <2>1
<1>9. ASSUME NEW q \in Procs \ {p}, req[q] # None PROVE PairFits(x, req[q])
  BY <1>4, <1>9, PairStays
<1>10. LoadFits(load'[p], x)
  BY RbacRests DEF LoadFits
<1> QED BY <1>2, <1>3, <1>5, <1>7, <1>8, <1>9, <1>10, RbacRests, OneMoves

-----------------------------------------------------------------------------
(* The steps of a request up to the user.                                  *)

LEMMA FindSafe ==
  ASSUME SessionsSafe, NEW p \in Procs, req[p] # None, Find(p)
  PROVE  SessionsSafe'
<1>1. PICK r : r = req[p]
  OBVIOUS
<1>2. /\ r \in Request /\ r.step = "find" /\ StepFits(r) /\ CopyFits(r) /\ load[p] = None
      /\ \A q \in Procs \ {p} : req[q] # None => PairFits(r, req[q])
      /\ r.sid \in Sids /\ r # None
  BY <1>1, RequestFacts DEF Find, LoadFits, Request
<1>3. CASE store[r.sid] # None /\ SameToken(p)
  <2>1. PICK x : x = [r EXCEPT !.step = "ttl", !.obj = store[r.sid]]
    OBVIOUS
  <2>2. store[r.sid] \in Session /\ StoreFits(r.sid)
    BY <1>2, <1>3 DEF SessionsSafe, TypeOK
  <2>3. /\ x \in Request /\ x.step = "ttl" /\ x.op = r.op /\ x.sid = r.sid
        /\ x.obj = store[r.sid] /\ x.known = r.known /\ x.list = r.list
    BY <1>2, <2>1, <2>2 DEF Request
  <2>4. req' = [req EXCEPT ![p] = x]
    BY <1>1, <1>3, <2>1 DEF Find
  <2>5. StepFits(x)
    BY <1>2, <1>3, <2>3 DEF StepFits, Without, Synced
  <2>6. CopyFits(x)
    BY <1>2, <1>3, <2>2, <2>3 DEF CopyFits, StoreFits
  <2>7. ASSUME NEW q \in Procs \ {p}, req[q] # None PROVE PairFits(x, req[q])
    <3>1. CopyFits(req[q]) /\ PairFits(r, req[q])
      BY <1>2, <2>7 DEF SessionsSafe
    <3> QED BY <1>3, <2>3, <3>1 DEF PairFits, CopyFits
  <2> QED BY <1>2, <2>3, <2>4, <2>5, <2>6, <2>7, QuietSafe DEF Find
<1>4. CASE ~(store[r.sid] # None /\ SameToken(p))
  <2>1. Answer(p)
    BY <1>1, <1>4 DEF Find
  <2> QED BY <1>2, <2>1, AnswerSafe DEF Find
<1> QED BY <1>3, <1>4

LEMMA ReadTtlSafe ==
  ASSUME SessionsSafe, NEW p \in Procs, req[p] # None, ReadTtl(p)
  PROVE  SessionsSafe'
<1>1. PICK r : r = req[p]
  OBVIOUS
<1>2. /\ r \in Request /\ r.step \in {"ttl", "resync ttl"} /\ StepFits(r) /\ CopyFits(r)
      /\ load[p] = None
      /\ \A q \in Procs \ {p} : req[q] # None => PairFits(r, req[q])
      /\ r.sid \in Sids /\ r # None /\ StoreFits(r.sid)
  <2>1. /\ r \in Request /\ StepFits(r) /\ CopyFits(r) /\ LoadFits(load[p], r) /\ r # None
        /\ \A q \in Procs \ {p} : req[q] # None => PairFits(r, req[q])
    BY <1>1, RequestFacts
  <2>2. r.step \in {"ttl", "resync ttl"}
    BY <1>1 DEF ReadTtl
  <2>3. r.sid \in Sids
    BY <2>1 DEF Request
  <2> QED BY <2>1, <2>2, <2>3 DEF LoadFits, SessionsSafe
<1>3. CASE store[r.sid] # None
  <2>1. PICK next : next = IF r.step = "resync ttl" THEN "resync"
                           ELSE IF ttl[r.sid] <= Threshold THEN "extend" ELSE "found"
    OBVIOUS
  <2>0. PICK a : a = (next = "resync" /\ r.sid \in drifted)
    OBVIOUS
  <2>2. PICK x : x = [r EXCEPT !.step = next, !.aged = a,
                               !.left = IF next = "resync" THEN ttl[r.sid] ELSE 0]
    OBVIOUS
  <2>10. a \in BOOLEAN /\ (next = "resync" /\ ~a => r.sid \notin drifted)
    BY <2>0
  <2>3. next \in {"resync", "extend", "found"} /\ (next = "resync" <=> r.step = "resync ttl")
    BY <2>1
  <2>4. ttl[r.sid] \in 0..MaxTtl /\ ttl[r.sid] > 0
    BY <1>2, <1>3 DEF SessionsSafe, TypeOK
  <2>5. /\ x \in Request /\ x.step = next /\ x.op = r.op /\ x.sid = r.sid
        /\ x.obj = r.obj /\ x.known = r.known /\ x.list = r.list
        /\ x.aged = a /\ (next = "resync" => x.left = ttl[r.sid])
    <3>1. PICK l \in 0..MaxTtl : l = IF next = "resync" THEN ttl[r.sid] ELSE 0
      BY <2>4
    <3>2. x = [r EXCEPT !.step = next, !.aged = a, !.left = l]
      BY <2>2, <3>1
    <3>3. a \in BOOLEAN
      BY <2>10
    <3>4. x \in Request
      BY <1>2, <2>3, <3>2, <3>3 DEF Request
    <3>5. /\ x.step = next /\ x.op = r.op /\ x.sid = r.sid /\ x.obj = r.obj
          /\ x.known = r.known /\ x.list = r.list /\ x.left = l
      BY <1>2, <3>2 DEF Request
    <3>6. x.aged = a
      BY <1>2, <3>2 DEF Request
    <3> QED BY <3>1, <3>4, <3>5, <3>6
  <2>6. req' = [req EXCEPT ![p] = x]
    BY <1>1, <1>3, <2>0, <2>1, <2>2 DEF ReadTtl
  <2>7. StepFits(x)
    <3>1. r.op # "login" /\ r.obj # None
      BY <1>2 DEF StepFits, Without
    <3>2. next = "resync" => Fresh(x)
      BY <1>2, <2>3, <2>5 DEF StepFits, Synced, Fresh
    <3> QED BY <1>2, <2>3, <2>4, <2>5, <3>1, <3>2 DEF StepFits, Without, Synced
  <2>8. CopyFits(x)
    <3>1. next = "resync" /\ ~x.aged /\ r.op # "login" /\ r.obj # None => x.left <= x.obj.max
      BY <1>2, <1>3, <2>5, <2>10 DEF CopyFits, StoreFits
    <3> QED BY <1>2, <2>5, <3>1 DEF CopyFits
  <2>9. ASSUME NEW q \in Procs \ {p}, req[q] # None PROVE PairFits(x, req[q])
    BY <1>2, <2>5, <2>9, PairStays
  <2> QED BY <1>2, <2>5, <2>6, <2>7, <2>8, <2>9, QuietSafe DEF ReadTtl
<1>4. CASE store[r.sid] = None
  <2>1. Answer(p)
    BY <1>1, <1>4 DEF ReadTtl
  <2> QED BY <1>2, <2>1, AnswerSafe DEF ReadTtl
<1> QED BY <1>3, <1>4

LEMMA ExtendSafe ==
  ASSUME SessionsSafe, NEW p \in Procs, req[p] # None, Extend(p)
  PROVE  SessionsSafe'
<1>1. PICK r : r = req[p]
  OBVIOUS
<1>2. /\ r \in Request /\ r.step = "extend" /\ StepFits(r) /\ CopyFits(r) /\ load[p] = None
      /\ r.sid \in Sids /\ r # None /\ r.op # "login" /\ r.obj \in Session /\ r.obj # None
  BY <1>1, RequestFacts DEF Extend, LoadFits, Request, StepFits, Without
<1>3. PICK obj : obj = Extended(r.obj)
  OBVIOUS
<1>4. /\ obj \in Session /\ obj.max = r.obj.max /\ obj.token = r.obj.token
      /\ obj.expires = NextTime(r.obj) /\ obj.expires <= obj.max /\ obj # None
  BY <1>2, <1>3 DEF Extended, NextTime, Session
<1>5. CASE obj.expires = 0
  <2>1. End(p, r.sid) /\ Answer(p) /\ UNCHANGED <<rbac, setup, issued>>
    BY <1>1, <1>3, <1>4, <1>5 DEF Extend
  <2>2. issued[r.sid] > 0
    BY <1>2 DEF CopyFits
  <2> QED BY <1>1, <1>2, <2>1, <2>2, EndSafe DEF Answer
<1>6. CASE obj.expires # 0
  <2>1. PICK x : x = [r EXCEPT !.step = "found", !.obj = obj]
    OBVIOUS
  <2>2. /\ Save(r.sid, obj, obj.expires) /\ obj.expires \in 1..MaxTtl
        /\ req' = [req EXCEPT ![p] = x] /\ drifted' = drifted \ {r.sid}
        /\ UNCHANGED <<rbac, setup, issued, ended, exposed, overlapped>>
    <3>1. obj.expires \in 1..MaxTtl
      BY <1>4, <1>6 DEF Session
    <3> QED BY <1>1, <1>3, <1>6, <2>1, <3>1 DEF Extend
  <2>3. /\ x \in Request /\ x.step = "found" /\ x.op = r.op /\ x.sid = r.sid
        /\ x.obj = obj /\ x.known = r.known /\ x.list = r.list
    BY <1>2, <1>4, <2>1 DEF Request
  <2>4. StepFits(x)
    BY <1>2, <1>4, <2>3 DEF StepFits, Without, Synced
  <2>5. CopyFits(x)
    BY <1>2, <1>4, <2>3 DEF CopyFits
  <2>6. /\ r.sid \notin overlapped => obj.token = issued[r.sid]
        /\ drifted' \subseteq Sids
    BY <1>2, <1>4, <2>2 DEF CopyFits, SessionsSafe, TypeOK
  <2> QED BY <1>1, <1>2, <1>4, <2>2, <2>3, <2>4, <2>5, <2>6, SaveSafe
<1> QED BY <1>5, <1>6

\* A new token: who has found the session with the old one overlaps it.
LEMMA RotateSafe ==
  ASSUME SessionsSafe, NEW p \in Procs, req[p] # None, Rotate(p)
  PROVE  SessionsSafe'
<1>1. PICK r : r = req[p]
  OBVIOUS
<1>2. /\ r \in Request /\ StepFits(r) /\ CopyFits(r) /\ LoadFits(load[p], r) /\ r # None
      /\ r.obj # None => r.obj \in Session
      /\ \A q \in Procs \ {p} : req[q] # None => PairFits(r, req[q])
  BY <1>1, RequestFacts
<1>3. /\ r.step = "found" /\ load[p] = None /\ r.op # "login" /\ r.obj # None /\ r.obj \in Session
      /\ r.sid \in Sids /\ issued[r.sid] > 0
  BY <1>1, <1>2 DEF Rotate, LoadFits, Request, StepFits, Without, CopyFits
<1>4. CASE r.obj.expires = 0
  <2>1. End(p, r.sid) /\ Answer(p) /\ UNCHANGED <<rbac, setup, issued>>
    BY <1>1, <1>3, <1>4 DEF Rotate
  <2> QED BY <1>1, <1>2, <1>3, <2>1, EndSafe DEF Answer
<1>5. CASE r.obj.expires # 0
  <2>1. PICK obj : obj = Rotated(p)
    OBVIOUS
  <2>2. /\ issued[r.sid] < MaxTokens /\ Save(r.sid, obj, r.obj.expires)
        /\ issued' = [issued EXCEPT ![r.sid] = @ + 1]
        /\ overlapped' = IF Others(p, r.sid) # {} THEN overlapped \cup {r.sid}
                         ELSE overlapped \ {r.sid}
        /\ drifted' = drifted \ {r.sid} /\ req' = [req EXCEPT ![p] = None]
        /\ UNCHANGED <<rbac, setup, ended, exposed>>
    BY <1>1, <1>3, <1>5, <2>1 DEF Rotate, Answer
  <2>3. /\ store \in [Sids -> Session \cup {None}] /\ ttl \in [Sids -> 0..MaxTtl]
        /\ \A t \in Sids : (store[t] # None) <=> (ttl[t] > 0)
        /\ {ended, exposed, overlapped, drifted} \subseteq SUBSET Sids
        /\ issued \in [Sids -> 0..MaxTokens]
        /\ \A t \in Sids : StoreFits(t)
    BY DEF SessionsSafe, TypeOK
  <2>4. /\ issued[r.sid] + 1 \in 1..MaxTokens
        /\ r.obj.expires \in 0..MaxTtl /\ r.obj.expires > 0
    BY <1>3, <1>5, <2>2, <2>3 DEF Session
  <2>5. /\ obj \in Session /\ obj.token = issued[r.sid] + 1 /\ obj.max = r.obj.max
        /\ obj.expires = r.obj.expires /\ obj.expires <= obj.max /\ obj # None
    BY <1>1, <1>2, <1>3, <2>1, <2>4 DEF Rotated, Session, CopyFits
  <2>6. /\ store' \in [Sids -> Session \cup {None}] /\ ttl' \in [Sids -> 0..MaxTtl]
        /\ issued' \in [Sids -> 0..MaxTokens]
        /\ store'[r.sid] = obj /\ ttl'[r.sid] = obj.expires /\ issued'[r.sid] = issued[r.sid] + 1
        /\ \A t \in Sids \ {r.sid} : store'[t] = store[t] /\ ttl'[t] = ttl[t] /\ issued'[t] = issued[t]
    <3>1. issued[r.sid] + 1 \in 0..MaxTokens
      BY <2>4
    <3> QED BY <1>3, <2>2, <2>3, <2>4, <2>5, <3>1 DEF Save
  <2>7. /\ \A t \in Sids : (store'[t] # None) <=> (ttl'[t] > 0)
        /\ {ended', exposed', overlapped', drifted'} \subseteq SUBSET Sids
    <3>1. \A t \in Sids : (store'[t] # None) <=> (ttl'[t] > 0)
      BY <2>3, <2>4, <2>5, <2>6
    <3>2. overlapped' \subseteq Sids /\ drifted' \subseteq Sids /\ ended' \subseteq Sids /\ exposed' \subseteq Sids
      BY <1>3, <2>2, <2>3
    <3> QED BY <3>1, <3>2
  <2>8. /\ issued'[r.sid] > 0
        /\ \A t \in Sids \ {r.sid} : t \in overlapped' <=> t \in overlapped
        /\ \A t \in Sids : issued[t] > 0 => issued'[t] > 0
    BY <1>3, <2>2, <2>3, <2>4, <2>6
  <2>9. \A t \in Sids : StoreFits(t)'
    <3>1. ASSUME NEW t \in Sids, t # r.sid PROVE StoreFits(t)'
      BY <2>2, <2>3, <2>6, <2>8, <3>1 DEF StoreFits
    <3>2. StoreFits(r.sid)'
      <4>1. r.sid \notin ended \ exposed
        BY <1>2, <1>3 DEF CopyFits
      <4> QED BY <2>2, <2>5, <2>6, <2>8, <4>1 DEF StoreFits
    <3> QED BY <3>1, <3>2
  <2>10. ASSUME NEW c \in Request, NEW q \in Procs \ {p}, req[q] = c
         PROVE  CopyFits(c)' /\ (c.op = "login" => issued'[c.sid] = 0)
    <3>1. c # None /\ CopyFits(c) /\ StepFits(c) /\ PairFits(r, c) /\ c.sid \in Sids
      BY <1>2, <2>10 DEF SessionsSafe, Request
    <3>2. c.list \subseteq Sids
      BY DEF Request
    <3>3. CASE c.sid # r.sid
      BY <2>2, <2>6, <2>8, <3>1, <3>2, <3>3 DEF CopyFits, StepFits
    <3>4. CASE c.sid = r.sid
      <4>1. c.op # "login" /\ (c.obj # None => c.obj.max = obj.max)
        BY <1>3, <2>5, <3>1, <3>4 DEF PairFits
      <4>2. c.obj # None => r.sid \in overlapped'
        <5>1. c.obj # None => q \in Others(p, r.sid)
          BY <2>10, <3>1, <3>4 DEF Others, Holders
        <5> QED BY <2>2, <5>1
      <4> QED BY <2>2, <2>6, <2>8, <3>1, <3>2, <3>4, <4>1, <4>2 DEF CopyFits
    <3> QED BY <3>3, <3>4
  <2>11. load'[p] = None /\ setup' = setup
    BY <1>3, <2>2, RbacRests
  <2>12. /\ RbacSafe' /\ kept \subseteq kept' /\ crossed \subseteq crossed'
         /\ \A q \in Procs \ {p} : load'[q] = load[q]
    BY <2>2, RbacRests
  <2>13. \A c \in Request : (\E q \in Procs \ {p} : req[q] = c) =>
             CopyFits(c)' /\ (c.op = "login" => issued'[c.sid] = 0)
    BY <2>10
  <2>14. /\ store' \in [Sids -> Session \cup {None}] /\ ttl' \in [Sids -> 0..MaxTtl]
         /\ issued' \in [Sids -> 0..MaxTokens] /\ req' = [req EXCEPT ![p] = None]
    BY <2>2, <2>6
  <2> QED BY <2>7, <2>9, <2>11, <2>12, <2>13, <2>14, OneLeaves
<1> QED BY <1>4, <1>5

LEMMA LogoutSafe ==
  ASSUME SessionsSafe, NEW p \in Procs, req[p] # None, Logout(p)
  PROVE  SessionsSafe'
<1>1. PICK r : r = req[p]
  OBVIOUS
<1>2. /\ r \in Request /\ CopyFits(r) /\ LoadFits(load[p], r) /\ r # None
  BY <1>1, RequestFacts
<1>3. load[p] = None /\ issued[r.sid] > 0 /\ r.sid \in Sids
  BY <1>1, <1>2 DEF Logout, LoadFits, Request, CopyFits
<1> QED BY <1>1, <1>3, EndSafe DEF Logout, Answer

\* A login has its session for itself: nobody has found it.
LEMMA CreateSafe ==
  ASSUME SessionsSafe, NEW p \in Procs, req[p] # None, Create(p)
  PROVE  SessionsSafe'
<1>1. PICK r : r = req[p]
  OBVIOUS
<1>2. /\ r \in Request /\ StepFits(r) /\ CopyFits(r) /\ LoadFits(load[p], r) /\ r # None
      /\ r.obj # None => r.obj \in Session
      /\ \A q \in Procs \ {p} : req[q] # None => PairFits(r, req[q])
  BY <1>1, RequestFacts
<1>3. /\ r.step = "create" /\ load[p] = None /\ r.op = "login" /\ r.obj \in Session
      /\ r.obj.token = 1 /\ r.sid \in Sids /\ issued[r.sid] = 0
  BY <1>1, <1>2 DEF Create, LoadFits, Request, StepFits
<1>4. PICK obj : obj = [r.obj EXCEPT !.expires = Ttl, !.max = MaxTtl]
  OBVIOUS
<1>5. /\ Save(r.sid, obj, Ttl) /\ issued' = [issued EXCEPT ![r.sid] = 1]
      /\ req' = [req EXCEPT ![p] = None] /\ UNCHANGED <<rbac, setup, sessionHistory>>
  BY <1>1, <1>4 DEF Create, Answer
<1>6. /\ store \in [Sids -> Session \cup {None}] /\ ttl \in [Sids -> 0..MaxTtl]
      /\ \A t \in Sids : (store[t] # None) <=> (ttl[t] > 0)
      /\ {ended, exposed, overlapped, drifted} \subseteq SUBSET Sids
      /\ issued \in [Sids -> 0..MaxTokens]
      /\ \A t \in Sids : StoreFits(t)
  BY DEF SessionsSafe, TypeOK
<1>7. /\ obj \in Session /\ obj.token = 1 /\ obj.max = MaxTtl /\ obj.expires = Ttl /\ obj # None
      /\ Ttl \in 0..MaxTtl /\ Ttl > 0 /\ Ttl <= MaxTtl /\ 1 \in 0..MaxTokens
  <2>1. Ttl \in 0..MaxTtl /\ MaxTtl \in 0..MaxTtl /\ Ttl > 0 /\ Ttl <= MaxTtl /\ 1 \in 0..MaxTokens
    OBVIOUS
  <2> QED BY <1>3, <1>4, <2>1 DEF Session
<1>8. /\ store' \in [Sids -> Session \cup {None}] /\ ttl' \in [Sids -> 0..MaxTtl]
      /\ issued' \in [Sids -> 0..MaxTokens]
      /\ store'[r.sid] = obj /\ ttl'[r.sid] = Ttl /\ issued'[r.sid] = 1
      /\ \A t \in Sids \ {r.sid} : store'[t] = store[t] /\ ttl'[t] = ttl[t] /\ issued'[t] = issued[t]
      /\ UNCHANGED <<ended, exposed, overlapped, drifted>>
  BY <1>3, <1>5, <1>6, <1>7 DEF Save, sessionHistory
<1>9. /\ \A t \in Sids : (store'[t] # None) <=> (ttl'[t] > 0)
      /\ \A t \in Sids : issued[t] > 0 => issued'[t] > 0
  BY <1>6, <1>7, <1>8
<1>10. \A t \in Sids : StoreFits(t)'
  <2>1. ASSUME NEW t \in Sids, t # r.sid PROVE StoreFits(t)'
    BY <1>6, <1>8, <2>1 DEF StoreFits
  <2>2. StoreFits(r.sid)'
    <3>1. r.sid \notin ended
      BY <1>3, <1>6 DEF StoreFits
    <3> QED BY <1>7, <1>8, <3>1 DEF StoreFits
  <2> QED BY <2>1, <2>2
<1>11. ASSUME NEW c \in Request, NEW q \in Procs \ {p}, req[q] = c
       PROVE  CopyFits(c)' /\ (c.op = "login" => issued'[c.sid] = 0)
  <2>1. c # None /\ CopyFits(c) /\ StepFits(c) /\ PairFits(r, c) /\ c.sid \in Sids
    BY <1>2, <1>11 DEF SessionsSafe, Request
  <2>2. c.sid # r.sid
    BY <1>3, <2>1 DEF PairFits
  <2>3. c.list \subseteq Sids
    BY DEF Request
  <2> QED BY <1>8, <1>9, <2>1, <2>2, <2>3 DEF CopyFits, StepFits
<1>12. load'[p] = None /\ setup' = setup
  BY <1>3, <1>5, RbacRests
<1>13. /\ RbacSafe' /\ kept \subseteq kept' /\ crossed \subseteq crossed'
       /\ \A q \in Procs \ {p} : load'[q] = load[q]
       /\ {ended', exposed', overlapped', drifted'} \subseteq SUBSET Sids
  BY <1>5, <1>6, <1>8, RbacRests
<1>14. \A c \in Request : (\E q \in Procs \ {p} : req[q] = c) =>
           CopyFits(c)' /\ (c.op = "login" => issued'[c.sid] = 0)
  BY <1>11
<1>15. /\ store' \in [Sids -> Session \cup {None}] /\ ttl' \in [Sids -> 0..MaxTtl]
       /\ issued' \in [Sids -> 0..MaxTokens] /\ req' = [req EXCEPT ![p] = None]
       /\ \A t \in Sids : (store'[t] # None) <=> (ttl'[t] > 0)
  BY <1>5, <1>8, <1>9
<1> QED BY <1>10, <1>12, <1>13, <1>14, <1>15, OneLeaves

-----------------------------------------------------------------------------
(* The steps of a request with the user, and what it is for.               *)

LEMMA LoadUserSafe ==
  ASSUME SessionsSafe, NEW p \in Procs, req[p] # None, LoadUser(p), RbacSafe',
         kept \subseteq kept', crossed \subseteq crossed'
  PROVE  SessionsSafe'
<1>1. PICK r : r = req[p]
  OBVIOUS
<1>2. /\ r \in Request /\ StepFits(r) /\ CopyFits(r) /\ r # None /\ r.step = "found"
      /\ \A q \in Procs \ {p} : req[q] # None => PairFits(r, req[q])
  BY <1>1, RequestFacts DEF LoadUser
<1>3. PICK x : x = [r EXCEPT !.step = "user"]
  OBVIOUS
<1>4. /\ x \in Request /\ x.step = "user" /\ x.op = r.op /\ x.sid = r.sid
      /\ x.obj = r.obj /\ x.known = r.known /\ x.list = r.list
  BY <1>2, <1>3 DEF Request
<1>5. /\ req' = [req EXCEPT ![p] = x]
      /\ UNCHANGED <<setup, records, issued, sessionHistory>>
  BY <1>1, <1>3 DEF LoadUser, Goto
<1>6. StepFits(x)' /\ CopyFits(x)
  <2>1. issued' = issued /\ r.known \subseteq kept'
    BY <1>2, <1>5 DEF StepFits
  <2> QED BY <1>2, <1>4, <2>1 DEF StepFits, CopyFits, Without, Synced
<1>7. \A q \in Procs \ {p} : req[q] # None => PairFits(x, req[q])
  BY <1>2, <1>4, PairStays
<1>8. LoadFits(load'[p], x) /\ \A q \in Procs \ {p} : load'[q] = load[q]
  <2>1. load \in [Procs -> Load \cup Flush \cup {None}]
    BY DEF SessionsSafe, TypeOK, RbacTypeOK
  <2> DEFINE e == [step |-> "get", change |-> None, snap |-> None,
                   seen |-> 0, got |-> Nothing, left |-> {}]
  <2>2. load' = [load EXCEPT ![p] = e] /\ e.change = None
    BY DEF LoadUser, BeginLoad
  <2> HIDE DEF e
  <2> QED BY <1>4, <2>1, <2>2 DEF LoadFits
<1> QED BY <1>4, <1>5, <1>6, <1>7, <1>8, OneMovesOn

LEMMA FetchUserSafe ==
  ASSUME SessionsSafe, NEW p \in Procs, req[p] # None, FetchUser(p), RbacSafe',
         kept \subseteq kept', crossed \subseteq crossed'
  PROVE  SessionsSafe'
<1>1. PICK r : r = req[p]
  OBVIOUS
<1>2. /\ r \in Request /\ StepFits(r) /\ CopyFits(r) /\ r # None /\ r.step \in {"user", "change"}
      /\ \A q \in Procs \ {p} : req[q] # None => PairFits(r, req[q])
      /\ load[p] # None /\ LoadFits(load[p], r) /\ RbacTypeOK
  BY <1>1, RequestFacts DEF FetchUser
<1>3. UNCHANGED <<req, setup, records, issued, sessionHistory>>
  BY DEF FetchUser, sessions
<1>4. req' = [req EXCEPT ![p] = r]
  BY <1>1, <1>3 DEF SessionsSafe, TypeOK
<1>5. StepFits(r)'
  <2>1. issued' = issued
    BY <1>3
  <2> QED BY <1>2, <2>1 DEF StepFits, Synced
<1>6. LoadFits(load'[p], r) /\ \A q \in Procs \ {p} : load'[q] = load[q]
  BY <1>2, OthersLoad DEF FetchUser, LoadFits
<1> QED BY <1>2, <1>3, <1>4, <1>5, <1>6, OneMovesOn

\* The user that is acted on has what was answered and not crossed.
LEMMA HaveUserSafe ==
  ASSUME SessionsSafe, NEW p \in Procs, req[p] # None, HaveUser(p), RbacSafe',
         kept \subseteq kept', crossed \subseteq crossed'
  PROVE  SessionsSafe'
<1>1. PICK r : r = req[p]
  OBVIOUS
<1>2. /\ r \in Request /\ StepFits(r) /\ CopyFits(r) /\ r # None
      /\ r.obj # None => r.obj \in Session
      /\ \A q \in Procs \ {p} : req[q] # None => PairFits(r, req[q])
      /\ LoadFits(load[p], r) /\ RbacTypeOK
  BY <1>1, RequestFacts
<1>3. /\ r.step = "user" /\ load[p] # None /\ ActStep(p)
      /\ UNCHANGED <<setup, records, issued, sessionHistory>>
  BY <1>1 DEF HaveUser
<1>4. load'[p] = None /\ \A q \in Procs \ {p} : load'[q] = load[q]
  BY <1>2, <1>3, OthersLoad DEF LoadFits
<1>5. PICK user : user = state'
  OBVIOUS
<1>6. user \in Contents /\ kept \subseteq Changes
  BY <1>5 DEF RbacSafe, RbacTypeOK, SessionsSafe, TypeOK
<1>7. \A c \in kept \ crossed' : Whole(user, c)
  <2>1. kept' \subseteq Written'
    BY DEF Written
  <2> QED BY <1>5, <2>1 DEF RbacSafe, WrittenSafe
<1>8. CASE r.op = "login"
  <2>1. PICK obj : obj = [token |-> 1, user |-> user, expires |-> 0, max |-> 0]
    OBVIOUS
  <2>2. PICK x : x = [r EXCEPT !.step = "create", !.obj = obj]
    OBVIOUS
  <2>3. obj \in Session /\ obj # None /\ obj.token = 1
    <3>1. 1 \in 1..MaxTokens /\ 0 \in 0..MaxTtl
      OBVIOUS
    <3> QED BY <1>6, <2>1, <3>1 DEF Session
  <2>4. /\ x \in Request /\ x.step = "create" /\ x.op = r.op /\ x.sid = r.sid
        /\ x.obj = obj /\ x.known = r.known /\ x.list = r.list
    BY <1>2, <2>2, <2>3 DEF Request
  <2>5. req' = [req EXCEPT ![p] = x]
    BY <1>1, <1>5, <1>8, <2>1, <2>2 DEF HaveUser
  <2>6. StepFits(x)' /\ CopyFits(x)
    <3>1. issued' = issued /\ r.known \subseteq kept'
      BY <1>2, <1>3 DEF StepFits
    <3> QED BY <1>2, <1>8, <2>3, <2>4, <3>1 DEF StepFits, CopyFits, Without, Synced
  <2>7. \A q \in Procs \ {p} : req[q] # None => PairFits(x, req[q])
    BY <1>2, <1>8, <2>4 DEF PairFits
  <2>8. LoadFits(load'[p], x)
    BY <1>4 DEF LoadFits
  <2> QED BY <1>3, <1>4, <2>4, <2>5, <2>6, <2>7, <2>8, OneMovesOn
<1>9. CASE r.op # "login"
  <2>1. PICK obj : obj = [r.obj EXCEPT !.user = user]
    OBVIOUS
  <2>2. PICK next \in {"passed", "resync ttl"} :
          next = IF r.obj.user = user THEN "passed" ELSE "resync ttl"
    OBVIOUS
  <2>3. PICK x : x = [r EXCEPT !.step = next, !.obj = obj]
    OBVIOUS
  <2>4. r.obj \in Session /\ r.obj # None
    BY <1>2, <1>3, <1>9 DEF StepFits, Without
  <2>5. /\ obj \in Session /\ obj # None /\ obj.user = user /\ obj.token = r.obj.token
        /\ obj.max = r.obj.max /\ obj.expires = r.obj.expires
    BY <1>6, <2>1, <2>4 DEF Session
  <2>6. /\ x \in Request /\ x.step = next /\ x.op = r.op /\ x.sid = r.sid
        /\ x.obj = obj /\ x.known = r.known /\ x.list = r.list
    BY <1>2, <2>2, <2>3, <2>5 DEF Request
  <2>7. req' = [req EXCEPT ![p] = x]
    BY <1>1, <1>5, <1>9, <2>1, <2>2, <2>3 DEF HaveUser, WithUser
  <2>8. StepFits(x)' /\ CopyFits(x)
    <3>1. issued' = issued /\ r.known \subseteq kept /\ r.known \subseteq kept'
      BY <1>2, <1>3 DEF StepFits
    <3>2. Fresh(x)'
      BY <1>7, <2>5, <2>6, <3>1 DEF Fresh
    <3>3. StepFits(x)'
      BY <1>2, <1>9, <2>2, <2>5, <2>6, <3>1, <3>2 DEF StepFits, Without, Synced
    <3>4. CopyFits(x)
      BY <1>2, <1>9, <2>2, <2>4, <2>5, <2>6 DEF CopyFits
    <3> QED BY <3>3, <3>4
  <2>9. \A q \in Procs \ {p} : req[q] # None => PairFits(x, req[q])
    BY <1>2, <2>4, <2>5, <2>6, PairStays
  <2>10. LoadFits(load'[p], x)
    BY <1>4 DEF LoadFits
  <2> QED BY <1>3, <1>4, <2>6, <2>7, <2>8, <2>9, <2>10, OneMovesOn
<1> QED BY <1>8, <1>9

LEMMA ResyncSafe ==
  ASSUME SessionsSafe, NEW p \in Procs, req[p] # None, Resync(p)
  PROVE  SessionsSafe'
<1>1. PICK r : r = req[p]
  OBVIOUS
<1>2. /\ r \in Request /\ StepFits(r) /\ CopyFits(r) /\ LoadFits(load[p], r) /\ r # None
      /\ r.obj # None => r.obj \in Session
      /\ r.step = "resync"
  BY <1>1, RequestFacts DEF Resync
<1>3. /\ load[p] = None /\ r.op # "login" /\ r.obj # None /\ r.obj \in Session /\ r.left > 0
      /\ r.left \in 0..MaxTtl /\ r.sid \in Sids
  BY <1>2 DEF LoadFits, StepFits, Without, Request
<1>4. PICK x : x = [r EXCEPT !.step = "passed"]
  OBVIOUS
<1>5. /\ Save(r.sid, r.obj, r.left) /\ req' = [req EXCEPT ![p] = x]
      /\ drifted' = IF r.aged THEN drifted \cup {r.sid} ELSE drifted
      /\ UNCHANGED <<rbac, setup, issued, ended, exposed, overlapped>>
  BY <1>1, <1>4 DEF Resync, Goto
<1>6. /\ x \in Request /\ x.step = "passed" /\ x.op = r.op /\ x.sid = r.sid
      /\ x.obj = r.obj /\ x.known = r.known /\ x.list = r.list
  BY <1>2, <1>4 DEF Request
<1>7. StepFits(x) /\ CopyFits(x)
  <2>1. Fresh(x)
    BY <1>2, <1>6 DEF StepFits, Synced, Fresh
  <2>2. StepFits(x)
    BY <1>2, <1>3, <1>6, <2>1 DEF StepFits, Without, Synced
  <2>3. CopyFits(x)
    BY <1>2, <1>3, <1>6 DEF CopyFits
  <2> QED BY <2>2, <2>3
<1>8. /\ r.obj.expires <= r.obj.max
      /\ r.sid \notin overlapped => r.obj.token = issued[r.sid]
      /\ ~r.aged => r.left <= r.obj.max
  BY <1>2, <1>3 DEF CopyFits
<1>9. /\ r.sid \notin drifted' => r.left <= r.obj.max
      /\ drifted' \subseteq Sids /\ \A t \in Sids \ {r.sid} : t \in drifted' <=> t \in drifted
  <2>1. drifted \subseteq Sids
    BY DEF SessionsSafe, TypeOK
  <2>2. CASE r.aged
    BY <1>3, <1>5, <2>1, <2>2
  <2>3. CASE ~r.aged
    BY <1>5, <1>8, <2>1, <2>3
  <2> QED BY <2>2, <2>3
<1>10. r.left \in 1..MaxTtl
  BY <1>3
<1> QED BY <1>1, <1>2, <1>3, <1>5, <1>6, <1>7, <1>8, <1>9, <1>10, SaveSafe

LEMMA ViewSafe ==
  ASSUME SessionsSafe, NEW p \in Procs, req[p] # None, View(p)
  PROVE  SessionsSafe'
<1>1. load[p] = None
  BY DEF View, SessionsSafe, LoadFits
<1> QED BY <1>1, AnswerSafe DEF View

LEMMA KickSafe ==
  ASSUME SessionsSafe, NEW p \in Procs, req[p] # None, Kick(p)
  PROVE  SessionsSafe'
<1>1. load[p] = None
  BY DEF Kick, SessionsSafe, LoadFits
<1>2. PICK s \in setup.sids : issued[s] > 0 /\ End(p, s)
  BY DEF Kick
<1>3. s \in Sids
  BY DEF SessionsSafe, TypeOK
<1>4. req' = [req EXCEPT ![p] = None] /\ UNCHANGED <<rbac, setup, issued>>
  BY DEF Kick, Answer
<1> QED BY <1>1, <1>2, <1>3, <1>4, EndSafe

LEMMA BeginChangeSafe ==
  ASSUME SessionsSafe, NEW p \in Procs, req[p] # None, BeginChange(p), RbacSafe',
         kept \subseteq kept', crossed \subseteq crossed'
  PROVE  SessionsSafe'
<1>1. PICK r : r = req[p]
  OBVIOUS
<1>2. /\ r \in Request /\ StepFits(r) /\ CopyFits(r) /\ r # None /\ r.step = "passed"
      /\ r.op = "change"
      /\ \A q \in Procs \ {p} : req[q] # None => PairFits(r, req[q])
      /\ LoadFits(load[p], r)
  BY <1>1, RequestFacts DEF BeginChange
<1>3. UNCHANGED <<setup, records, issued, sessionHistory>>
  BY DEF BeginChange
<1>4. ASSUME NEW c \in setup.changes \ made, BeginLoad(p, c),
             req' = [req EXCEPT ![p].step = "change", ![p].change = c, ![p].obj = None]
      PROVE  SessionsSafe'
  <2>1. PICK x : x = [r EXCEPT !.step = "change", !.change = c, !.obj = None]
    OBVIOUS
  <2>2. c \in Changes
    BY DEF SessionsSafe, TypeOK
  <2>3. /\ x \in Request /\ x.step = "change" /\ x.op = r.op /\ x.sid = r.sid
        /\ x.obj = None /\ x.known = r.known /\ x.list = r.list
    BY <1>2, <2>1, <2>2 DEF Request
  <2>4. req' = [req EXCEPT ![p] = x]
    BY <1>1, <1>4, <2>1
  <2>5. StepFits(x)' /\ CopyFits(x)
    <3>1. issued' = issued /\ r.known \subseteq kept'
      BY <1>2, <1>3 DEF StepFits
    <3> QED BY <1>2, <2>3, <3>1 DEF StepFits, CopyFits, Without, Synced
  <2>6. \A q \in Procs \ {p} : req[q] # None => PairFits(x, req[q])
    BY <1>2, <2>3, PairStays
  <2>7. LoadFits(load'[p], x) /\ \A q \in Procs \ {p} : load'[q] = load[q]
    <3>1. load \in [Procs -> Load \cup Flush \cup {None}]
      BY DEF SessionsSafe, TypeOK, RbacTypeOK
    <3> DEFINE e == [step |-> "get", change |-> c, snap |-> None,
                     seen |-> 0, got |-> Nothing, left |-> {}]
    <3>2. load' = [load EXCEPT ![p] = e]
      BY <1>4 DEF BeginLoad
    <3> HIDE DEF e
    <3> QED BY <2>3, <3>1, <3>2 DEF LoadFits
  <2> QED BY <1>3, <2>3, <2>4, <2>5, <2>6, <2>7, OneMovesOn
<1>5. CASE Answer(p) /\ UNCHANGED <<load, crossed>>
  <2>1. UNCHANGED <<rbac, setup, records, issued, sessionHistory>>
    BY <1>5 DEF BeginChange, rbac
  <2> QED BY <1>2, <1>5, <2>1, AnswerSafe DEF LoadFits
<1> QED BY <1>4, <1>5 DEF BeginChange

LEMMA MakeChangeSafe ==
  ASSUME SessionsSafe, NEW p \in Procs, req[p] # None, MakeChange(p), RbacSafe',
         kept \subseteq kept', crossed \subseteq crossed'
  PROVE  SessionsSafe'
<1>1. PICK r : r = req[p]
  OBVIOUS
<1>2. /\ r \in Request /\ StepFits(r) /\ CopyFits(r) /\ r # None /\ r.step = "change"
      /\ \A q \in Procs \ {p} : req[q] # None => PairFits(r, req[q])
      /\ load[p] # None /\ RbacTypeOK /\ ActStep(p)
  BY <1>1, RequestFacts DEF MakeChange
<1>3. PICK x : x = [r EXCEPT !.step = "flush"]
  OBVIOUS
<1>4. /\ x \in Request /\ x.step = "flush" /\ x.op = r.op /\ x.sid = r.sid
      /\ x.obj = r.obj /\ x.known = r.known /\ x.list = r.list
  BY <1>2, <1>3 DEF Request
<1>5. /\ req' = [req EXCEPT ![p] = x]
      /\ UNCHANGED <<setup, records, issued, sessionHistory>>
  BY <1>1, <1>3 DEF MakeChange, Goto
<1>6. StepFits(x)' /\ CopyFits(x)
  <2>1. issued' = issued /\ r.known \subseteq kept'
    BY <1>2, <1>5 DEF StepFits
  <2> QED BY <1>2, <1>4, <2>1 DEF StepFits, CopyFits, Without, Synced
<1>7. \A q \in Procs \ {p} : req[q] # None => PairFits(x, req[q])
  BY <1>2, <1>4, PairStays
<1>8. LoadFits(load'[p], x) /\ \A q \in Procs \ {p} : load'[q] = load[q]
  BY <1>2, <1>4, OthersLoad DEF LoadFits
<1> QED BY <1>4, <1>5, <1>6, <1>7, <1>8, OneMovesOn

LEMMA ListSessionsSafe ==
  ASSUME SessionsSafe, NEW p \in Procs, req[p] # None, ListSessions(p)
  PROVE  SessionsSafe'
<1>1. PICK r : r = req[p]
  OBVIOUS
<1>2. /\ r \in Request /\ StepFits(r) /\ CopyFits(r) /\ r # None /\ r.step = "flush"
      /\ \A q \in Procs \ {p} : req[q] # None => PairFits(r, req[q])
      /\ load[p] = None
  BY <1>1, RequestFacts DEF ListSessions
<1>3. CASE r.change \in kept
  <2>1. PICK x : x = [r EXCEPT !.step = "end", !.list = {s \in setup.sids : store[s] # None}]
    OBVIOUS
  <2>2. setup.sids \subseteq Sids
    BY DEF SessionsSafe, TypeOK
  <2>3. /\ x \in Request /\ x.step = "end" /\ x.op = r.op /\ x.sid = r.sid
        /\ x.obj = r.obj /\ x.known = r.known
        /\ x.list = {s \in setup.sids : store[s] # None}
    BY <1>2, <2>1, <2>2 DEF Request
  <2>4. req' = [req EXCEPT ![p] = x]
    BY <1>1, <1>3, <2>1 DEF ListSessions
  <2>5. \A s \in x.list : issued[s] > 0
    BY <2>2, <2>3 DEF SessionsSafe, StoreFits
  <2>6. StepFits(x) /\ CopyFits(x)
    BY <1>2, <2>3, <2>5 DEF StepFits, CopyFits, Without, Synced
  <2>7. \A q \in Procs \ {p} : req[q] # None => PairFits(x, req[q])
    BY <1>2, <2>3, PairStays
  <2> QED BY <1>2, <2>3, <2>4, <2>6, <2>7, QuietSafe DEF ListSessions
<1>4. CASE r.change \notin kept
  <2>1. Answer(p)
    BY <1>1, <1>4 DEF ListSessions
  <2> QED BY <1>2, <2>1, AnswerSafe DEF ListSessions
<1> QED BY <1>3, <1>4

LEMMA EndListedSafe ==
  ASSUME SessionsSafe, NEW p \in Procs, req[p] # None, EndListed(p)
  PROVE  SessionsSafe'
<1>1. PICK r : r = req[p]
  OBVIOUS
<1>2. /\ r \in Request /\ StepFits(r) /\ CopyFits(r) /\ r # None /\ r.step = "end"
      /\ LoadFits(load[p], r)
  BY <1>1, RequestFacts DEF EndListed
<1>3. load[p] = None /\ r.obj = None
  BY <1>2 DEF LoadFits, StepFits, Without
<1>4. CASE Answer(p) /\ UNCHANGED <<records, ended, exposed, overlapped, drifted>>
  <2>1. UNCHANGED <<rbac, setup, records, issued, sessionHistory>>
    BY <1>4 DEF EndListed, sessionHistory
  <2> QED BY <1>3, <1>4, <2>1, AnswerSafe
<1>5. ASSUME NEW s \in r.list, End(p, s), req' = [req EXCEPT ![p].list = @ \ {s}]
      PROVE  SessionsSafe'
  <2>1. PICK x : x = [r EXCEPT !.list = r.list \ {s}]
    OBVIOUS
  <2>2. s \in Sids /\ issued[s] > 0
    BY <1>2 DEF Request, CopyFits
  <2>3. /\ x \in Request /\ x.step = "end" /\ x.op = r.op /\ x.sid = r.sid
        /\ x.obj = None /\ x.known = r.known /\ x.list = r.list \ {s}
    BY <1>2, <1>3, <2>1 DEF Request
  <2>4. req' = [req EXCEPT ![p] = x]
    BY <1>1, <1>5, <2>1
  <2>5. StepFits(x) /\ CopyFits(x)
    BY <1>2, <2>3 DEF StepFits, CopyFits, Without, Synced
  <2>6. UNCHANGED <<rbac, setup, issued>>
    BY DEF EndListed
  <2> QED BY <1>1, <1>3, <1>5, <2>2, <2>3, <2>4, <2>5, <2>6, EndSafe
<1> QED BY <1>1, <1>4, <1>5 DEF EndListed

-----------------------------------------------------------------------------
(* The steps of nobody: rewrites, faults and the clock.                    *)

LEMMA RewriteSessionsSafe ==
  ASSUME SessionsSafe, RewriteStep \/ RewriteFails, UNCHANGED sessions, RbacSafe',
         kept \subseteq kept', crossed \subseteq crossed'
  PROVE  SessionsSafe'
<1>1. UNCHANGED <<setup, store, ttl, req, issued, ended, exposed, overlapped, drifted>>
  BY DEF sessions, records, sessionHistory
<1>2. \A p \in Procs : load'[p] \in {load[p], None}
  BY DEF RewriteStep, WriteRows, WriteLinks, Commit, ResolveRewritten, SaveRewritten, RewriteFails,
     Released
<1>3. \A p \in Procs : LoadFits(load'[p], req'[p])
  BY <1>1, <1>2 DEF SessionsSafe, LoadFits
<1>4. TypeOK'
  BY <1>1, <1>2 DEF SessionsSafe, TypeOK, RbacSafe
<1>5. ASSUME NEW p \in Procs, req'[p] # None PROVE StepFits(req[p])' /\ CopyFits(req[p])'
  <2>1. StepFits(req[p]) /\ CopyFits(req[p])
    BY <1>1, <1>5 DEF SessionsSafe
  <2> QED BY <1>1, <2>1 DEF StepFits, CopyFits, Fresh
<1>6. \A s \in Sids : StoreFits(s)'
  BY <1>1 DEF SessionsSafe, StoreFits
<1>7. \A p, q \in Procs : p # q /\ req'[p] # None /\ req'[q] # None => PairFits(req[p], req[q])'
  BY <1>1 DEF SessionsSafe, PairFits
<1> QED BY <1>3, <1>4, <1>5, <1>6, <1>7 DEF SessionsSafe, LoadFits

LEMMA CrashSafe ==
  ASSUME SessionsSafe, Crash, RbacSafe'
  PROVE  SessionsSafe'
<1>1. /\ UNCHANGED <<setup, store, ttl, issued, ended, exposed, overlapped, drifted>>
      /\ \A p \in Procs : req'[p] = None /\ load'[p] = None
      /\ req' \in [Procs -> Request \cup {None}]
  BY DEF Crash, RbacCrash, records, sessionHistory
<1>2. TypeOK'
  BY <1>1 DEF SessionsSafe, TypeOK, RbacSafe
<1>3. \A s \in Sids : StoreFits(s)'
  BY <1>1 DEF SessionsSafe, StoreFits
<1> QED BY <1>1, <1>2, <1>3 DEF SessionsSafe, LoadFits

LEMMA LoseRedisSafe ==
  ASSUME SessionsSafe, LoseRedis, RbacSafe'
  PROVE  SessionsSafe'
<1>1. /\ UNCHANGED <<setup, req, load, kept, crossed, issued, ended, exposed, overlapped, drifted>>
      /\ \A s \in Sids : store'[s] = None /\ ttl'[s] = 0
      /\ store' \in [Sids -> Session \cup {None}] /\ ttl' \in [Sids -> 0..MaxTtl]
  BY DEF LoseRedis, LoseSnapshot, Gone, sessionHistory
<1>2. TypeOK'
  <2>1. \A s \in Sids : (store'[s] # None) <=> (ttl'[s] > 0)
    BY <1>1
  <2> QED BY <1>1, <2>1 DEF SessionsSafe, TypeOK, RbacSafe
<1>3. \A s \in Sids : StoreFits(s)'
  BY <1>1 DEF SessionsSafe, StoreFits
<1>4. ASSUME NEW p \in Procs, req'[p] # None PROVE StepFits(req[p])' /\ CopyFits(req[p])'
  <2>1. StepFits(req[p]) /\ CopyFits(req[p]) /\ req[p].sid \in Sids
    BY <1>1, <1>4 DEF SessionsSafe, TypeOK, Request
  <2> QED BY <1>1, <2>1 DEF StepFits, CopyFits, Fresh
<1>5. \A p, q \in Procs : p # q /\ req'[p] # None /\ req'[q] # None => PairFits(req[p], req[q])'
  BY <1>1 DEF SessionsSafe, PairFits
<1>6. \A p \in Procs : LoadFits(load[p], req[p])'
  BY <1>1 DEF SessionsSafe, LoadFits
<1> QED BY <1>2, <1>3, <1>4, <1>5, <1>6 DEF SessionsSafe

LEMMA LessFacts ==
  /\ \A n \in Nat : Less(n) \in Nat /\ Less(n) <= n /\ (n > 1 <=> Less(n) > 0)
  /\ \A m, n \in Nat : m <= n => Less(m) <= Less(n)
BY DEF Less

LEMMA OlderFacts ==
  ASSUME NEW obj \in Session \cup {None}
  PROVE  /\ Older(obj) \in Session \cup {None} /\ (Older(obj) = None <=> obj = None)
         /\ obj # None => /\ Older(obj).token = obj.token /\ Older(obj).user = obj.user
                          /\ Older(obj).max = Less(obj.max)
                          /\ Older(obj).expires = Less(obj.expires)
<1>1. CASE obj = None
  BY <1>1 DEF Older
<1>2. CASE obj # None
  <2>1. obj \in Session /\ Older(obj) = [obj EXCEPT !.expires = Less(@), !.max = Less(@)]
    BY <1>2 DEF Older
  <2>2. obj.expires \in 0..MaxTtl /\ obj.max \in 0..MaxTtl
    BY <2>1 DEF Session
  <2>3. Less(obj.expires) \in 0..MaxTtl /\ Less(obj.max) \in 0..MaxTtl
    BY <2>2 DEF Less
  <2>4. Older(obj) \in Session
    BY <2>1, <2>3 DEF Session
  <2> QED BY <1>2, <2>1, <2>4 DEF Session
<1> QED BY <1>1, <1>2

\* All that is known of a session grows old alike.
LEMMA TickSafe ==
  ASSUME SessionsSafe, Tick
  PROVE  SessionsSafe'
<1>1. /\ ttl' = [s \in Sids |-> Less(ttl[s])]
      /\ store' = [s \in Sids |-> IF ttl[s] > 1 THEN Older(store[s]) ELSE None]
      /\ req' = [p \in Procs |->
                    IF req[p] = None THEN None
                    ELSE [req[p] EXCEPT !.obj = Older(@), !.aged = (req[p].step = "resync")]]
      /\ UNCHANGED <<rbac, setup, issued, ended, exposed, overlapped, drifted>>
  BY DEF Tick, sessionHistory
<1>2. /\ store \in [Sids -> Session \cup {None}] /\ ttl \in [Sids -> 0..MaxTtl]
      /\ \A s \in Sids : (store[s] # None) <=> (ttl[s] > 0)
      /\ req \in [Procs -> Request \cup {None}]
      /\ \A s \in Sids : StoreFits(s)
      /\ RbacTypeOK
  BY DEF SessionsSafe, TypeOK
<1>3. ASSUME NEW s \in Sids
      PROVE  /\ ttl'[s] \in 0..MaxTtl /\ store'[s] \in Session \cup {None}
             /\ (store'[s] # None) <=> (ttl'[s] > 0)
             /\ store'[s] # None => store[s] \in Session /\ store'[s] = Older(store[s]) /\ ttl'[s] = Less(ttl[s])
  <2>1. ttl[s] \in 0..MaxTtl /\ ttl'[s] = Less(ttl[s])
    BY <1>1, <1>2
  <2>2. ttl'[s] \in 0..MaxTtl /\ (ttl'[s] > 0 <=> ttl[s] > 1)
    BY <2>1 DEF Less
  <2>3. CASE ttl[s] > 1
    <3>1. store'[s] = Older(store[s]) /\ store[s] \in Session
      <4>1. ttl[s] > 0
        BY <2>1, <2>3
      <4>2. store[s] \in Session
        BY <1>2, <4>1
      <4> QED BY <1>1, <2>3, <4>2
    <3> QED BY <2>1, <2>2, <2>3, <3>1, OlderFacts
  <2>4. CASE ~(ttl[s] > 1)
    BY <1>1, <2>2, <2>4
  <2> QED BY <2>3, <2>4
<1>4. ASSUME NEW p \in Procs, req[p] # None
      PROVE  /\ req'[p] \in Request /\ req'[p] # None
             /\ req'[p].obj = Older(req[p].obj)
             /\ req'[p].step = "resync" => req'[p].aged
             /\ req'[p].op = req[p].op /\ req'[p].sid = req[p].sid /\ req'[p].step = req[p].step
             /\ req'[p].left = req[p].left /\ req'[p].list = req[p].list
             /\ req'[p].known = req[p].known
  <2>1. req[p] \in Request /\ req[p].obj \in Session \cup {None}
    BY <1>2, <1>4 DEF Request
  <2>2. PICK a \in BOOLEAN : a = (req[p].step = "resync")
    OBVIOUS
  <2>3. PICK obj \in Session \cup {None} : obj = Older(req[p].obj)
    BY <2>1, OlderFacts
  <2>4. req'[p] = [req[p] EXCEPT !.obj = obj, !.aged = a]
    BY <1>1, <1>4, <2>2, <2>3
  <2>5. req'[p] \in Request
    BY <2>1, <2>4 DEF Request
  <2>6. /\ req'[p].obj = obj /\ req'[p].op = req[p].op /\ req'[p].sid = req[p].sid
        /\ req'[p].step = req[p].step /\ req'[p].left = req[p].left
        /\ req'[p].list = req[p].list /\ req'[p].known = req[p].known
    BY <2>1, <2>4 DEF Request
  <2>7. req'[p].aged = a
    BY <2>1, <2>4 DEF Request
  <2>8. req'[p].step = "resync" => req'[p].aged
    BY <2>2, <2>6, <2>7
  <2> QED BY <2>3, <2>5, <2>6, <2>8
<1>5. \A p \in Procs : req[p] = None => req'[p] = None
  BY <1>1
<1>6. RbacSafe' /\ load' = load /\ kept' = kept /\ crossed' = crossed
  BY <1>1, RbacRests
<1>7. TypeOK'
  <2>1. req' \in [Procs -> Request \cup {None}]
    <3>1. \A p \in Procs : req'[p] \in Request \cup {None}
      BY <1>4, <1>5
    <3> QED BY <1>1, <3>1
  <2>2. store' \in [Sids -> Session \cup {None}] /\ ttl' \in [Sids -> 0..MaxTtl]
    BY <1>1, <1>3
  <2>3. \A p \in Procs : load'[p] # None => req'[p] # None
    BY <1>4, <1>6 DEF SessionsSafe, TypeOK
  <2> QED BY <1>1, <1>3, <1>6, <2>1, <2>2, <2>3 DEF SessionsSafe, TypeOK, RbacSafe
<1>8. ASSUME NEW p \in Procs, req'[p] # None PROVE StepFits(req[p])' /\ CopyFits(req[p])'
  <2>1. req[p] # None
    BY <1>5, <1>8
  <2>2. /\ StepFits(req[p]) /\ CopyFits(req[p]) /\ req[p].sid \in Sids
        /\ req[p].obj \in Session \cup {None}
    BY <1>2, <2>1 DEF SessionsSafe, Request
  <2>3. /\ req'[p].obj = None <=> req[p].obj = None
        /\ req[p].obj # None => /\ req'[p].obj.token = req[p].obj.token
                                /\ req'[p].obj.user = req[p].obj.user
                                /\ req'[p].obj.max = Less(req[p].obj.max)
                                /\ req'[p].obj.expires = Less(req[p].obj.expires)
    BY <1>4, <2>1, <2>2, OlderFacts
  <2>4. StepFits(req[p])'
    <3>1. req[p].step \in Synced => req[p].obj # None
      BY <2>2 DEF StepFits, Synced, Without
    <3> QED BY <1>1, <1>4, <1>6, <2>1, <2>2, <2>3, <3>1 DEF StepFits, Fresh
  <2>5. CopyFits(req[p])'
    <3>0. req[p].obj # None => req[p].obj.max \in Nat /\ req[p].obj.expires \in Nat
      BY <2>2 DEF Session
    <3>1. store'[req[p].sid] # None =>
             /\ store[req[p].sid] # None
             /\ store'[req[p].sid].max = Less(store[req[p].sid].max)
      <4>1. store'[req[p].sid] # None =>
               /\ store[req[p].sid] \in Session /\ store[req[p].sid] # None
               /\ store'[req[p].sid] = Older(store[req[p].sid])
        BY <1>3, <2>2
      <4> QED BY <4>1, OlderFacts
    <3>2. req[p].op # "login" /\ req[p].obj # None => req'[p].obj.expires <= req'[p].obj.max
      BY <2>2, <2>3, <3>0, LessFacts DEF CopyFits
    <3>3. ~(req'[p].step = "resync" /\ ~req'[p].aged)
      BY <1>4, <2>1
    <3>4. /\ UNCHANGED <<issued, ended, exposed, overlapped>>
          /\ req'[p].op = req[p].op /\ req'[p].sid = req[p].sid /\ req'[p].list = req[p].list
      BY <1>1, <1>4, <2>1
    <3>5. /\ req'[p].op # "login" => issued'[req'[p].sid] > 0
          /\ \A s \in req'[p].list : issued'[s] > 0
      BY <2>2, <3>4 DEF CopyFits
    <3>6. req'[p].op # "login" /\ req'[p].obj # None =>
             /\ req'[p].sid \notin overlapped' => req'[p].obj.token = issued'[req'[p].sid]
             /\ req'[p].sid \notin ended' \ exposed'
             /\ store'[req'[p].sid] # None => store'[req'[p].sid].max = req'[p].obj.max
      BY <2>2, <2>3, <3>1, <3>4 DEF CopyFits
    <3> QED BY <2>3, <3>2, <3>3, <3>4, <3>5, <3>6 DEF CopyFits
  <2> QED BY <2>4, <2>5
<1>9. ASSUME NEW p \in Procs, NEW q \in Procs, p # q, req'[p] # None, req'[q] # None
      PROVE  PairFits(req[p], req[q])'
  <2>1. req[p] # None /\ req[q] # None
    BY <1>5, <1>9
  <2>2. /\ PairFits(req[p], req[q]) /\ req[p].obj \in Session \cup {None}
        /\ req[q].obj \in Session \cup {None}
    BY <1>2, <1>9, <2>1 DEF SessionsSafe, Request
  <2>3. /\ req'[p].obj # None => req[p].obj # None /\ req'[p].obj.max = Less(req[p].obj.max)
        /\ req'[q].obj # None => req[q].obj # None /\ req'[q].obj.max = Less(req[q].obj.max)
    BY <1>4, <2>1, <2>2, OlderFacts
  <2> QED BY <1>4, <2>1, <2>2, <2>3 DEF PairFits
<1>10. ASSUME NEW s \in Sids PROVE StoreFits(s)'
  <2>1. store'[s] # None => /\ store[s] # None /\ store'[s].token = store[s].token
                            /\ store'[s].max = Less(store[s].max)
                            /\ store'[s].expires = Less(store[s].expires)
                            /\ ttl'[s] = Less(ttl[s])
                            /\ store[s].max \in Nat /\ store[s].expires \in Nat /\ ttl[s] \in Nat
    BY <1>2, <1>3, OlderFacts DEF Session
  <2>2. StoreFits(s)
    BY <1>2
  <2>3. store[s] = None => store'[s] = None
    BY <2>1
  <2> QED BY <1>1, <2>1, <2>2, <2>3, LessFacts DEF StoreFits
<1>11. \A p \in Procs : LoadFits(load[p], req[p])'
  <2>1. ASSUME NEW p \in Procs PROVE LoadFits(load'[p], req'[p])
    <3>1. CASE req[p] = None
      BY <1>5, <1>6, <3>1 DEF SessionsSafe, LoadFits
    <3>2. CASE req[p] # None
      BY <1>4, <1>6, <3>2 DEF SessionsSafe, LoadFits
    <3> QED BY <3>1, <3>2
  <2> QED BY <2>1 DEF LoadFits
<1> QED BY <1>6, <1>7, <1>8, <1>9, <1>10, <1>11 DEF SessionsSafe

-----------------------------------------------------------------------------
(* Every step.                                                             *)

\* Whatever a step of a session does to the three copies is a step of theirs.
LEMMA StepsOnRbac == setup \in Setups /\ Next => RbacStep \/ UNCHANGED rbac
<1> SUFFICES ASSUME setup \in Setups, Next PROVE RbacStep \/ UNCHANGED rbac
  OBVIOUS
<1>1. ASSUME NEW p \in Procs, SubmitLogin(p) PROVE Begins
  BY <1>1 DEF SubmitLogin, Begins
<1>2. ASSUME NEW p \in Procs, LoadUser(p) PROVE Begins
  BY <1>2 DEF LoadUser, Begins
<1>3. ASSUME NEW p \in Procs, BeginChange(p) PROVE Begins \/ UNCHANGED rbac
  <2>1. UNCHANGED <<state, cache, tables, version, queue, rewrite, faults, made, kept>>
    BY <1>3 DEF BeginChange
  <2>2. CASE UNCHANGED <<load, crossed>>
    BY <2>1, <2>2 DEF rbac
  <2>3. ASSUME NEW c \in setup.changes, BeginLoad(p, c) PROVE Begins
    BY <2>1, <2>3 DEF Begins
  <2> QED BY <1>3, <2>2, <2>3 DEF BeginChange
<1>4. ASSUME NEW p \in Procs, FetchUser(p) \/ HaveUser(p) \/ MakeChange(p)
      PROVE  Fetches \/ Acts
  BY <1>4 DEF FetchUser, HaveUser, MakeChange, Fetches, Acts
<1>5. ASSUME NEW p \in Procs,
             \/ Submit(p) \/ Find(p) \/ ReadTtl(p) \/ Extend(p) \/ Rotate(p) \/ Logout(p)
             \/ Create(p) \/ Resync(p) \/ View(p) \/ Kick(p) \/ ListSessions(p) \/ EndListed(p)
      PROVE  UNCHANGED rbac
  BY <1>5 DEF Submit, Find, ReadTtl, Extend, Rotate, Logout, Create, Resync, View, Kick, ListSessions,
     EndListed
<1>6. Tick => UNCHANGED rbac
  BY DEF Tick
<1>7. Crash => RbacCrash
  BY DEF Crash
<1>8. LoseRedis => LoseSnapshot
  BY DEF LoseRedis
<1>9. ASSUME NEW p \in Procs, RequestStep(p) PROVE RbacStep \/ UNCHANGED rbac
  BY <1>2, <1>3, <1>4, <1>5, <1>9 DEF RequestStep, RbacStep
<1> QED BY <1>1, <1>5, <1>6, <1>7, <1>8, <1>9 DEF Next, RbacStep

LEMMA RequestStepSafe ==
  ASSUME SessionsSafe, NEW p \in Procs, RequestStep(p), RbacSafe',
         kept \subseteq kept', crossed \subseteq crossed'
  PROVE  SessionsSafe'
BY FindSafe, ReadTtlSafe, ExtendSafe, RotateSafe, LogoutSafe, LoadUserSafe, FetchUserSafe,
   HaveUserSafe, CreateSafe, ResyncSafe, ViewSafe, KickSafe, BeginChangeSafe, MakeChangeSafe,
   ListSessionsSafe, EndListedSafe
   DEF RequestStep

LEMMA SessionsSafeStep == SessionsSafe /\ [Next]_vars => SessionsSafe'
<1> SUFFICES ASSUME SessionsSafe, [Next]_vars PROVE SessionsSafe'
  OBVIOUS
<1>1. CASE UNCHANGED vars
  <2>1. UNCHANGED <<rbac, setup, store, ttl, req, issued, ended, exposed, overlapped, drifted>>
    BY <1>1 DEF vars, sessions, records, sessionHistory
  <2>2. RbacSafe' /\ kept' = kept /\ crossed' = crossed /\ load' = load
    BY <2>1, RbacRests
  <2>3. TypeOK'
    BY <2>1, <2>2 DEF SessionsSafe, TypeOK, RbacSafe
  <2> QED BY <2>1, <2>2, <2>3
          DEF SessionsSafe, StepFits, CopyFits, PairFits, LoadFits, StoreFits, Fresh
<1>2. CASE Next
  <2>1. RbacStep \/ UNCHANGED rbac
    BY <1>2, StepsOnRbac DEF SessionsSafe, TypeOK
  <2>2. RbacSafe' /\ kept \subseteq kept' /\ crossed \subseteq crossed'
    BY <2>1, RbacSafeStep, HistoryGrows DEF SessionsSafe
  <2>3. ASSUME NEW p \in Procs, SubmitLogin(p) \/ Submit(p) \/ RequestStep(p) PROVE SessionsSafe'
    BY <2>2, <2>3, SubmitLoginSafe, SubmitSafe, RequestStepSafe
  <2>4. CASE RewriteStep /\ UNCHANGED sessions
    BY <2>2, <2>4, RewriteSessionsSafe
  <2>5. CASE RewriteFails /\ UNCHANGED sessions
    BY <2>2, <2>5, RewriteSessionsSafe
  <2>6. CASE Crash
    BY <2>2, <2>6, CrashSafe
  <2>7. CASE LoseRedis
    BY <2>2, <2>7, LoseRedisSafe
  <2>8. CASE Tick
    BY <2>8, TickSafe
  <2> QED BY <1>2, <2>3, <2>4, <2>5, <2>6, <2>7, <2>8 DEF Next
<1> QED BY <1>1, <1>2

LEMMA SessionsInvariant == Spec => []SessionsSafe
BY SessionsInitSafe, SessionsSafeStep, PTL DEF Spec

-----------------------------------------------------------------------------
(* What follows of it.                                                     *)

LEMMA SessionsSafeHolds ==
  SessionsSafe => /\ CalmChangesKept /\ SnapshotIsCurrent /\ FreshUser
                  /\ EndedStaysEnded /\ TokenIsLatest /\ NoLongerThanMax
<1> SUFFICES ASSUME SessionsSafe
             PROVE  /\ CalmChangesKept /\ SnapshotIsCurrent /\ FreshUser
                    /\ EndedStaysEnded /\ TokenIsLatest /\ NoLongerThanMax
  OBVIOUS
<1>1. CalmChangesKept /\ SnapshotIsCurrent
  BY RbacSafeHolds DEF SessionsSafe
<1>2. FreshUser
  BY DEF SessionsSafe, StepFits, Synced, Fresh, FreshUser
<1>3. ended \subseteq Sids /\ \A s \in Sids : StoreFits(s)
  BY DEF SessionsSafe, TypeOK
<1>4. EndedStaysEnded /\ TokenIsLatest /\ NoLongerThanMax
  BY <1>3 DEF StoreFits, EndedStaysEnded, TokenIsLatest, NoLongerThanMax
<1> QED BY <1>1, <1>2, <1>4

\* Sessions, requests and the three copies hold what they are meant to, and a
\* record in Redis has time left exactly as long as it is there (SessionService,
\* SessionRepository.save).
THEOREM SessionsTypeCorrect == Spec => []TypeOK
<1>1. SessionsSafe => TypeOK
  BY DEF SessionsSafe
<1> QED BY <1>1, SessionsInvariant, PTL

\* Under requests with sessions too, an answered change during which no other
\* request loaded is in the tables (wrapPersistentMutation).
THEOREM SessionChangesAreKept == Spec => []CalmChangesKept
BY SessionsInvariant, SessionsSafeHolds, PTL

\* And in every snapshot that passes for current (isRuntimeStateStale).
THEOREM SessionSnapshotsAreCurrent == Spec => []SnapshotIsCurrent
BY SessionsInvariant, SessionsSafeHolds, PTL

\* The guard lets a request pass with the user as it was when the request came,
\* or newer, but for crossed changes (getCurrentUser, syncSessionUser).
THEOREM UsersAreFresh == Spec => []FreshUser
BY SessionsInvariant, SessionsSafeHolds, PTL

\* A session ended while nobody else had found it never comes back, though
\* extending, refreshing and syncing all store a session without looking
\* whether it is still there (invalidateSession against save).
THEOREM EndedStay == Spec => []EndedStaysEnded
BY SessionsInvariant, SessionsSafeHolds, PTL

\* The refresh token that is stored is the one given out last, where refreshes
\* did not overlap another request's copy (refreshSession).
THEOREM TokensAreLatest == Spec => []TokenIsLatest
BY SessionsInvariant, SessionsSafeHolds, PTL

\* However often a session is extended, refreshed and synced, its time in Redis
\* ends with its maximum, if no time was stored that was read a while before
\* (refreshSessionIfNeeded, syncSessionUser).
THEOREM MaximumIsKept == Spec => []NoLongerThanMax
BY SessionsInvariant, SessionsSafeHolds, PTL
=============================================================================
