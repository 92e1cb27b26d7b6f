----------------------------- MODULE DocumentProofs -----------------------------
(***************************************************************************)
(* What the stock commands and the writes of a document leave alone, for   *)
(* any transaction: none of them touches a column of its documents (After),*)
(* and what a document writes stays in its columns (Wrote).  Every loop    *)
(* over stock commands is an instance of FoldInduction.                    *)
(***************************************************************************)
EXTENDS Documents, SumsOverSets

StockFields == {"qty", "ver", "logs", "usage"}

\* A store: a record that has at least the fields of the stock, finite.
IsStore(st) ==
    /\ StockFields \subseteq DOMAIN st
    /\ IsFiniteSet(st.logs) /\ \A l \in st.logs : l.id \in Nat
    /\ IsFiniteSet(DOMAIN st.usage) /\ \A k \in DOMAIN st.usage : k[3] \in Nat

SameRest(a, b) ==
    /\ DOMAIN a = DOMAIN b
    /\ \A x \in DOMAIN a \ StockFields : a[x] = b[x]

IsTxn(t) == DOMAIN t = {"v", "c", "ok", "dup"} /\ IsStore(t.v) /\ IsStore(t.c)

\* What every stock command leaves alone.
After(t, u) ==
    /\ IsTxn(u)
    /\ SameRest(t.v, u.v) /\ SameRest(t.c, u.c)
    /\ u.ok => t.ok

LEMMA AfterItself == ASSUME NEW t, IsTxn(t) PROVE After(t, t)
BY DEF After, SameRest

LEMMA AfterAfter == ASSUME NEW t, NEW u, NEW w, After(t, u), After(u, w) PROVE After(t, w)
BY DEF After, SameRest

\* What a change of the fields of a transaction does to it.
LEMMA TxnForms ==
  ASSUME NEW t, IsTxn(t)
  PROVE  /\ After(t, Fail(t)) /\ ~Fail(t).ok
         /\ \A d : After(t, [t EXCEPT !.dup = d]) /\ [t EXCEPT !.dup = d].dup = d
<1>1. /\ DOMAIN Fail(t) = DOMAIN t
      /\ Fail(t).v = t.v /\ Fail(t).c = t.c /\ Fail(t).ok = FALSE /\ Fail(t).dup = t.dup
  BY DEF IsTxn, Fail
<1>2. ASSUME NEW d
      PROVE  /\ DOMAIN [t EXCEPT !.dup = d] = DOMAIN t
             /\ [t EXCEPT !.dup = d].v = t.v /\ [t EXCEPT !.dup = d].c = t.c 
             /\ [t EXCEPT !.dup = d].ok = t.ok /\ [t EXCEPT !.dup = d].dup = d
  BY DEF IsTxn
<1> QED BY <1>1, <1>2 DEF After, IsTxn, SameRest

LEMMA BothForms ==
  ASSUME NEW t, IsTxn(t), NEW v, NEW c, NEW u, u = [t EXCEPT !.v = v, !.c = c],
         IsStore(v), IsStore(c), SameRest(t.v, v), SameRest(t.c, c)
  PROVE  /\ u.v = v /\ u.c = c /\ u.ok = t.ok /\ u.dup = t.dup
         /\ After(t, u)
<1>1. DOMAIN u = DOMAIN t /\ u.v = v /\ u.c = c /\ u.ok = t.ok /\ u.dup = t.dup
  BY DEF IsTxn
<1> QED BY <1>1 DEF After, IsTxn

LEMMA BalanceForm ==
  ASSUME NEW st, IsStore(st), NEW q, NEW n, NEW w, w = [st EXCEPT !.qty = q, !.ver = n]
  PROVE  /\ IsStore(w) /\ SameRest(st, w)
         /\ w.qty = q /\ w.ver = n /\ w.logs = st.logs /\ w.usage = st.usage
BY DEF IsStore, StockFields, SameRest

LEMMA LogsForm ==
  ASSUME NEW st, IsStore(st), NEW L, IsFiniteSet(L), \A l \in L : l.id \in Nat,
         NEW w, w = [st EXCEPT !.logs = L]
  PROVE  /\ IsStore(w) /\ SameRest(st, w)
         /\ w.qty = st.qty /\ w.ver = st.ver /\ w.logs = L /\ w.usage = st.usage
BY DEF IsStore, StockFields, SameRest

LEMMA UsageForm ==
  ASSUME NEW st, IsStore(st), NEW U, IsFiniteSet(DOMAIN U), \A k \in DOMAIN U : k[3] \in Nat,
         NEW w, w = [st EXCEPT !.usage = U]
  PROVE  /\ IsStore(w) /\ SameRest(st, w)
         /\ w.qty = st.qty /\ w.ver = st.ver /\ w.logs = st.logs /\ w.usage = U
BY DEF IsStore, StockFields, SameRest

LEMMA MoveBalanceForm ==
  ASSUME NEW t, IsTxn(t), NEW x, NEW u, u = MoveBalance(t, x)
  PROVE  /\ After(t, u)
         /\ ~SameVersion(t) => u = Fail(t)
         /\ SameVersion(t) =>
               /\ u.v = [t.v EXCEPT !.qty = t.v.qty + x, !.ver = t.c.ver + 1]
               /\ u.c = [t.c EXCEPT !.qty = t.v.qty + x, !.ver = t.c.ver + 1]
               /\ u.ok = t.ok /\ u.dup = t.dup
<1>1. CASE ~SameVersion(t)
  BY <1>1, TxnForms DEF MoveBalance
<1>2. CASE SameVersion(t)
  <2>1. PICK q, n : q = t.v.qty + x /\ n = t.c.ver + 1
    OBVIOUS
  <2>2. PICK v, c : /\ v = [t.v EXCEPT !.qty = q, !.ver = n]
                    /\ c = [t.c EXCEPT !.qty = q, !.ver = n]
    OBVIOUS
  <2>3. MoveBalance(t, x) = [t EXCEPT !.v = v, !.c = c]
    BY <1>2, <2>1, <2>2 DEF MoveBalance, Both
  <2>4. IsStore(v) /\ IsStore(c) /\ SameRest(t.v, v) /\ SameRest(t.c, c)
    <3>1. IsStore(t.v) /\ IsStore(t.c)
      BY DEF IsTxn
    <3>2. IsStore(v) /\ SameRest(t.v, v)
      <4>1. v = [t.v EXCEPT !.qty = q, !.ver = n]
        BY <2>2
      <4> QED BY <3>1, <4>1, BalanceForm, Zenon
    <3>3. IsStore(c) /\ SameRest(t.c, c)
      <4>1. c = [t.c EXCEPT !.qty = q, !.ver = n]
        BY <2>2
      <4> QED BY <3>1, <4>1, BalanceForm, Zenon
    <3> QED BY <3>2, <3>3
  <2>5. /\ u.v = v /\ u.c = c /\ u.ok = t.ok /\ u.dup = t.dup
        /\ After(t, u)
    <3>1. u = [t EXCEPT !.v = v, !.c = c]
      BY <2>3
    <3> QED BY <2>4, <3>1, BothForms, Zenon
  <2> QED BY <1>2, <2>1, <2>2, <2>5
<1> QED BY <1>1, <1>2

LEMMA AddLogForm ==
  ASSUME NEW t, IsTxn(t), NEW x, "id" \in DOMAIN x, NEW u, u = AddLog(t, x)
  PROVE  /\ After(t, u)
         /\ \E log : /\ log = [x EXCEPT !.id = Cardinality(t.c.logs) + 1]
                     /\ u.v = [t.v EXCEPT !.logs = t.v.logs \cup {log}]
                     /\ u.c = [t.c EXCEPT !.logs = t.c.logs \cup {log}]
         /\ u.ok = t.ok /\ u.dup = t.dup
<1>1. PICK log : log = [x EXCEPT !.id = Cardinality(t.c.logs) + 1]
  OBVIOUS
<1>2. PICK v, c : /\ v = [t.v EXCEPT !.logs = t.v.logs \cup {log}]
                  /\ c = [t.c EXCEPT !.logs = t.c.logs \cup {log}]
  OBVIOUS
<1>3. AddLog(t, x) = [t EXCEPT !.v = v, !.c = c]
  BY <1>1, <1>2 DEF AddLog, Both
<1>4. IsFiniteSet(t.v.logs \cup {log}) /\ IsFiniteSet(t.c.logs \cup {log})
  BY FS_AddElement DEF IsTxn, IsStore
<1>5. log.id \in Nat
  <2>1. Cardinality(t.c.logs) \in Nat
    BY FS_CardinalityType DEF IsTxn, IsStore
  <2>2. log.id = Cardinality(t.c.logs) + 1
    BY <1>1
  <2> QED BY <2>1, <2>2
<1>6. /\ \A l \in t.v.logs \cup {log} : l.id \in Nat
      /\ \A l \in t.c.logs \cup {log} : l.id \in Nat
  BY <1>5 DEF IsTxn, IsStore
<1>7. IsStore(v) /\ IsStore(c) /\ SameRest(t.v, v) /\ SameRest(t.c, c)
  BY <1>2, <1>4, <1>6, LogsForm DEF IsTxn
<1>8. /\ u.v = v /\ u.c = c /\ u.ok = t.ok /\ u.dup = t.dup
      /\ After(t, u)
  <2>1. u = [t EXCEPT !.v = v, !.c = c]
    BY <1>3
  <2> QED BY <1>7, <2>1, BothForms, Zenon
<1> QED BY <1>1, <1>2, <1>8

LEMMA MoveAfter == ASSUME NEW t, IsTxn(t), NEW x PROVE After(t, MoveBalance(t, x))
BY MoveBalanceForm

\* What stays with any of the stock commands: none of them touches a column of
\* its documents, none of them hides an earlier failure.
LEMMA IncreaseStockAfter ==
  ASSUME NEW t, IsTxn(t), NEW x, "id" \in DOMAIN x
  PROVE  After(t, IncreaseStock(t, x))
<1>1. After(t, MoveBalance(t, x.change))
  BY MoveBalanceForm
<1>2. After(t, AddLog(MoveBalance(t, x.change), x))
  <2>1. IsTxn(MoveBalance(t, x.change))
    BY <1>1 DEF After
  <2>2. After(MoveBalance(t, x.change), AddLog(MoveBalance(t, x.change), x))
    BY <2>1, AddLogForm
  <2> QED BY <1>1, <2>2, AfterAfter
<1> QED BY <1>1, <1>2, AfterItself DEF IncreaseStock

LEMMA PostLogFirstAfter ==
  ASSUME NEW t, IsTxn(t), NEW x, "id" \in DOMAIN x, NEW taken
  PROVE  After(t, PostLogFirst(t, x, taken))
<1>1. After(t, AddLog(t, x))
  BY AddLogForm
<1>2. After(t, MoveBalance(AddLog(t, x), x.change))
  <2>1. IsTxn(AddLog(t, x))
    BY <1>1 DEF After
  <2>2. After(AddLog(t, x), MoveBalance(AddLog(t, x), x.change))
    BY <2>1, MoveAfter
  <2> QED BY <1>1, <2>2, AfterAfter
<1> QED BY <1>2, AfterItself, TxnForms DEF PostLogFirst

LEMMA ReverseStockAfter ==
  ASSUME NEW t, IsTxn(t), NEW id, NEW key
  PROVE  After(t, ReverseStock(t, id, key))
<1>1. PICK src : src = LogOf(t.v, id)
  OBVIOUS
<1>2. PICK x : x = [Posting(key, src.doc, src.line, 0 - src.change, src.price,
                            FALSE, src.pieces) EXCEPT !.rev = id]
  OBVIOUS
<1>3. "id" \in DOMAIN x
  BY <1>2 DEF Posting
<1>4. After(t, PostLogFirst(t, x, HasKey(t.c, key) \/ Reversed(t.c, id)))
  BY <1>3, PostLogFirstAfter
<1> QED BY <1>1, <1>2, <1>4, AfterItself DEF ReverseStock

LEMMA AllocateAfter ==
  ASSUME NEW t, IsTxn(t), NEW key, key[3] \in Nat, NEW qty
  PROVE  After(t, AllocateInventorySource(t, key, qty))
<1>1. PICK row : row = [alloc |-> qty, rel |-> 0, open |-> TRUE]
  OBVIOUS
<1>2. PICK v, c : /\ v = [t.v EXCEPT !.usage = Put(t.v.usage, key, row)]
                  /\ c = [t.c EXCEPT !.usage = Put(t.c.usage, key, row)]
  OBVIOUS
<1>3. ASSUME NEW U, IsFiniteSet(DOMAIN U), \A k \in DOMAIN U : k[3] \in Nat
      PROVE  /\ IsFiniteSet(DOMAIN Put(U, key, row))
             /\ \A k \in DOMAIN Put(U, key, row) : k[3] \in Nat
  <2>1. DOMAIN Put(U, key, row) = DOMAIN U \cup {key}
    BY DEF Put
  <2> QED BY <1>3, <2>1, FS_AddElement
<1>4. IsStore(v) /\ IsStore(c) /\ SameRest(t.v, v) /\ SameRest(t.c, c)
  <2>1. IsStore(t.v) /\ IsStore(t.c)
    BY DEF IsTxn
  <2>2. /\ IsFiniteSet(DOMAIN Put(t.v.usage, key, row))
        /\ \A k \in DOMAIN Put(t.v.usage, key, row) : k[3] \in Nat
        /\ IsFiniteSet(DOMAIN Put(t.c.usage, key, row))
        /\ \A k \in DOMAIN Put(t.c.usage, key, row) : k[3] \in Nat
    BY <1>3, <2>1 DEF IsStore
  <2> QED BY <1>2, <2>1, <2>2, UsageForm
<1>5. PICK u : u = [t EXCEPT !.v = v, !.c = c]
  OBVIOUS
<1>6. After(t, u)
  BY <1>4, <1>5, BothForms, Zenon
<1>7. CASE t.v.usage[key].rel # t.v.usage[key].alloc /\ key \in DOMAIN t.v.usage
  BY <1>7, TxnForms DEF AllocateInventorySource
<1>8. CASE key \notin DOMAIN t.v.usage /\ key \in DOMAIN t.c.usage
  BY <1>8, TxnForms DEF AllocateInventorySource
<1>9. CASE /\ ~(t.v.usage[key].rel # t.v.usage[key].alloc /\ key \in DOMAIN t.v.usage)
           /\ ~(key \notin DOMAIN t.v.usage /\ key \in DOMAIN t.c.usage)
  <2>1. AllocateInventorySource(t, key, qty) = [t EXCEPT !.v = v, !.c = c]
    BY <1>1, <1>2, <1>9 DEF AllocateInventorySource, Both
  <2> QED BY <1>5, <1>6, <2>1
<1> QED BY <1>7, <1>8, <1>9

LEMMA ReleaseAfter ==
  ASSUME NEW t, IsTxn(t), NEW key, NEW target
  PROVE  After(t, ReleaseInventorySource(t, key, target))
<1>1. PICK row, now : /\ row = t.v.usage[key]
                      /\ now = [t.c.usage[key] EXCEPT !.rel = NextReleased(row, target),
                                                      !.open = target # row.alloc]
  OBVIOUS
<1>2. PICK v, c : /\ v = [t.v EXCEPT !.usage = [t.v.usage EXCEPT ![key] = now]]
                  /\ c = [t.c EXCEPT !.usage = [t.c.usage EXCEPT ![key] = now]]
  OBVIOUS
<1>3. IsStore(v) /\ IsStore(c) /\ SameRest(t.v, v) /\ SameRest(t.c, c)
  <2>1. /\ DOMAIN [t.v.usage EXCEPT ![key] = now] = DOMAIN t.v.usage
        /\ DOMAIN [t.c.usage EXCEPT ![key] = now] = DOMAIN t.c.usage
    OBVIOUS
  <2>2. IsStore(t.v) /\ IsStore(t.c)
    BY DEF IsTxn
  <2>3. PICK U, W : U = [t.v.usage EXCEPT ![key] = now] /\ W = [t.c.usage EXCEPT ![key] = now]
    OBVIOUS
  <2>4. /\ IsFiniteSet(DOMAIN U) /\ \A k \in DOMAIN U : k[3] \in Nat
        /\ IsFiniteSet(DOMAIN W) /\ \A k \in DOMAIN W : k[3] \in Nat
    BY <2>1, <2>2, <2>3 DEF IsStore
  <2> QED BY <1>2, <2>2, <2>3, <2>4, UsageForm
<1>4. PICK u : u = [t EXCEPT !.v = v, !.c = c]
  OBVIOUS
<1>5. After(t, u)
  BY <1>3, <1>4, BothForms, Zenon
<1>6. u = Both(t, LAMBDA st : [st EXCEPT !.usage[key] = now])
  BY <1>2, <1>4 DEF Both
<1> QED BY <1>1, <1>5, <1>6, AfterItself, TxnForms DEF ReleaseInventorySource

-----------------------------------------------------------------------------
(* Loops over the stock commands.  Each is an instance of FoldInduction,   *)
(* with its body and what the body depends on.                             *)

StaysAfter(a, b, c, d, e, base, K, acc) == After(base, acc)
StaysAfterT(a, b, c, d, e, base, K, acc) == After(base.t, acc.t)

TakeStep(doc, line, c, d, e, acc, id) ==
    LET take == Min({acc.left, Available(acc.t.v, id)})
    IN  IF acc.left = 0 \/ ~acc.t.ok \/ acc.t.dup THEN acc
        ELSE [t |-> AllocateInventorySource(acc.t, <<doc, line, id>>, take),
              left |-> acc.left - take]
Takes == INSTANCE FoldInduction WITH Step <- TakeStep, Final <- Max, Holds <- StaysAfterT

LEMMA TakesAfter ==
  ASSUME NEW doc, NEW line, NEW base, IsTxn(base.t), NEW S, IsFiniteSet(S), S \subseteq Nat
  PROVE  After(base.t, Takes!Over(doc, line, 0, 0, 0, base, S).t)
<1>1. \A T \in SUBSET S : T # {} => Max(T) \in T
  BY LastOfSome, FS_Subset
<1>2. StaysAfterT(doc, line, 0, 0, 0, base, {}, base)
  BY AfterItself DEF StaysAfterT
<1>3. ASSUME NEW T \in SUBSET S, NEW acc, T # {},
             StaysAfterT(doc, line, 0, 0, 0, base, T \ {Max(T)}, acc)
      PROVE  StaysAfterT(doc, line, 0, 0, 0, base, T, TakeStep(doc, line, 0, 0, 0, acc, Max(T)))
  <2>1. PICK id \in Nat : id = Max(T)
    BY <1>1, <1>3
  <2>2. After(base.t, acc.t) /\ IsTxn(acc.t)
    BY <1>3 DEF StaysAfterT, After
  <2>3. PICK take, key : take = Min({acc.left, Available(acc.t.v, id)}) /\ key = <<doc, line, id>>
    OBVIOUS
  <2>4. After(acc.t, AllocateInventorySource(acc.t, key, take))
    <3>1. key[3] \in Nat
      BY <2>3
    <3> QED BY <2>2, <3>1, AllocateAfter
  <2>5. After(base.t, AllocateInventorySource(acc.t, key, take))
    BY <2>2, <2>4, AfterAfter
  <2>6. \/ TakeStep(doc, line, 0, 0, 0, acc, id) = acc
        \/ TakeStep(doc, line, 0, 0, 0, acc, id).t = AllocateInventorySource(acc.t, key, take)
    BY <2>3 DEF TakeStep
  <2> QED BY <2>1, <2>2, <2>5, <2>6 DEF StaysAfterT
<1>4. StaysAfterT(doc, line, 0, 0, 0, base, S, Takes!Over(doc, line, 0, 0, 0, base, S))
  <2>1. \A T \in SUBSET S : \A acc :
            T # {} /\ StaysAfterT(doc, line, 0, 0, 0, base, T \ {Max(T)}, acc)
              => StaysAfterT(doc, line, 0, 0, 0, base, T, TakeStep(doc, line, 0, 0, 0, acc, Max(T)))
    BY <1>3
  <2>2. Takes!Founded(S)
    BY FiniteFounded DEF Takes!Founded
  <2> QED BY <1>1, <1>2, <2>1, <2>2, Takes!Induction
<1> QED BY <1>4 DEF StaysAfterT

\* The ids of some logs, and the layers of some usages.
LEMMA IdsOfLogs ==
  ASSUME NEW st, IsStore(st), NEW L, L \subseteq st.logs
  PROVE  /\ IsFiniteSet({l.id : l \in L}) /\ {l.id : l \in L} \subseteq Nat
<1>1. IsFiniteSet(L)
  BY FS_Subset DEF IsStore
<1>2. IsFiniteSet({l.id : l \in L})
  <2>1. PICK f : f = [l \in L |-> l.id]
    OBVIOUS
  <2>2. IsFiniteSet({f[l] : l \in L})
    BY <1>1, <2>1, FiniteImage
  <2>3. {f[l] : l \in L} = {l.id : l \in L}
    BY <2>1
  <2> QED BY <2>2, <2>3
<1> QED BY <1>2 DEF IsStore

LEMMA LayersOfKeys ==
  ASSUME NEW st, IsStore(st), NEW K, K \subseteq DOMAIN st.usage
  PROVE  /\ IsFiniteSet(K)
         /\ IsFiniteSet({k[3] : k \in K}) /\ {k[3] : k \in K} \subseteq Nat
<1>1. IsFiniteSet(K)
  BY FS_Subset DEF IsStore
<1>2. IsFiniteSet({k[3] : k \in K})
  <2>1. PICK f : f = [k \in K |-> k[3]]
    OBVIOUS
  <2>2. IsFiniteSet({f[k] : k \in K})
    BY <1>1, <2>1, FiniteImage
  <2>3. {f[k] : k \in K} = {k[3] : k \in K}
    BY <2>1
  <2> QED BY <2>2, <2>3
<1> QED BY <1>1, <1>2 DEF IsStore

LEMMA AllocateByFifoAfter ==
  ASSUME NEW t, IsTxn(t), NEW doc, NEW line, NEW qty, NEW price
  PROVE  After(t, AllocateByFifo(t, doc, line, qty, price))
<1>1. PICK S : S = {l.id : l \in FifoSources(t.v, price)}
  OBVIOUS
<1>2. IsFiniteSet(S) /\ S \subseteq Nat
  <2>1. FifoSources(t.v, price) \subseteq t.v.logs /\ IsStore(t.v)
    BY DEF FifoSources, IsTxn
  <2> QED BY <1>1, <2>1, IdsOfLogs
<1>3. PICK base : base = [t |-> t, left |-> qty]
  OBVIOUS
<1>4. PICK all : all = Takes!Over(doc, line, 0, 0, 0, base, S)
  OBVIOUS
<1>5. After(t, all.t)
  BY <1>2, <1>3, <1>4, TakesAfter
<1>6. AllocateByFifo(t, doc, line, qty, price)
        = IF all.left > 0 /\ ~all.t.dup THEN Fail(all.t) ELSE all.t
  BY <1>1, <1>3, <1>4 DEF AllocateByFifo, Takes!Over, TakeStep, OldestFirst, InOrder,
                          MapThenFoldSet, Takes!MapThenFoldSet
<1>7. After(t, Fail(all.t))
  BY <1>5, TxnForms, AfterAfter DEF After
<1> QED BY <1>5, <1>6, <1>7

LEMMA AllocateManualSourceAfter ==
  ASSUME NEW t, IsTxn(t), NEW doc, NEW line, NEW qty, NEW price, NEW id
  PROVE  After(t, AllocateManualSource(t, doc, line, qty, price, id))
<1>1. PICK layers : layers = {l \in t.v.logs : /\ l.id = id
                                               /\ price \in {l.price, AnyPrice}
                                               /\ FreeLayer(t.v, l, qty)}
  OBVIOUS
<1>2. CASE layers = {}
  BY <1>1, <1>2, TxnForms DEF AllocateManualSource
<1>3. CASE layers # {}
  <2>1. id \in Nat
    BY <1>1, <1>3 DEF IsTxn, IsStore
  <2>2. PICK key : key = <<doc, line, id>>
    OBVIOUS
  <2>3. key[3] \in Nat
    BY <2>1, <2>2
  <2>4. After(t, AllocateInventorySource(t, key, qty))
    BY <2>3, AllocateAfter
  <2> QED BY <1>1, <1>3, <2>2, <2>4 DEF AllocateManualSource
<1> QED BY <1>2, <1>3

LEMMA SettleAfter ==
  ASSUME NEW t, IsTxn(t), NEW key, NEW doc, NEW line, NEW qty, NEW price, NEW source
  PROVE  After(t, SettleFromSource(t, key, doc, line, qty, price, source))
<1>1. PICK a : a = IF source = NoLog THEN AllocateByFifo(t, doc, line, qty, price)
                   ELSE AllocateManualSource(t, doc, line, qty, price, source)
  OBVIOUS
<1>2. After(t, a) /\ IsTxn(a)
  <2>1. After(t, a)
    BY <1>1, AllocateByFifoAfter, AllocateManualSourceAfter
  <2> QED BY <2>1 DEF After
<1>3. PICK x : x = Posting(key, doc, line, 0 - qty, price, FALSE, <<>>)
  OBVIOUS
<1>4. "id" \in DOMAIN x
  BY <1>3 DEF Posting
<1>5. /\ After(t, PostLogFirst(a, x, HasKey(a.c, key)))
      /\ After(t, Fail(a)) /\ After(t, [a EXCEPT !.dup = FALSE])
  BY <1>2, <1>4, PostLogFirstAfter, TxnForms, AfterAfter
<1>6. \/ SettleFromSource(t, key, doc, line, qty, price, source) = t
      \/ SettleFromSource(t, key, doc, line, qty, price, source) = Fail(a)
      \/ SettleFromSource(t, key, doc, line, qty, price, source) = [a EXCEPT !.dup = FALSE]
      \/ SettleFromSource(t, key, doc, line, qty, price, source)
            = PostLogFirst(a, x, HasKey(a.c, key))
  BY <1>1, <1>3 DEF SettleFromSource
<1> QED BY <1>5, <1>6, AfterItself

ReleaseStep(a, b, c, d, e, acc, k) == ReleaseInventorySource(acc, k, acc.v.usage[k].alloc)
Releases == INSTANCE FoldInduction WITH Step <- ReleaseStep, Final <- Pick, Holds <- StaysAfter

LEMMA ReleaseAllAfter ==
  ASSUME NEW t, IsTxn(t), NEW K, IsFiniteSet(K)
  PROVE  After(t, ReleaseAll(t, K))
<1>1. \A T \in SUBSET K : T # {} => Pick(T) \in T
  BY DEF Pick
<1>2. StaysAfter(0, 0, 0, 0, 0, t, {}, t)
  BY AfterItself DEF StaysAfter
<1>3. ASSUME NEW acc, NEW k, After(t, acc)
      PROVE  After(t, ReleaseStep(0, 0, 0, 0, 0, acc, k))
  <2>1. After(acc, ReleaseInventorySource(acc, k, acc.v.usage[k].alloc))
    BY <1>3, ReleaseAfter DEF After
  <2> QED BY <1>3, <2>1, AfterAfter DEF ReleaseStep
<1>4. \A T \in SUBSET K : \A acc :
          T # {} /\ StaysAfter(0, 0, 0, 0, 0, t, T \ {Pick(T)}, acc)
            => StaysAfter(0, 0, 0, 0, 0, t, T, ReleaseStep(0, 0, 0, 0, 0, acc, Pick(T)))
  BY <1>3 DEF StaysAfter
<1>5. StaysAfter(0, 0, 0, 0, 0, t, K, Releases!Over(0, 0, 0, 0, 0, t, K))
  <2>1. Releases!Founded(K)
    BY FiniteFounded DEF Releases!Founded
  <2> QED BY <1>1, <1>2, <1>4, <2>1, Releases!Induction
<1>6. ReleaseAll(t, K) = Releases!Over(0, 0, 0, 0, 0, t, K)
  BY DEF ReleaseAll, Releases!Over, ReleaseStep, FoldSet, MapThenFoldSet,
         Releases!MapThenFoldSet, Pick
<1> QED BY <1>5, <1>6 DEF StaysAfter

LEMMA ReleaseLineAfter ==
  ASSUME NEW t, IsTxn(t), NEW doc, NEW line
  PROVE  After(t, ReleaseSourceUsagesForLine(t, doc, line))
<1>1. ActiveUsages(t.v, doc, line) \subseteq DOMAIN t.v.usage
  BY DEF ActiveUsages, LineUsages
<1>2. IsFiniteSet(ActiveUsages(t.v, doc, line))
  BY <1>1, LayersOfKeys DEF IsTxn
<1> QED BY <1>2, ReleaseAllAfter DEF ReleaseSourceUsagesForLine

LEMMA ReleaseAllSourceUsagesAfter ==
  ASSUME NEW t, IsTxn(t), NEW doc
  PROVE  After(t, ReleaseAllSourceUsages(t, doc))
<1>1. UNION {ActiveUsages(t.v, doc, k[2]) : k \in DOMAIN t.v.usage} \subseteq DOMAIN t.v.usage
  BY DEF ActiveUsages, LineUsages
<1>2. IsFiniteSet(UNION {ActiveUsages(t.v, doc, k[2]) : k \in DOMAIN t.v.usage})
  BY <1>1, LayersOfKeys DEF IsTxn
<1> QED BY <1>2, ReleaseAllAfter DEF ReleaseAllSourceUsages

UndoStep(d, kind, n, x, y, acc, id) == ReverseStock(acc, id, Key(kind, d, n, id))
Undoes == INSTANCE FoldInduction WITH Step <- UndoStep, Final <- Max, Holds <- StaysAfter

LEMMA UndoesAfter ==
  ASSUME NEW d, NEW kind, NEW n, NEW t, IsTxn(t), NEW S, IsFiniteSet(S), S \subseteq Nat
  PROVE  After(t, Undoes!Over(d, kind, n, 0, 0, t, S))
<1>1. \A T \in SUBSET S : T # {} => Max(T) \in T
  BY LastOfSome, FS_Subset
<1>2. StaysAfter(d, kind, n, 0, 0, t, {}, t)
  BY AfterItself DEF StaysAfter
<1>3. ASSUME NEW acc, NEW id, After(t, acc)
      PROVE  After(t, UndoStep(d, kind, n, 0, 0, acc, id))
  <2>1. After(acc, ReverseStock(acc, id, Key(kind, d, n, id)))
    BY <1>3, ReverseStockAfter DEF After
  <2> QED BY <1>3, <2>1, AfterAfter DEF UndoStep
<1>4. \A T \in SUBSET S : \A acc :
          T # {} /\ StaysAfter(d, kind, n, 0, 0, t, T \ {Max(T)}, acc)
            => StaysAfter(d, kind, n, 0, 0, t, T, UndoStep(d, kind, n, 0, 0, acc, Max(T)))
  BY <1>3 DEF StaysAfter
<1>5. StaysAfter(d, kind, n, 0, 0, t, S, Undoes!Over(d, kind, n, 0, 0, t, S))
  <2>1. Undoes!Founded(S)
    BY FiniteFounded DEF Undoes!Founded
  <2> QED BY <1>1, <1>2, <1>4, <2>1, Undoes!Induction
<1> QED BY <1>5 DEF StaysAfter

LEMMA ReverseAllLogsAfter ==
  ASSUME NEW t, IsTxn(t), NEW d, NEW kind, NEW n
  PROVE  After(t, ReverseAllLogs(t, d, kind, n))
<1>1. PICK S : S = {l.id : l \in OriginalLogs(t.v, d)}
  OBVIOUS
<1>2. IsFiniteSet(S) /\ S \subseteq Nat
  <2>1. OriginalLogs(t.v, d) \subseteq t.v.logs /\ IsStore(t.v)
    BY DEF OriginalLogs, IsTxn
  <2> QED BY <1>1, <2>1, IdsOfLogs
<1>3. After(t, Undoes!Over(d, kind, n, 0, 0, t, S))
  BY <1>2, UndoesAfter
<1>4. ReverseAllLogs(t, d, kind, n)
        = IF S = {} THEN Fail(t) ELSE Undoes!Over(d, kind, n, 0, 0, t, S)
  BY <1>1 DEF ReverseAllLogs, Undoes!Over, UndoStep, OldestFirst, InOrder,
              MapThenFoldSet, Undoes!MapThenFoldSet
<1> QED BY <1>3, <1>4, TxnForms

LEMMA ReverseDocumentAfter ==
  ASSUME NEW t, IsTxn(t), NEW d
  PROVE  After(t, ReverseDocument(t, d))
BY ReverseAllLogsAfter DEF ReverseDocument

LEMMA UndoLineAfter ==
  ASSUME NEW t, IsTxn(t), NEW o, NEW id, NEW kind, NEW n
  PROVE  After(t, UndoLine(t, o, id, kind, n))
<1>1. PICK u : u = ReleaseSourceUsagesForLine(t, o, id)
  OBVIOUS
<1>2. After(t, u) /\ IsTxn(u)
  BY <1>1, ReleaseLineAfter DEF After
<1>3. \A log, key : After(t, ReverseStock(u, log, key))
  BY <1>2, ReverseStockAfter, AfterAfter
<1> QED BY <1>1, <1>3, TxnForms DEF UndoLine

-----------------------------------------------------------------------------
(* What the documents write.                                               *)

\* The two stores differ at most in the fields of F.
SameExcept(F, a, b) ==
    /\ DOMAIN a = DOMAIN b
    /\ \A x \in DOMAIN a \ F : a[x] = b[x]

\* u is t after a write of the fields of F, which are none of the stock.
Wrote(F, t, u) ==
    /\ IsTxn(u)
    /\ SameExcept(F, t.v, u.v) /\ SameExcept(F, t.c, u.c)
    /\ u.ok = t.ok /\ u.dup = t.dup

\* The transaction with other stores.
Having(t, v, c) == [t EXCEPT !.v = v, !.c = c]

LEMMA WriteForms ==
  ASSUME NEW t, IsTxn(t), NEW F, F \cap StockFields = {}, NEW v, NEW c,
         SameExcept(F, t.v, v), SameExcept(F, t.c, c),
         NEW u, u = Having(t, v, c)
  PROVE  u.v = v /\ u.c = c /\ Wrote(F, t, u)
<1>1. DOMAIN u = DOMAIN t /\ u.v = v /\ u.c = c /\ u.ok = t.ok /\ u.dup = t.dup
  BY DEF IsTxn, Having
<1>2. ASSUME NEW a, NEW b, IsStore(a), SameExcept(F, a, b)
      PROVE  IsStore(b)
  <2>1. /\ StockFields \subseteq DOMAIN b
        /\ b.logs = a.logs /\ b.usage = a.usage
    BY <1>2 DEF IsStore, SameExcept, StockFields
  <2> QED BY <1>2, <2>1 DEF IsStore
<1>3. IsStore(v) /\ IsStore(c)
  BY <1>2 DEF IsTxn
<1> QED BY <1>1, <1>3 DEF Wrote, IsTxn

Filed == {"status", "audit", "appr"}

\* A document got another lifecycle status and audit status.
Headed(d, s, x, a, b) ==
    /\ b.status = [a.status EXCEPT ![d] = s]
    /\ b.audit = [a.audit EXCEPT ![d] = x]
    /\ b.appr = [a.appr EXCEPT ![d] = x]

LEMMA FileForm ==
  ASSUME NEW t, IsTxn(t), Filed \subseteq DOMAIN t.c, NEW d, NEW s, NEW x
  PROVE  LET u == File(t, d, s, x) IN Wrote(Filed, t, u) /\ Headed(d, s, x, t.c, u.c)
<1>1. PICK v, c :
          /\ v = [t.v EXCEPT !.status[d] = s, !.audit[d] = x, !.appr[d] = x]
          /\ c = [t.c EXCEPT !.status[d] = s, !.audit[d] = x, !.appr[d] = x]
  OBVIOUS
<1>2. SameExcept(Filed, t.v, v)
  BY <1>1 DEF SameExcept, Filed
<1>3. SameExcept(Filed, t.c, c) /\ Headed(d, s, x, t.c, c)
  BY <1>1 DEF SameExcept, Filed, Headed
<1>4. PICK u : u = Having(t, v, c)
  OBVIOUS
<1>5. File(t, d, s, x) = u
  BY <1>1, <1>4 DEF File, Both, Having
<1>6. Filed \cap StockFields = {}
  BY DEF Filed, StockFields
<1>7. u.c = c /\ Wrote(Filed, t, u)
  BY <1>2, <1>3, <1>4, <1>6, WriteForms
<1> QED BY <1>3, <1>5, <1>7
=============================================================================
