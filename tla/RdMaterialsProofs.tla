-------------------------- MODULE RdMaterialsProofs ---------------------------
(***************************************************************************)
(* The status ledger of the R&D sub-warehouse, for any number of requests, *)
(* documents and processes at a time: the buckets of every procurement     *)
(* request are what its histories in force add up to.  The proof follows   *)
(* the model: sums of histories, what one row does to them, what the       *)
(* operators of the ledger do to a transaction (Runs), what the bodies of  *)
(* the transactions do (Does), and the steps (RdKnown).                    *)
(***************************************************************************)
EXTENDS RdMaterials, DocumentProofs

HistoryFields == {"id", "of", "event", "doc", "from", "to", "qty", "rev", "undone", "log"}

\* A history row: what a transfer or the creation of a request writes.
IsRow(h) ==
    /\ DOMAIN h = HistoryFields
    /\ h.id \in Nat /\ h.rev \in Nat /\ h.qty \in Nat /\ h.undone \in BOOLEAN
    /\ h.of \in Requests /\ h.to \in Statuses /\ h.from \in Statuses \cup {"none"}
    /\ h.from # h.to /\ (h.event = "created" => h.from = "none")
Rows(H) == IsFiniteSet(H) /\ \A h \in H : IsRow(h)

-----------------------------------------------------------------------------
(* Sums of histories and of buckets.                                       *)

AddQty(a, b, c, d, e, acc, h) == h.qty + acc
IsTotal(a, b, c, d, e, base, S, acc) == acc = SumFunctionOnSet(a, S)
Totals == INSTANCE FoldInduction WITH Step <- AddQty, Final <- Pick, Holds <- IsTotal

LEMMA TotalIsSum ==
  ASSUME NEW A, NEW f, f = [h \in A |-> h.qty], NEW S, IsFiniteSet(S), S \subseteq A
  PROVE  TotalOf(S) = SumFunctionOnSet(f, S)
<1>1. TotalOf(S) = Totals!Over(f, 0, 0, 0, 0, 0, S)
  BY DEF TotalOf, MapThenSumSet, MapThenFoldSet, Totals!Over, Totals!MapThenFoldSet, AddQty, Pick
<1>2. IsTotal(f, 0, 0, 0, 0, 0, S, Totals!Over(f, 0, 0, 0, 0, 0, S))
  <2>1. \A T \in SUBSET S : T # {} => Pick(T) \in T
    BY DEF Pick
  <2>2. IsTotal(f, 0, 0, 0, 0, 0, {}, 0)
    BY SumStep, FS_EmptySet DEF IsTotal
  <2>3. \A T \in SUBSET S : \A acc :
            T # {} /\ IsTotal(f, 0, 0, 0, 0, 0, T \ {Pick(T)}, acc)
              => IsTotal(f, 0, 0, 0, 0, 0, T, AddQty(f, 0, 0, 0, 0, acc, Pick(T)))
    <3> SUFFICES ASSUME NEW T \in SUBSET S, NEW acc, T # {},
                        acc = SumFunctionOnSet(f, T \ {Pick(T)})
                 PROVE  Pick(T).qty + acc = SumFunctionOnSet(f, T)
      BY DEF IsTotal, AddQty
    <3>1. IsFiniteSet(T)
      BY FS_Subset
    <3>2. SumFunctionOnSet(f, T) = f[Pick(T)] + SumFunctionOnSet(f, T \ {Pick(T)})
      BY <3>1, SumStep
    <3>3. f[Pick(T)] = Pick(T).qty
      BY <2>1
    <3> QED BY <3>2, <3>3
  <2>4. Totals!Founded(S)
    BY FiniteFounded DEF Totals!Founded
  <2> QED BY <2>1, <2>2, <2>3, <2>4, Totals!Induction
<1> QED BY <1>1, <1>2 DEF IsTotal

LEMMA TotalWith ==
  ASSUME NEW S, IsFiniteSet(S), \A h \in S : h.qty \in Nat
  PROVE  /\ TotalOf({}) = 0 /\ TotalOf(S) \in Int
         /\ \A x : x \notin S /\ x.qty \in Nat => TotalOf(S \cup {x}) = TotalOf(S) + x.qty
         /\ \A x \in S : TotalOf(S \ {x}) = TotalOf(S) - x.qty
<1>1. TotalOf({}) = 0
  <2>1. PICK f : f = [h \in {} |-> h.qty]
    OBVIOUS
  <2>2. TotalOf({}) = SumFunctionOnSet(f, {})
    BY <2>1, TotalIsSum, FS_EmptySet
  <2> QED BY <2>2, SumStep, FS_EmptySet
<1>2. ASSUME NEW T, IsFiniteSet(T), \A h \in T : h.qty \in Nat, NEW x \in T
      PROVE  TotalOf(T) = x.qty + TotalOf(T \ {x}) /\ TotalOf(T) \in Int /\ TotalOf(T \ {x}) \in Int
  <2>1. PICK f : f = [h \in T |-> h.qty]
    OBVIOUS
  <2>2. \A h \in T : f[h] \in Int /\ f[x] = x.qty
    BY <1>2, <2>1
  <2>3. IsFiniteSet(T \ {x})
    BY <1>2, FS_RemoveElement
  <2>4. TotalOf(T) = SumFunctionOnSet(f, T) /\ TotalOf(T \ {x}) = SumFunctionOnSet(f, T \ {x})
    BY <1>2, <2>1, <2>3, TotalIsSum
  <2>5. SumFunctionOnSet(f, T) = f[x] + SumFunctionOnSet(f, T \ {x})
    BY <1>2, <2>2, SumWithout
  <2>6. SumFunctionOnSet(f, T) \in Int /\ SumFunctionOnSet(f, T \ {x}) \in Int
    BY <1>2, <2>2, <2>3, SumType
  <2> QED BY <2>2, <2>4, <2>5, <2>6
<1>3. TotalOf(S) \in Int
  <2>1. CASE S = {}
    BY <1>1, <2>1
  <2>2. CASE S # {}
    BY <1>2, <2>2
  <2> QED BY <2>1, <2>2
<1>4. ASSUME NEW x, x \notin S, x.qty \in Nat PROVE TotalOf(S \cup {x}) = TotalOf(S) + x.qty
  <2>1. PICK T : T = S \cup {x}
    OBVIOUS
  <2>2. IsFiniteSet(T) /\ T \ {x} = S /\ x \in T /\ \A h \in T : h.qty \in Nat
    BY <1>4, <2>1, FS_AddElement
  <2>3. TotalOf(T) = x.qty + TotalOf(S)
    BY <1>2, <2>2
  <2> QED BY <1>3, <1>4, <2>1, <2>3
<1>5. ASSUME NEW x \in S PROVE TotalOf(S \ {x}) = TotalOf(S) - x.qty
  BY <1>2
<1> QED BY <1>1, <1>3, <1>4, <1>5

\* Functions with the same values have the same sum.
LEMMA SumAgrees ==
  ASSUME NEW S, IsFiniteSet(S), NEW f, NEW g, \A x \in S : f[x] = g[x] /\ f[x] \in Int
  PROVE  SumFunctionOnSet(f, S) = SumFunctionOnSet(g, S)
<1> DEFINE Bad == {T \in SUBSET S : SumFunctionOnSet(f, T) # SumFunctionOnSet(g, T)}
<1> SUFFICES ASSUME Bad # {} PROVE FALSE
  OBVIOUS
<1>1. PICK T \in Bad : \A W \in SUBSET T : W # T => W \notin Bad
  <2>1. Bad \subseteq SUBSET S
    OBVIOUS
  <2> HIDE DEF Bad
  <2> QED BY <2>1, SmallestSubset
<1>2. T \in SUBSET S /\ IsFiniteSet(T) /\ SumFunctionOnSet(f, T) # SumFunctionOnSet(g, T)
  BY <1>1, FS_Subset
<1>3. CASE T = {}
  BY <1>2, <1>3, SumStep
<1>4. CASE T # {}
  <2>1. Pick(T) \in T
    BY <1>4 DEF Pick
  <2>2. SumFunctionOnSet(f, T \ {Pick(T)}) = SumFunctionOnSet(g, T \ {Pick(T)})
    BY <1>1, <1>2, <2>1
  <2>3. /\ SumFunctionOnSet(f, T) = f[Pick(T)] + SumFunctionOnSet(f, T \ {Pick(T)})
        /\ SumFunctionOnSet(g, T) = g[Pick(T)] + SumFunctionOnSet(g, T \ {Pick(T)})
    BY <1>2, <1>4, SumStep
  <2>4. f[Pick(T)] = g[Pick(T)]
    BY <1>2, <2>1
  <2> QED BY <1>2, <2>2, <2>3, <2>4
<1> QED BY <1>3, <1>4

SumOfBuckets(b) == MapThenSumSet(LAMBDA s : b[s], Statuses)

LEMMA BucketsSum ==
  ASSUME NEW b PROVE SumOfBuckets(b) = SumFunctionOnSet(b, Statuses)
BY DEF SumOfBuckets, MapThenSumSet, SumFunctionOnSet, FoldFunctionOnSet

LEMMA FiniteStatuses == IsFiniteSet(Statuses)
<1>1. IsFiniteSet(1..7)
  <2>1. PICK n \in Int : n = 7
    OBVIOUS
  <2>2. IsFiniteSet(1..n)
    BY FS_Interval
  <2> QED BY <2>1, <2>2
<1> DEFINE f == [i \in 1..7 |-> IF i = 1 THEN "pending" ELSE IF i = 2 THEN "inProcurement"
                  ELSE IF i = 3 THEN "canceled" ELSE IF i = 4 THEN "accepted"
                  ELSE IF i = 5 THEN "handedOff" ELSE IF i = 6 THEN "scrapped" ELSE "returned"]
<1>2. Statuses = {f[i] : i \in 1..7}
  <2>1. /\ f[1] = "pending" /\ f[2] = "inProcurement" /\ f[3] = "canceled" /\ f[4] = "accepted"
        /\ f[5] = "handedOff" /\ f[6] = "scrapped" /\ f[7] = "returned"
    OBVIOUS
  <2>2. \A i \in 1..7 : i \in {1, 2, 3, 4, 5, 6, 7}
    OBVIOUS
  <2> HIDE DEF f
  <2> QED BY <2>1, <2>2 DEF Statuses
<1> HIDE DEF f
<1>3. IsFiniteSet({f[i] : i \in 1..7})
  <2>1. DOMAIN f = 1..7
    BY DEF f
  <2> QED BY <1>1, <2>1, FiniteImage
<1> QED BY <1>2, <1>3

\* Buckets that differ in one status only.
LEMMA OneBucket ==
  ASSUME NEW f \in [Statuses -> Nat], NEW g \in [Statuses -> Nat], NEW x \in Statuses,
         \A s \in Statuses : s # x => f[s] = g[s]
  PROVE  /\ SumOfBuckets(f) \in Int /\ SumOfBuckets(g) \in Int
         /\ SumOfBuckets(f) - f[x] = SumOfBuckets(g) - g[x]
<1>1. PICK R : R = Statuses \ {x}
  OBVIOUS
<1>2. IsFiniteSet(R) /\ R \subseteq Statuses
  BY <1>1, FiniteStatuses, FS_RemoveElement
<1>3. \A s \in Statuses : f[s] \in Int /\ g[s] \in Int
  OBVIOUS
<1>4. /\ SumFunctionOnSet(f, Statuses) = f[x] + SumFunctionOnSet(f, R)
      /\ SumFunctionOnSet(g, Statuses) = g[x] + SumFunctionOnSet(g, R)
  BY <1>1, <1>3, FiniteStatuses, SumWithout
<1>5. \A s \in R : f[s] = g[s]
  BY <1>1
<1>6. SumFunctionOnSet(f, R) = SumFunctionOnSet(g, R)
  BY <1>2, <1>3, <1>5, SumAgrees
<1>7. SumFunctionOnSet(f, R) \in Int /\ SumFunctionOnSet(g, R) \in Int
  BY <1>2, <1>3, SumType
<1>8. f[x] \in Int /\ g[x] \in Int
  BY <1>3
<1> QED BY <1>4, <1>6, <1>7, <1>8, BucketsSum

\* A quantity moves from one status to another: the sum stays.
LEMMA BucketMoves ==
  ASSUME NEW b \in [Statuses -> Nat], NEW from \in Statuses, NEW to \in Statuses,
         from # to, NEW qty \in Nat, qty <= b[from], NEW m, m = MoveQty(b, from, to, qty)
  PROVE  /\ m \in [Statuses -> Nat]
         /\ \A s \in Statuses : m[s] = b[s] + (IF s = to THEN qty ELSE 0)
                                           - (IF s = from THEN qty ELSE 0)
         /\ SumOfBuckets(m) = SumOfBuckets(b)
<1>1. PICK a : a = [b EXCEPT ![from] = @ - qty]
  OBVIOUS
<1>2. /\ a \in [Statuses -> Nat] /\ a[from] = b[from] - qty
      /\ \A s \in Statuses : s # from => a[s] = b[s]
  BY <1>1
<1>3. m = [a EXCEPT ![to] = @ + qty]
  <2>1. a[to] = b[to]
    BY <1>2
  <2>2. m = [b EXCEPT ![from] = b[from] - qty, ![to] = b[to] + qty]
    BY DEF MoveQty
  <2>3. DOMAIN m = Statuses /\ DOMAIN a = Statuses
    BY <1>2, <2>2
  <2>4. \A s \in Statuses : m[s] = [a EXCEPT ![to] = @ + qty][s]
    BY <1>2, <2>1, <2>2
  <2> QED BY <2>2, <2>3, <2>4
<1>4. /\ m \in [Statuses -> Nat] /\ m[to] = a[to] + qty
      /\ \A s \in Statuses : s # to => m[s] = a[s]
  BY <1>2, <1>3
<1>6. /\ SumOfBuckets(b) \in Int /\ SumOfBuckets(a) \in Int
      /\ SumOfBuckets(b) - b[from] = SumOfBuckets(a) - a[from]
  BY <1>2, OneBucket
<1>7. /\ SumOfBuckets(m) \in Int /\ SumOfBuckets(m) - m[to] = SumOfBuckets(a) - a[to]
  BY <1>2, <1>4, OneBucket
<1>8. SumOfBuckets(m) = SumOfBuckets(b)
  <2>1. b[from] \in Nat /\ a[to] \in Nat
    BY <1>2
  <2> QED BY <1>2, <1>4, <1>6, <1>7, <2>1
<1>9. \A s \in Statuses : m[s] = b[s] + (IF s = to THEN qty ELSE 0)
                                        - (IF s = from THEN qty ELSE 0)
  <2> TAKE s \in Statuses
  <2>1. b[s] \in Nat /\ a[s] \in Nat
    BY <1>2
  <2> QED BY <1>2, <1>4, <2>1
<1> QED BY <1>4, <1>8, <1>9

-----------------------------------------------------------------------------
(* Buckets and the histories in force that explain them.                   *)

Into(L, s) == TotalOf({h \in L : h.to = s})
OutOf(L, s) == TotalOf({h \in L : h.from = s})
Made(L) == TotalOf({h \in L : h.event = "created"})

Explained(b, L) ==
    /\ b \in [Statuses -> Nat]
    /\ \A s \in Statuses : b[s] = Into(L, s) - OutOf(L, s)
    /\ SumOfBuckets(b) = Made(L)

LEMMA TotalsWith ==
  ASSUME NEW L, Rows(L), NEW x, IsRow(x), x \notin L, NEW M, M = L \cup {x}, NEW s
  PROVE  /\ Rows(M)
         /\ Into(L, s) \in Int /\ OutOf(L, s) \in Int /\ Made(L) \in Int
         /\ Into(M, s) = Into(L, s) + (IF x.to = s THEN x.qty ELSE 0)
         /\ OutOf(M, s) = OutOf(L, s) + (IF x.from = s THEN x.qty ELSE 0)
         /\ Made(M) = Made(L) + (IF x.event = "created" THEN x.qty ELSE 0)
<1>1. Rows(M)
  BY FS_AddElement DEF Rows
<1>2. ASSUME NEW A, A \subseteq L, NEW B, B = A \/ B = A \cup {x}
      PROVE  TotalOf(A) \in Int /\ TotalOf(B) = TotalOf(A) + (IF x \in B THEN x.qty ELSE 0)
  <2>1. IsFiniteSet(A) /\ (\A h \in A : h.qty \in Nat) /\ x.qty \in Nat /\ x \notin A
    BY <1>2, FS_Subset DEF Rows, IsRow
  <2>2. TotalOf(A) \in Int /\ TotalOf(A \cup {x}) = TotalOf(A) + x.qty
    BY <2>1, TotalWith
  <2>3. CASE B = A
    BY <2>1, <2>2, <2>3
  <2>4. CASE B = A \cup {x}
    BY <2>2, <2>4
  <2> QED BY <1>2, <2>3, <2>4
<1>3. /\ Into(L, s) \in Int /\ Into(M, s) = Into(L, s) + (IF x.to = s THEN x.qty ELSE 0)
  <2>1. PICK A, B : A = {h \in L : h.to = s} /\ B = {h \in M : h.to = s}
    OBVIOUS
  <2>2. A \subseteq L /\ (B = A \/ B = A \cup {x}) /\ (x \in B <=> x.to = s)
    BY <2>1
  <2>3. TotalOf(A) \in Int /\ TotalOf(B) = TotalOf(A) + (IF x \in B THEN x.qty ELSE 0)
    BY <1>2, <2>2
  <2> QED BY <2>1, <2>2, <2>3 DEF Into
<1>4. /\ OutOf(L, s) \in Int /\ OutOf(M, s) = OutOf(L, s) + (IF x.from = s THEN x.qty ELSE 0)
  <2>1. PICK A, B : A = {h \in L : h.from = s} /\ B = {h \in M : h.from = s}
    OBVIOUS
  <2>2. A \subseteq L /\ (B = A \/ B = A \cup {x}) /\ (x \in B <=> x.from = s)
    BY <2>1
  <2>3. TotalOf(A) \in Int /\ TotalOf(B) = TotalOf(A) + (IF x \in B THEN x.qty ELSE 0)
    BY <1>2, <2>2
  <2> QED BY <2>1, <2>2, <2>3 DEF OutOf
<1>5. /\ Made(L) \in Int /\ Made(M) = Made(L) + (IF x.event = "created" THEN x.qty ELSE 0)
  <2>1. PICK A, B : A = {h \in L : h.event = "created"} /\ B = {h \in M : h.event = "created"}
    OBVIOUS
  <2>2. A \subseteq L /\ (B = A \/ B = A \cup {x}) /\ (x \in B <=> x.event = "created")
    BY <2>1
  <2>3. TotalOf(A) \in Int /\ TotalOf(B) = TotalOf(A) + (IF x \in B THEN x.qty ELSE 0)
    BY <1>2, <2>2
  <2> QED BY <2>1, <2>2, <2>3 DEF Made
<1> QED BY <1>1, <1>3, <1>4, <1>5

\* A history more, and the quantity moved as it says.
LEMMA ExplainedWith ==
  ASSUME NEW L, Rows(L), NEW b, Explained(b, L), NEW x, IsRow(x), x \notin L,
         x.from \in Statuses, x.qty <= b[x.from],
         NEW M, M = L \cup {x}, NEW m, m = MoveQty(b, x.from, x.to, x.qty)
  PROVE  Rows(M) /\ Explained(m, M)
<1>1. /\ b \in [Statuses -> Nat] /\ x.to \in Statuses /\ x.from # x.to /\ x.qty \in Nat
      /\ x.event # "created"
  <2>1. "none" \notin Statuses
    BY DEF Statuses
  <2> QED BY <2>1 DEF Explained, IsRow
<1>2. /\ m \in [Statuses -> Nat] /\ SumOfBuckets(m) = SumOfBuckets(b)
      /\ \A s \in Statuses : m[s] = b[s] + (IF s = x.to THEN x.qty ELSE 0)
                                         - (IF s = x.from THEN x.qty ELSE 0)
  BY <1>1, BucketMoves
<1>3. Rows(M) /\ Made(M) = Made(L)
  BY <1>1, TotalsWith DEF Explained
<1>4. ASSUME NEW s \in Statuses PROVE m[s] = Into(M, s) - OutOf(M, s)
  <2>1. b[s] = Into(L, s) - OutOf(L, s) /\ b[s] \in Nat
    BY <1>1 DEF Explained
  <2>2. /\ Into(L, s) \in Int /\ OutOf(L, s) \in Int
        /\ Into(M, s) = Into(L, s) + (IF x.to = s THEN x.qty ELSE 0)
        /\ OutOf(M, s) = OutOf(L, s) + (IF x.from = s THEN x.qty ELSE 0)
    BY TotalsWith
  <2>3. m[s] = b[s] + (IF s = x.to THEN x.qty ELSE 0) - (IF s = x.from THEN x.qty ELSE 0)
    BY <1>2
  <2>4. CASE s = x.to
    BY <1>1, <2>1, <2>2, <2>3, <2>4
  <2>5. CASE s # x.to
    BY <1>1, <2>1, <2>2, <2>3, <2>5
  <2> QED BY <2>4, <2>5
<1> QED BY <1>2, <1>3, <1>4 DEF Explained

\* A history less, and the quantity moved back.
LEMMA ExplainedWithout ==
  ASSUME NEW M, Rows(M), NEW b, Explained(b, M), NEW x \in M,
         x.from \in Statuses, x.qty <= b[x.to],
         NEW L, L = M \ {x}, NEW m, m = MoveQty(b, x.to, x.from, x.qty)
  PROVE  Rows(L) /\ Explained(m, L)
<1>1. /\ b \in [Statuses -> Nat] /\ x.to \in Statuses /\ x.from # x.to /\ x.qty \in Nat
      /\ x.event # "created" /\ IsRow(x)
  <2>1. "none" \notin Statuses
    BY DEF Statuses
  <2> QED BY <2>1 DEF Explained, Rows, IsRow
<1>2. /\ m \in [Statuses -> Nat] /\ SumOfBuckets(m) = SumOfBuckets(b)
      /\ \A s \in Statuses : m[s] = b[s] + (IF s = x.from THEN x.qty ELSE 0)
                                         - (IF s = x.to THEN x.qty ELSE 0)
  BY <1>1, BucketMoves
<1>3. Rows(L) /\ M = L \cup {x} /\ x \notin L
  BY FS_RemoveElement DEF Rows
<1>4. Made(M) = Made(L)
  BY <1>1, <1>3, TotalsWith DEF Explained
<1>5. ASSUME NEW s \in Statuses PROVE m[s] = Into(L, s) - OutOf(L, s)
  <2>1. b[s] = Into(M, s) - OutOf(M, s) /\ b[s] \in Nat
    BY <1>1 DEF Explained
  <2>2. /\ Into(L, s) \in Int /\ OutOf(L, s) \in Int
        /\ Into(M, s) = Into(L, s) + (IF x.to = s THEN x.qty ELSE 0)
        /\ OutOf(M, s) = OutOf(L, s) + (IF x.from = s THEN x.qty ELSE 0)
    BY <1>1, <1>3, TotalsWith
  <2>3. m[s] = b[s] + (IF s = x.from THEN x.qty ELSE 0) - (IF s = x.to THEN x.qty ELSE 0)
    BY <1>2
  <2>4. CASE s = x.to
    BY <1>1, <2>1, <2>2, <2>3, <2>4
  <2>5. CASE s # x.to
    BY <1>1, <2>1, <2>2, <2>3, <2>5
  <2> QED BY <2>4, <2>5
<1> QED BY <1>2, <1>3, <1>4, <1>5 DEF Explained

\* Another row that moves the same quantity.
Alike(x, y) == y.to = x.to /\ y.from = x.from /\ y.qty = x.qty /\ y.event = x.event

LEMMA ExplainedReplaced ==
  ASSUME NEW M, Rows(M), NEW b, Explained(b, M), NEW x \in M, NEW y, IsRow(y), Alike(x, y),
         y \notin M, NEW N, N = (M \ {x}) \cup {y}
  PROVE  Rows(N) /\ Explained(b, N)
<1>1. PICK L : L = M \ {x}
  OBVIOUS
<1>2. /\ Rows(L) /\ M = L \cup {x} /\ N = L \cup {y} /\ x \notin L /\ y \notin L
      /\ IsRow(x) /\ x.qty \in Nat
  BY <1>1, FS_RemoveElement DEF Rows, IsRow
<1>3. ASSUME NEW s
      PROVE  Rows(N) /\ Into(N, s) = Into(M, s) /\ OutOf(N, s) = OutOf(M, s) /\ Made(N) = Made(M)
  <2>1. /\ Into(M, s) = Into(L, s) + (IF x.to = s THEN x.qty ELSE 0)
        /\ OutOf(M, s) = OutOf(L, s) + (IF x.from = s THEN x.qty ELSE 0)
        /\ Made(M) = Made(L) + (IF x.event = "created" THEN x.qty ELSE 0)
    BY <1>2, TotalsWith
  <2>2. /\ Rows(N)
        /\ Into(N, s) = Into(L, s) + (IF y.to = s THEN y.qty ELSE 0)
        /\ OutOf(N, s) = OutOf(L, s) + (IF y.from = s THEN y.qty ELSE 0)
        /\ Made(N) = Made(L) + (IF y.event = "created" THEN y.qty ELSE 0)
    BY <1>2, TotalsWith
  <2> QED BY <2>1, <2>2 DEF Alike
<1> QED BY <1>3 DEF Explained

LEMMA TotalsOfOne ==
  ASSUME NEW x, IsRow(x), NEW s
  PROVE  /\ Into({}, s) = 0 /\ OutOf({}, s) = 0 /\ Made({}) = 0
         /\ Into({x}, s) = (IF x.to = s THEN x.qty ELSE 0)
         /\ OutOf({x}, s) = (IF x.from = s THEN x.qty ELSE 0)
         /\ Made({x}) = (IF x.event = "created" THEN x.qty ELSE 0)
<1>1. PICK L, M : L = {} /\ M = {x}
  OBVIOUS
<1>2. Rows(L) /\ M = L \cup {x} /\ x \notin L /\ x.qty \in Nat
  BY <1>1, FS_EmptySet DEF Rows, IsRow
<1>3. Into(L, s) = 0 /\ OutOf(L, s) = 0 /\ Made(L) = 0
  <2>1. /\ {h \in L : h.to = s} = {} /\ {h \in L : h.from = s} = {}
        /\ {h \in L : h.event = "created"} = {}
    BY <1>1
  <2>2. TotalOf({}) = 0
    BY TotalWith, FS_EmptySet
  <2> QED BY <2>1, <2>2 DEF Into, OutOf, Made
<1>4. /\ Into(M, s) = Into(L, s) + (IF x.to = s THEN x.qty ELSE 0)
      /\ OutOf(M, s) = OutOf(L, s) + (IF x.from = s THEN x.qty ELSE 0)
      /\ Made(M) = Made(L) + (IF x.event = "created" THEN x.qty ELSE 0)
  BY <1>2, TotalsWith
<1> QED BY <1>1, <1>2, <1>3, <1>4

\* The first history of a request.
LEMMA ExplainedCreated ==
  ASSUME NEW b, Explained(b, {}), NEW x, IsRow(x), x.from = "none", x.to = "pending",
         x.event = "created", NEW m, m = [b EXCEPT !["pending"] = x.qty]
  PROVE  Explained(m, {x})
<1>1. x.qty \in Nat
  BY DEF IsRow
<1>2. "pending" \in Statuses /\ "none" \notin Statuses
  BY DEF Statuses
<1>3. b \in [Statuses -> Nat] /\ SumOfBuckets(b) = 0 /\ \A s \in Statuses : b[s] = 0
  <2>1. Made({}) = 0 /\ \A s : Into({}, s) = 0 /\ OutOf({}, s) = 0
    BY TotalsOfOne
  <2> QED BY <2>1 DEF Explained
<1>4. /\ m \in [Statuses -> Nat] /\ m["pending"] = x.qty
      /\ \A s \in Statuses : s # "pending" => m[s] = b[s]
  BY <1>1, <1>2, <1>3
<1>5. ASSUME NEW s \in Statuses PROVE m[s] = Into({x}, s) - OutOf({x}, s)
  <2>1. /\ Into({x}, s) = (IF x.to = s THEN x.qty ELSE 0)
        /\ OutOf({x}, s) = (IF x.from = s THEN x.qty ELSE 0)
    BY TotalsOfOne
  <2> QED BY <1>1, <1>2, <1>3, <1>4, <2>1
<1>6. SumOfBuckets(m) = Made({x})
  <2>1. Made({x}) = x.qty
    BY TotalsOfOne
  <2>2. SumOfBuckets(m) - m["pending"] = SumOfBuckets(b) - b["pending"] /\ SumOfBuckets(m) \in Int
    BY <1>2, <1>3, <1>4, OneBucket
  <2> QED BY <1>1, <1>2, <1>3, <1>4, <2>1, <2>2
<1> QED BY <1>4, <1>5, <1>6 DEF Explained

-----------------------------------------------------------------------------
(* The status ledger: every bucket is explained by the histories in force, *)
(* ids are handed out in order, a history has at most one rollback and has *)
(* it when it is undone, and a request that is not created has none.       *)

Live(H, r) == {h \in H : h.rev = NoHistory /\ ~h.undone /\ h.of = r}

Counted(H) ==
    /\ Rows(H)
    /\ \A h, g \in H : h.id = g.id => h = g
    /\ \A h \in H : h.id \in 1..Cardinality(H) /\ h.rev \in 0..Cardinality(H)

OneRollback(H) ==
    /\ \A h \in H : h.undone <=> \E g \in H : g.rev = h.id
    /\ \A f, g \in H : f.rev = g.rev /\ f.rev # NoHistory => f = g

Ledgered(H, B, S) ==
    /\ Counted(H) /\ OneRollback(H)
    /\ B \in [Requests -> [Statuses -> Nat]]
    /\ \A r \in Requests : Explained(B[r], Live(H, r))
    /\ \A h \in H : S[h.of] # "none"

LEMMA CountedWith ==
  ASSUME NEW H, Counted(H), NEW x, IsRow(x), x.id = Cardinality(H) + 1, x.rev \in 0..Cardinality(H),
         NEW M, M = H \cup {x}
  PROVE  /\ Counted(M) /\ x \notin H /\ \A h \in H : h.rev # x.id /\ h.id # x.id
         /\ Cardinality(H) \in Nat
<1>1. Cardinality(H) \in Nat /\ IsFiniteSet(H)
  BY FS_CardinalityType DEF Counted, Rows
<1>2. x \notin H /\ \A h \in H : h.rev # x.id /\ h.id # x.id
  BY <1>1 DEF Counted
<1>3. Cardinality(M) = Cardinality(H) + 1
  BY <1>1, <1>2, FS_AddElement
<1>4. Rows(M)
  BY <1>1, FS_AddElement DEF Rows, Counted
<1>5. \A h \in M : h.id \in 1..Cardinality(M) /\ h.rev \in 0..Cardinality(M)
  <2> TAKE h \in M
  <2>1. CASE h = x
    BY <1>1, <1>3, <2>1
  <2>2. CASE h \in H
    <3>1. h.id \in 1..Cardinality(H) /\ h.rev \in 0..Cardinality(H)
      BY <2>2 DEF Counted
    <3> QED BY <1>1, <1>3, <3>1
  <2> QED BY <2>1, <2>2
<1>6. \A h, g \in M : h.id = g.id => h = g
  BY <1>2 DEF Counted
<1> QED BY <1>1, <1>2, <1>4, <1>5, <1>6 DEF Counted

\* The parts of a row that never change.
FixedFields == {"id", "of", "event", "doc", "from", "to", "qty", "rev"}
Fixed(h, g) == \A x \in FixedFields : g[x] = h[x]
Grows(H, K) == \A h \in H : \E g \in K : Fixed(h, g)

LEMMA FixedMeans ==
  ASSUME NEW h, NEW g, Fixed(h, g)
  PROVE  /\ g.id = h.id /\ g.of = h.of /\ g.event = h.event /\ g.doc = h.doc
         /\ g.from = h.from /\ g.to = h.to /\ g.qty = h.qty /\ g.rev = h.rev
BY DEF Fixed, FixedFields

LEMMA GrowsFurther == ASSUME NEW H, NEW K, NEW M, Grows(H, K), Grows(K, M) PROVE Grows(H, M)
BY DEF Grows, Fixed

LEMMA GrowsItself == ASSUME NEW H, NEW K, H \subseteq K PROVE Grows(H, K)
BY DEF Grows, Fixed

\* A transfer: one more history, and the quantity moves.
LEMMA LedgerAdds ==
  ASSUME NEW H, NEW B, NEW S, Ledgered(H, B, S), NEW x, IsRow(x), x.id = Cardinality(H) + 1,
         x.rev = NoHistory, ~x.undone, x.from \in Statuses, NEW r, r = x.of,
         x.qty <= B[r][x.from], S[r] # "none",
         NEW M, M = H \cup {x}, NEW A, A = [B EXCEPT ![r] = MoveQty(B[r], x.from, x.to, x.qty)]
  PROVE  Ledgered(M, A, S)
<1>1. PICK m : m = MoveQty(B[r], x.from, x.to, x.qty)
  OBVIOUS
<1>2. /\ r \in Requests /\ Counted(H) /\ OneRollback(H) /\ x.rev \in 0..Cardinality(H)
      /\ B \in [Requests -> [Statuses -> Nat]] /\ Cardinality(H) \in Nat
  BY FS_CardinalityType DEF IsRow, Ledgered, Counted, Rows, NoHistory
<1>3. /\ Counted(M) /\ x \notin H /\ \A h \in H : h.rev # x.id /\ h.id # x.id
  BY <1>2, CountedWith
<1>4. Explained(m, Live(M, r))
  <2>1. PICK L, N : L = Live(H, r) /\ N = Live(M, r)
    OBVIOUS
  <2>2. N = L \cup {x} /\ x \notin L /\ L \subseteq H
    BY <1>3, <2>1 DEF Live
  <2>3. Rows(L)
    BY <1>2, <2>2, FS_Subset DEF Rows, Counted
  <2>4. Explained(B[r], L)
    BY <1>2, <2>1 DEF Ledgered
  <2>5. Explained(m, N)
    BY <1>1, <2>2, <2>3, <2>4, ExplainedWith
  <2> QED BY <2>1, <2>5
<1>5. A \in [Requests -> [Statuses -> Nat]] /\ A[r] = m /\ \A q \in Requests : q # r => A[q] = B[q]
  <2>1. m \in [Statuses -> Nat]
    BY <1>4 DEF Explained
  <2> QED BY <1>1, <1>2, <2>1
<1>6. \A q \in Requests : Explained(A[q], Live(M, q))
  <2> TAKE q \in Requests
  <2>1. CASE q = r
    BY <1>4, <1>5, <2>1
  <2>2. CASE q # r
    <3>1. Live(M, q) = Live(H, q)
      BY <2>2 DEF Live
    <3>2. Explained(B[q], Live(H, q))
      BY DEF Ledgered
    <3> QED BY <1>5, <2>2, <3>1, <3>2
  <2> QED BY <2>1, <2>2
<1>7. OneRollback(M)
  <2>1. x.id # NoHistory /\ x.id # x.rev
    BY <1>2 DEF NoHistory
  <2>2. \A h \in H : h.id # NoHistory
    BY <1>2 DEF Counted, NoHistory
  <2> QED BY <1>2, <1>3, <2>1, <2>2 DEF OneRollback
<1>8. \A h \in M : S[h.of] # "none"
  BY DEF Ledgered
<1> QED BY <1>3, <1>5, <1>6, <1>7, <1>8 DEF Ledgered

LEMMA CountedReplaced ==
  ASSUME NEW H, Counted(H), NEW x \in H, NEW y, IsRow(y), Fixed(x, y), y \notin H,
         NEW M, M = (H \ {x}) \cup {y}
  PROVE  Counted(M) /\ Cardinality(M) = Cardinality(H)
<1>1. PICK L : L = H \ {x}
  OBVIOUS
<1>2. /\ IsFiniteSet(H) /\ Cardinality(H) \in Nat
      /\ IsFiniteSet(L) /\ Cardinality(L) = Cardinality(H) - 1
  BY <1>1, FS_CardinalityType, FS_RemoveElement DEF Counted, Rows
<1>3. IsFiniteSet(M) /\ Cardinality(M) = Cardinality(L) + 1
  BY <1>1, <1>2, FS_AddElement
<1>4. Cardinality(M) = Cardinality(H)
  BY <1>2, <1>3
<1>5. y.id = x.id /\ y.rev = x.rev
  BY FixedMeans
<1>6. \A h \in M : (h \in H /\ h # x) \/ h = y
  OBVIOUS
<1>7. Rows(M)
  BY <1>3, <1>6 DEF Rows, Counted
<1>8. \A h \in M : h.id \in 1..Cardinality(M) /\ h.rev \in 0..Cardinality(M)
  BY <1>4, <1>5, <1>6 DEF Counted
<1>9. \A h, g \in M : h.id = g.id => h = g
  BY <1>5, <1>6 DEF Counted
<1> QED BY <1>4, <1>7, <1>8, <1>9 DEF Counted

\* Another field of a row is written.
LEMMA LedgerMarks ==
  ASSUME NEW H, NEW B, NEW S, Ledgered(H, B, S), NEW x \in H, NEW y, IsRow(y), Fixed(x, y),
         y.undone = x.undone, NEW M, M = (H \ {x}) \cup {y}
  PROVE  Ledgered(M, B, S) /\ Cardinality(M) = Cardinality(H)
<1>1. /\ Counted(H) /\ OneRollback(H) /\ IsFiniteSet(H) /\ Cardinality(H) \in Nat
      /\ B \in [Requests -> [Statuses -> Nat]] /\ IsRow(x)
  BY FS_CardinalityType DEF Ledgered, Counted, Rows
<1>2. CASE y \in H
  <2>1. x = y
    BY <1>1, <1>2, FixedMeans DEF Counted
  <2>2. M = H
    BY <2>1
  <2> QED BY <2>2
<1>3. CASE y \notin H
  <2>1. Counted(M) /\ Cardinality(M) = Cardinality(H)
    BY <1>1, <1>3, CountedReplaced
  <2>2. \A r \in Requests : Explained(B[r], Live(M, r))
    <3> TAKE r \in Requests
    <3>1. PICK L, N : L = Live(H, r) /\ N = Live(M, r)
      OBVIOUS
    <3>2. L \subseteq H /\ Explained(B[r], L)
      BY <3>1 DEF Live, Ledgered
    <3>3. Rows(L)
      BY <1>1, <3>2, FS_Subset DEF Rows, Counted
    <3>4. CASE x \in L
      <4>1. N = (L \ {x}) \cup {y} /\ y \notin L
        BY <1>3, <3>1, <3>2, <3>4, FixedMeans DEF Live
      <4>2. Alike(x, y)
        BY FixedMeans DEF Alike
      <4>3. Explained(B[r], N)
        BY <3>2, <3>3, <3>4, <4>1, <4>2, ExplainedReplaced
      <4> QED BY <3>1, <4>3
    <3>5. CASE x \notin L
      <4>1. N = L
        BY <3>1, <3>5, FixedMeans DEF Live
      <4> QED BY <3>1, <3>2, <4>1
    <3> QED BY <3>4, <3>5
  <2>3. OneRollback(M)
    BY <1>1, <1>3, FixedMeans DEF OneRollback
  <2>4. \A h \in M : S[h.of] # "none"
    BY FixedMeans DEF Ledgered
  <2> QED BY <1>1, <2>1, <2>2, <2>3, <2>4 DEF Ledgered
<1> QED BY <1>2, <1>3

\* A rollback: the history is undone, a rollback is written, the quantity moves back.
LEMMA LedgerReverses ==
  ASSUME NEW H, NEW B, NEW S, Ledgered(H, B, S), NEW x \in H, x.rev = NoHistory,
         x.from \in Statuses, \A h \in H : h.rev # x.id, NEW r, r = x.of, x.qty <= B[r][x.to],
         NEW y, IsRow(y), Fixed(x, y), y.undone = TRUE, NEW K, K = (H \ {x}) \cup {y},
         NEW w, IsRow(w), w.id = Cardinality(K) + 1, w.rev = x.id, ~w.undone, w.of = r,
         NEW M, M = K \cup {w},
         NEW A, A = [B EXCEPT ![r] = MoveQty(B[r], x.to, x.from, x.qty)]
  PROVE  Ledgered(M, A, S)
<1>1. PICK m : m = MoveQty(B[r], x.to, x.from, x.qty)
  OBVIOUS
<1>2. /\ Counted(H) /\ OneRollback(H) /\ B \in [Requests -> [Statuses -> Nat]]
      /\ IsRow(x) /\ r \in Requests /\ ~x.undone /\ y \notin H /\ S[r] # "none"
      /\ x.id \in 1..Cardinality(H) /\ Cardinality(H) \in Nat
  <2>1. /\ Counted(H) /\ OneRollback(H) /\ B \in [Requests -> [Statuses -> Nat]]
        /\ IsRow(x) /\ S[r] # "none" /\ Cardinality(H) \in Nat
    BY FS_CardinalityType DEF Ledgered, Counted, Rows
  <2>2. r \in Requests /\ ~x.undone
    BY <2>1 DEF IsRow, OneRollback
  <2>3. y \notin H
    <3>1. y # x /\ y.id = x.id
      BY <2>2, FixedMeans
    <3> QED BY <2>1, <3>1 DEF Counted
  <2> QED BY <2>1, <2>2, <2>3 DEF Counted
<1>3. Counted(K) /\ Cardinality(K) = Cardinality(H)
  BY <1>2, CountedReplaced
<1>4. Counted(M) /\ w \notin K /\ \A h \in K : h.rev # w.id /\ h.id # w.id
  <2>1. w.rev \in 0..Cardinality(K)
    BY <1>2, <1>3
  <2> QED BY <1>3, <2>1, CountedWith
<1>5. /\ \A h \in M : h = w \/ h = y \/ (h \in H /\ h # x)
      /\ y.id = x.id /\ y.rev = NoHistory /\ y.of = r
      /\ \A h \in H : h.id = x.id => h = x
  BY <1>2, FixedMeans DEF Counted
<1>6. x.id # NoHistory /\ w.rev # NoHistory /\ w.id # x.id
  BY <1>2, <1>3 DEF NoHistory
<1>7. Explained(m, Live(M, r))
  <2>1. PICK L, N : L = Live(H, r) /\ N = Live(M, r)
    OBVIOUS
  <2>2. x \in L /\ L \subseteq H
    BY <1>2, <2>1 DEF Live
  <2>3. N = L \ {x}
    BY <1>2, <1>5, <1>6, <2>1 DEF Live
  <2>4. Rows(L)
    BY <1>2, <2>2, FS_Subset DEF Rows, Counted
  <2>5. Explained(B[r], L)
    BY <1>2, <2>1 DEF Ledgered
  <2>6. Explained(m, N)
    BY <1>1, <2>2, <2>3, <2>4, <2>5, ExplainedWithout
  <2> QED BY <2>1, <2>6
<1>8. A \in [Requests -> [Statuses -> Nat]] /\ A[r] = m /\ \A q \in Requests : q # r => A[q] = B[q]
  <2>1. m \in [Statuses -> Nat]
    BY <1>7 DEF Explained
  <2> QED BY <1>1, <1>2, <2>1
<1>9. \A q \in Requests : Explained(A[q], Live(M, q))
  <2> TAKE q \in Requests
  <2>1. CASE q = r
    BY <1>7, <1>8, <2>1
  <2>2. CASE q # r
    <3>1. Live(M, q) = Live(H, q)
      BY <1>5, <2>2 DEF Live
    <3>2. Explained(B[q], Live(H, q))
      BY DEF Ledgered
    <3> QED BY <1>8, <2>2, <3>1, <3>2
  <2> QED BY <2>1, <2>2
<1>10. OneRollback(M)
  <2>1. w \in M /\ y \in M /\ \A h \in H : h = x \/ h \in M
    OBVIOUS
  <2>2. ASSUME NEW f \in M, NEW g \in M, f.rev = g.rev, f.rev # NoHistory PROVE f = g
    BY <1>2, <1>5, <1>6, <2>2 DEF OneRollback
  <2>3. ASSUME NEW h \in M PROVE h.undone <=> \E g \in M : g.rev = h.id
    <3>1. CASE h = w
      BY <1>4, <1>6, <3>1
    <3>2. CASE h = y
      BY <1>5, <2>1, <3>2
    <3>3. CASE h \in H /\ h # x
      <4>1. h.id # x.id /\ h.id # NoHistory
        BY <1>2, <1>5, <3>3 DEF Counted, NoHistory
      <4>2. (\E g \in H : g.rev = h.id) <=> (\E g \in M : g.rev = h.id)
        BY <1>5, <2>1, <4>1
      <4> QED BY <1>2, <3>3, <4>2 DEF OneRollback
    <3> QED BY <1>5, <3>1, <3>2, <3>3
  <2> QED BY <2>2, <2>3 DEF OneRollback
<1>11. \A h \in M : S[h.of] # "none"
  BY <1>2, <1>5 DEF Ledgered
<1> QED BY <1>4, <1>8, <1>9, <1>10, <1>11 DEF Ledgered

-----------------------------------------------------------------------------
(* Transactions over the two stores and the status ledger.                 *)

RdColumns == {"main", "rd", "buckets", "histories", "status", "token", "lines", "lastLine", "setup"}
Moving == {"main", "rd", "buckets", "histories"}

\* Lines have ids of their own.
LinesFit(lines, last) ==
    /\ IsFiniteSet(lines) /\ last \in Nat
    /\ \A l \in lines : l.id \in 1..last /\ l.qty \in Nat
    /\ \A l, m \in lines : l.id = m.id => l = m

IsRd(st) ==
    /\ DOMAIN st = RdColumns
    /\ IsStore(st.main) /\ IsStore(st.rd)
    /\ Rows(st.histories) /\ st.buckets \in [Requests -> [Statuses -> Nat]]
    /\ DOMAIN st.status = Docs /\ LinesFit(st.lines, st.lastLine)
IsRdTxn(t) == DOMAIN t = {"v", "c", "ok", "dup"} /\ IsRd(t.v) /\ IsRd(t.c)

\* The committed ledger is explained, and what was read of it is a past of it.
Booked(t) ==
    /\ Ledgered(t.c.histories, t.c.buckets, t.c.status)
    /\ Grows(t.v.histories, t.c.histories)

\* What moves stock and quantities keeps of everything else, and of the ledger.
Runs(t, u) ==
    /\ IsRdTxn(u) /\ (u.ok => t.ok)
    /\ SameExcept(Moving, t.v, u.v) /\ SameExcept(Moving, t.c, u.c)
    /\ Grows(t.v.histories, u.v.histories) /\ Grows(t.c.histories, u.c.histories)
    /\ u.ok /\ Booked(t) => Booked(u)

LEMMA RunsItself == ASSUME NEW t, IsRdTxn(t) PROVE Runs(t, t)
BY GrowsItself DEF Runs, SameExcept

LEMMA RunsFurther == ASSUME NEW t, NEW u, NEW w, Runs(t, u), Runs(u, w) PROVE Runs(t, w)
BY GrowsFurther DEF Runs, SameExcept

\* What a statement writes that touches neither ledger nor histories.
LEMMA RunsElsewhere ==
  ASSUME NEW t, NEW u, IsRdTxn(u), u.ok => t.ok,
         SameExcept({"main", "rd"}, t.v, u.v), SameExcept({"main", "rd"}, t.c, u.c), IsRdTxn(t)
  PROVE  Runs(t, u)
<1>1. /\ u.v.histories = t.v.histories /\ u.c.histories = t.c.histories
      /\ u.c.buckets = t.c.buckets /\ u.c.status = t.c.status
  BY DEF SameExcept, IsRdTxn, IsRd, RdColumns
<1>2. Grows(t.v.histories, u.v.histories) /\ Grows(t.c.histories, u.c.histories)
  BY <1>1, GrowsItself
<1>3. Booked(t) => Booked(u)
  BY <1>1 DEF Booked
<1>4. SameExcept(Moving, t.v, u.v) /\ SameExcept(Moving, t.c, u.c)
  BY DEF SameExcept, Moving
<1> QED BY <1>2, <1>3, <1>4 DEF Runs

LEMMA FailRuns == ASSUME NEW t, IsRdTxn(t) PROVE Runs(t, Fail(t)) /\ ~Fail(t).ok
<1>1. PICK u : u = Fail(t)
  OBVIOUS
<1>2. DOMAIN u = DOMAIN t /\ u.v = t.v /\ u.c = t.c /\ u.ok = FALSE
  BY <1>1 DEF Fail, IsRdTxn
<1>3. IsRdTxn(u)
  BY <1>2 DEF IsRdTxn
<1>4. SameExcept({"main", "rd"}, t.v, u.v) /\ SameExcept({"main", "rd"}, t.c, u.c)
  BY <1>2 DEF SameExcept
<1> QED BY <1>1, <1>2, <1>3, <1>4, RunsElsewhere

LEMMA RdForms ==
  ASSUME NEW t, IsRdTxn(t), NEW v, NEW c, IsRd(v), IsRd(c), NEW u, u = Having(t, v, c)
  PROVE  u.v = v /\ u.c = c /\ u.ok = t.ok /\ u.dup = t.dup /\ IsRdTxn(u)
<1>1. DOMAIN u = DOMAIN t /\ u.v = v /\ u.c = c /\ u.ok = t.ok /\ u.dup = t.dup
  BY DEF IsRdTxn, Having
<1> QED BY <1>1 DEF IsRdTxn

-----------------------------------------------------------------------------
(* What the statements write.                                              *)

LEMMA HistoriesForm ==
  ASSUME NEW st, IsRd(st), NEW H, Rows(H), NEW w, w = [st EXCEPT !.histories = H]
  PROVE  IsRd(w) /\ w.histories = H /\ SameExcept({"histories"}, st, w)
<1>1. /\ DOMAIN w = DOMAIN st /\ w.histories = H
      /\ \A x \in DOMAIN st \ {"histories"} : w[x] = st[x]
  BY DEF IsRd, RdColumns
<1>2. /\ w.main = st.main /\ w.rd = st.rd /\ w.buckets = st.buckets /\ w.status = st.status
      /\ w.lines = st.lines /\ w.lastLine = st.lastLine
  BY <1>1 DEF IsRd, RdColumns
<1> QED BY <1>1, <1>2 DEF IsRd, SameExcept

LEMMA BucketsForm ==
  ASSUME NEW st, IsRd(st), NEW r, NEW b \in [Statuses -> Nat],
         NEW w, w = [st EXCEPT !.buckets[r] = b]
  PROVE  /\ IsRd(w) /\ w.buckets = [st.buckets EXCEPT ![r] = b]
         /\ SameExcept({"buckets"}, st, w)
<1>1. /\ DOMAIN w = DOMAIN st /\ w.buckets = [st.buckets EXCEPT ![r] = b]
      /\ \A x \in DOMAIN st \ {"buckets"} : w[x] = st[x]
  BY DEF IsRd, RdColumns
<1>2. /\ w.main = st.main /\ w.rd = st.rd /\ w.histories = st.histories /\ w.status = st.status
      /\ w.lines = st.lines /\ w.lastLine = st.lastLine
  BY <1>1 DEF IsRd, RdColumns
<1>3. w.buckets \in [Requests -> [Statuses -> Nat]]
  <2>1. PICK B \in [Requests -> [Statuses -> Nat]] : B = st.buckets
    BY DEF IsRd
  <2>2. [B EXCEPT ![r] = b] \in [Requests -> [Statuses -> Nat]]
    OBVIOUS
  <2> QED BY <1>1, <2>1, <2>2
<1> QED BY <1>1, <1>2, <1>3 DEF IsRd, SameExcept

WithStatus(st, d, s) == [st EXCEPT !.status[d] = s]

LEMMA StatusForm ==
  ASSUME NEW st, IsRd(st), NEW d, NEW s, NEW w, w = WithStatus(st, d, s)
  PROVE  /\ IsRd(w) /\ w.status = [st.status EXCEPT ![d] = s]
         /\ SameExcept({"status"}, st, w)
<1>1. /\ DOMAIN w = DOMAIN st /\ w.status = [st.status EXCEPT ![d] = s]
      /\ \A x \in DOMAIN st \ {"status"} : w[x] = st[x]
  BY DEF IsRd, RdColumns, WithStatus
<1>2. /\ w.main = st.main /\ w.rd = st.rd /\ w.histories = st.histories /\ w.buckets = st.buckets
      /\ w.lines = st.lines /\ w.lastLine = st.lastLine
  BY <1>1 DEF IsRd, RdColumns
<1>3. DOMAIN w.status = Docs
  BY <1>1 DEF IsRd
<1> QED BY <1>1, <1>2, <1>3 DEF IsRd, SameExcept

LEMMA TokenForm ==
  ASSUME NEW st, IsRd(st), NEW d, NEW s, NEW w, w = [st EXCEPT !.token[d] = s]
  PROVE  IsRd(w) /\ SameExcept({"token"}, st, w)
<1>1. /\ DOMAIN w = DOMAIN st
      /\ \A x \in DOMAIN st \ {"token"} : w[x] = st[x]
  BY DEF IsRd, RdColumns
<1>2. /\ w.main = st.main /\ w.rd = st.rd /\ w.histories = st.histories /\ w.buckets = st.buckets
      /\ w.lines = st.lines /\ w.lastLine = st.lastLine /\ w.status = st.status
  BY <1>1 DEF IsRd, RdColumns
<1> QED BY <1>1, <1>2 DEF IsRd, SameExcept

WithLines(st, L, n) == [st EXCEPT !.lines = L, !.lastLine = n]

LEMMA LinesForm ==
  ASSUME NEW st, IsRd(st), NEW L, NEW n, LinesFit(L, n), NEW w, w = WithLines(st, L, n)
  PROVE  /\ IsRd(w) /\ w.lines = L /\ w.lastLine = n
         /\ SameExcept({"lines", "lastLine"}, st, w)
<1>1. /\ DOMAIN w = DOMAIN st /\ w.lines = L /\ w.lastLine = n
      /\ \A x \in DOMAIN st \ {"lines", "lastLine"} : w[x] = st[x]
  BY DEF IsRd, RdColumns, WithLines
<1>2. /\ w.main = st.main /\ w.rd = st.rd /\ w.histories = st.histories /\ w.buckets = st.buckets
      /\ w.status = st.status
  BY <1>1 DEF IsRd, RdColumns
<1> QED BY <1>1, <1>2 DEF IsRd, SameExcept

\* One of the two stores is written.
LEMMA StoreForm ==
  ASSUME NEW st, IsRd(st), NEW s \in {"main", "rd"}, NEW x, IsStore(x),
         NEW w, w = [st EXCEPT ![s] = x]
  PROVE  IsRd(w) /\ w[s] = x /\ SameExcept({"main", "rd"}, st, w)
<1>1. /\ DOMAIN w = DOMAIN st /\ w[s] = x
      /\ \A y \in DOMAIN st \ {s} : w[y] = st[y]
  BY DEF IsRd, RdColumns
<1>2. /\ w.histories = st.histories /\ w.buckets = st.buckets
      /\ w.lines = st.lines /\ w.lastLine = st.lastLine /\ w.status = st.status
  BY <1>1 DEF IsRd, RdColumns
<1>3. IsStore(w.main) /\ IsStore(w.rd)
  BY <1>1 DEF IsRd, RdColumns
<1> QED BY <1>1, <1>2, <1>3 DEF IsRd, SameExcept

\* A history gets its id.
Numbered(h, n) == [h EXCEPT !.id = n]

LEMMA AddHistoryForm ==
  ASSUME NEW t, IsRdTxn(t), NEW h, NEW row, row = Numbered(h, NextHistory(t)), IsRow(row),
         NEW u, u = AddHistory(t, h)
  PROVE  /\ IsRdTxn(u) /\ u.ok = t.ok
         /\ u.v.histories = t.v.histories \cup {row} /\ u.c.histories = t.c.histories \cup {row}
         /\ SameExcept({"histories"}, t.v, u.v) /\ SameExcept({"histories"}, t.c, u.c)
<1>1. PICK H, K : H = t.v.histories \cup {row} /\ K = t.c.histories \cup {row}
  OBVIOUS
<1>2. PICK v, c : v = [t.v EXCEPT !.histories = H] /\ c = [t.c EXCEPT !.histories = K]
  OBVIOUS
<1>3. IsRd(t.v) /\ IsRd(t.c)
  BY DEF IsRdTxn
<1>4. Rows(H) /\ Rows(K)
  BY <1>1, <1>3, FS_AddElement DEF IsRd, Rows
<1>5. IsRd(v) /\ v.histories = H /\ SameExcept({"histories"}, t.v, v)
  BY <1>2, <1>3, <1>4, HistoriesForm
<1>6. IsRd(c) /\ c.histories = K /\ SameExcept({"histories"}, t.c, c)
  BY <1>2, <1>3, <1>4, HistoriesForm
<1>7. u = Having(t, v, c)
  BY <1>1, <1>2 DEF AddHistory, Both, Having, Numbered
<1> QED BY <1>1, <1>5, <1>6, <1>7, RdForms

\* Other buckets for one request.
Reset(B, r, b) == [B EXCEPT ![r] = b]

LEMMA SetBucketsForm ==
  ASSUME NEW t, IsRdTxn(t), NEW r, NEW b \in [Statuses -> Nat], NEW u, u = SetBuckets(t, r, b)
  PROVE  /\ IsRdTxn(u) /\ (u.ok => t.ok)
         /\ SameExcept({"buckets"}, t.v, u.v) /\ SameExcept({"buckets"}, t.c, u.c)
         /\ u.ok => /\ t.c.buckets[r] = t.v.buckets[r]
                    /\ u.c.buckets = Reset(t.c.buckets, r, b)
<1>1. CASE ~t.ok \/ ~SameBuckets(t, r)
  <2>1. u = Fail(t)
    BY <1>1 DEF SetBuckets
  <2>2. DOMAIN u = DOMAIN t /\ u.v = t.v /\ u.c = t.c /\ u.ok = FALSE
    BY <2>1 DEF Fail, IsRdTxn
  <2> QED BY <2>2 DEF IsRdTxn, SameExcept
<1>2. CASE ~(~t.ok \/ ~SameBuckets(t, r))
  <2>1. PICK v, c : /\ v = [t.v EXCEPT !.buckets[r] = b]
                    /\ c = [t.c EXCEPT !.buckets[r] = b]
    OBVIOUS
  <2>2. /\ IsRd(v) /\ SameExcept({"buckets"}, t.v, v)
        /\ IsRd(c) /\ SameExcept({"buckets"}, t.c, c) /\ c.buckets = [t.c.buckets EXCEPT ![r] = b]
    BY <2>1, BucketsForm DEF IsRdTxn
  <2>3. u = Having(t, v, c)
    BY <1>2, <2>1 DEF SetBuckets, Both, Having
  <2>4. u.v = v /\ u.c = c /\ u.ok = t.ok /\ IsRdTxn(u)
    BY <2>2, <2>3, RdForms
  <2> QED BY <1>2, <2>2, <2>4 DEF SameBuckets, Reset
<1> QED BY <1>1, <1>2

\* Some rows are written over, their fixed parts stay.
LEMMA RowsMarked ==
  ASSUME NEW H, Rows(H), NEW m, DOMAIN m = H, \A h \in H : IsRow(m[h]) /\ Fixed(h, m[h]),
         NEW A, A = {m[h] : h \in H}
  PROVE  /\ Rows(A) /\ Grows(H, A) /\ Grows(A, H)
         /\ \A x \in H : (\A h \in H : h # x => m[h] = h /\ h # m[x]) => A = (H \ {x}) \cup {m[x]}
<1>1. IsFiniteSet(A)
  BY FiniteImage DEF Rows
<1>2. Rows(A)
  BY <1>1 DEF Rows
<1>3. Grows(H, A)
  BY DEF Grows
<1>4. Grows(A, H)
  BY DEF Grows, Fixed
<1>5. ASSUME NEW x \in H, \A h \in H : h # x => m[h] = h /\ h # m[x]
      PROVE  A = (H \ {x}) \cup {m[x]}
  BY <1>5
<1> QED BY <1>2, <1>3, <1>4, <1>5

-----------------------------------------------------------------------------
(* Transfers: what is drawn, the buckets on the way, the histories.        *)

LEMMA MinOfTwo ==
  ASSUME NEW a \in Nat, NEW b \in Nat
  PROVE  Min({a, b}) \in Nat /\ Min({a, b}) <= a /\ Min({a, b}) <= b
<1>1. \E x \in {a, b} : \A y \in {a, b} : x <= y
  OBVIOUS
<1>2. Min({a, b}) \in {a, b} /\ \A y \in {a, b} : Min({a, b}) <= y
  BY <1>1 DEF Min
<1> QED BY <1>2

LEMMA SeqGrows == ASSUME NEW A, NEW B, A \subseteq B, NEW s \in Seq(A) PROVE s \in Seq(B)
OBVIOUS

LEMMA SeqElement ==
  ASSUME NEW A, NEW s \in Seq(A)
  PROVE  /\ Len(s) \in Nat /\ DOMAIN s = 1..Len(s)
         /\ \A i \in DOMAIN s : s[i] \in A
OBVIOUS

\* What may be drawn on for a move to status to.
Sources(froms, to) ==
    /\ froms \in Seq(Statuses \ {to})
    /\ \A i, j \in DOMAIN froms : i # j => froms[i] # froms[j]

\* What was drawn: of each status once, and no more than there is.
Pieces(b, F, ps) ==
    /\ ps \in Seq([from : F, qty : Nat])
    /\ \A i \in DOMAIN ps : ps[i].qty <= b[ps[i].from]
    /\ \A i, j \in DOMAIN ps : i # j => ps[i].from # ps[j].from

DrawStep(b, x, y, z, froms, acc, s) ==
    LET move == Min({acc.left, b[s]})
    IN  IF move = 0 THEN acc
        ELSE [left |-> acc.left - move,
              pieces |-> Append(acc.pieces, [from |-> s, qty |-> move])]
DrawnSoFar(b, x, y, z, froms, base, k, acc) ==
    acc.left \in Nat /\ Pieces(b, {froms[i] : i \in 1..k}, acc.pieces)
Draws == INSTANCE FoldInduction WITH Step <- DrawStep, Final <- Max, Holds <- DrawnSoFar

LEMMA DrawOne ==
  ASSUME NEW to, NEW froms, Sources(froms, to), NEW b \in [Statuses -> Nat], NEW base,
         NEW k \in 1..Len(froms), NEW acc, DrawnSoFar(b, 0, 0, 0, froms, base, k - 1, acc)
  PROVE  DrawnSoFar(b, 0, 0, 0, froms, base, k, DrawStep(b, 0, 0, 0, froms, acc, froms[k]))
<1>1. PICK F, G, ps, left : /\ F = {froms[i] : i \in 1..(k - 1)} /\ G = {froms[i] : i \in 1..k}
                            /\ ps = acc.pieces /\ left = acc.left
  OBVIOUS
<1>2. left \in Nat /\ Pieces(b, F, ps)
  BY <1>1 DEF DrawnSoFar
<1>3. /\ froms[k] \in Statuses /\ froms[k] \notin F /\ froms[k] \in G /\ F \subseteq G
      /\ b[froms[k]] \in Nat
  BY <1>1 DEF Sources
<1>4. PICK m : m = Min({left, b[froms[k]]})
  OBVIOUS
<1>5. m \in Nat /\ m <= left /\ m <= b[froms[k]]
  BY <1>2, <1>3, <1>4, MinOfTwo
<1>6. PICK p : p = [from |-> froms[k], qty |-> m]
  OBVIOUS
<1>7. Pieces(b, G, ps)
  <2>1. ps \in Seq([from : F, qty : Nat])
    BY <1>2 DEF Pieces
  <2>2. [from : F, qty : Nat] \subseteq [from : G, qty : Nat]
    BY <1>3
  <2>3. ps \in Seq([from : G, qty : Nat])
    BY <2>1, <2>2, SeqGrows
  <2> QED BY <1>2, <2>3 DEF Pieces
<1>8. Pieces(b, G, Append(ps, p))
  <2>1. p \in [from : G, qty : Nat] /\ p.from = froms[k] /\ p.qty = m
    BY <1>3, <1>5, <1>6
  <2>2. ps \in Seq([from : F, qty : Nat]) /\ ps \in Seq([from : G, qty : Nat])
    BY <1>2, <1>7 DEF Pieces
  <2>3. PICK qs : qs = Append(ps, p)
    OBVIOUS
  <2>4. /\ qs \in Seq([from : G, qty : Nat]) /\ DOMAIN ps = 1..Len(ps) /\ Len(ps) \in Nat
        /\ DOMAIN qs = 1..(Len(ps) + 1) /\ qs[Len(ps) + 1] = p
        /\ \A i \in 1..Len(ps) : qs[i] = ps[i]
    BY <2>1, <2>2, <2>3
  <2>5. \A i \in DOMAIN ps : ps[i].from # p.from /\ ps[i].qty <= b[ps[i].from]
    <3> TAKE i \in DOMAIN ps
    <3>1. ps[i] \in [from : F, qty : Nat]
      BY <2>2, SeqElement
    <3>2. ps[i].from \in F
      BY <3>1
    <3> QED BY <1>2, <1>3, <2>1, <3>2 DEF Pieces
  <2>6. \A i \in DOMAIN qs : qs[i] = p \/ (i \in DOMAIN ps /\ qs[i] = ps[i])
    BY <2>4
  <2>7. \A i \in DOMAIN qs : qs[i].qty <= b[qs[i].from]
    BY <1>5, <2>1, <2>5, <2>6
  <2>8. \A i, j \in DOMAIN qs : i # j => qs[i].from # qs[j].from
    <3> SUFFICES ASSUME NEW i \in DOMAIN qs, NEW j \in DOMAIN qs, i # j
                 PROVE  qs[i].from # qs[j].from
      OBVIOUS
    <3>1. i \in DOMAIN ps \/ i = Len(ps) + 1
      BY <2>4
    <3>2. j \in DOMAIN ps \/ j = Len(ps) + 1
      BY <2>4
    <3>3. CASE i \in DOMAIN ps /\ j \in DOMAIN ps
      BY <1>2, <2>4, <3>3 DEF Pieces
    <3>4. CASE i \in DOMAIN ps /\ j = Len(ps) + 1
      BY <2>4, <2>5, <3>4
    <3>5. CASE i = Len(ps) + 1 /\ j \in DOMAIN ps
      BY <2>4, <2>5, <3>5
    <3> QED BY <3>1, <3>2, <3>3, <3>4, <3>5
  <2> QED BY <2>3, <2>4, <2>7, <2>8 DEF Pieces
<1>9. DrawStep(b, 0, 0, 0, froms, acc, froms[k])
        = IF m = 0 THEN acc ELSE [left |-> left - m, pieces |-> Append(ps, p)]
  BY <1>1, <1>4, <1>6 DEF DrawStep
<1>10. CASE m = 0
  BY <1>1, <1>2, <1>7, <1>9, <1>10 DEF DrawnSoFar
<1>11. CASE m # 0
  <2>1. left - m \in Nat
    BY <1>2, <1>5
  <2>2. PICK new : new = DrawStep(b, 0, 0, 0, froms, acc, froms[k])
    OBVIOUS
  <2>3. new.left = left - m /\ new.pieces = Append(ps, p)
    BY <1>9, <1>11, <2>2
  <2>4. DrawnSoFar(b, 0, 0, 0, froms, base, k, new)
    BY <1>1, <1>8, <2>1, <2>3 DEF DrawnSoFar
  <2> QED BY <2>2, <2>4
<1> QED BY <1>10, <1>11

LEMMA DrawnPieces ==
  ASSUME NEW to, NEW froms, Sources(froms, to), NEW b \in [Statuses -> Nat], NEW qty \in Nat
  PROVE  Pieces(b, Statuses \ {to}, Drawn(b, froms, qty).pieces)
<1>1. PICK base : base = [left |-> qty, pieces |-> <<>>]
  OBVIOUS
<1>2. Drawn(b, froms, qty) = Draws!OverSeq(b, 0, 0, 0, froms, base, froms)
  BY <1>1 DEF Drawn, Draws!OverSeq, DrawStep, FoldLeft, MapThenFoldSet,
              Draws!MapThenFoldSet
<1>3. PICK n : n = Len(froms)
  OBVIOUS
<1>4. n \in Nat /\ DOMAIN froms = 1..n
  BY <1>3 DEF Sources
<1>5. DrawnSoFar(b, 0, 0, 0, froms, base, 0, base)
  BY <1>1 DEF DrawnSoFar, Pieces
<1>6. \A k \in 1..n : \A acc :
          DrawnSoFar(b, 0, 0, 0, froms, base, k - 1, acc)
            => DrawnSoFar(b, 0, 0, 0, froms, base, k, DrawStep(b, 0, 0, 0, froms, acc, froms[k]))
  BY <1>3, DrawOne
<1>7. DrawnSoFar(b, 0, 0, 0, froms, base, n, Drawn(b, froms, qty))
  <2>1. Draws!Founded(1..n) /\ Draws!Latest(n)
    BY <1>4, PositionsFounded DEF Draws!Founded, Draws!Latest
  <2> QED BY <1>2, <1>4, <1>5, <1>6, <2>1, Draws!SeqInduction
<1>8. PICK G, ps : G = {froms[i] : i \in 1..n} /\ ps = Drawn(b, froms, qty).pieces
  OBVIOUS
<1>9. Pieces(b, G, ps)
  BY <1>7, <1>8 DEF DrawnSoFar
<1>10. G \subseteq Statuses \ {to}
  BY <1>4, <1>8 DEF Sources
<1>11. [from : G, qty : Nat] \subseteq [from : Statuses \ {to}, qty : Nat]
  BY <1>10
<1>12. ps \in Seq([from : Statuses \ {to}, qty : Nat])
  <2>1. ps \in Seq([from : G, qty : Nat])
    BY <1>9 DEF Pieces
  <2> QED BY <1>11, <2>1, SeqGrows
<1> QED BY <1>8, <1>9, <1>12 DEF Pieces

\* The buckets on the way: before the k-th move they still have what it takes.
MoveStep(to, x, y, z, e, acc, m) == MoveQty(acc, m.from, to, m.qty)
Unused(to, x, y, z, e, base, k, acc) == TRUE
Moves == INSTANCE FoldInduction WITH Step <- MoveStep, Final <- Max, Holds <- Unused

\* f leads from b through the pieces.
Leads(f, b, ps, to) ==
    /\ f[0] = b
    /\ \A k \in 1..Len(ps) : f[k] = MoveQty(f[k - 1], ps[k].from, to, ps[k].qty)

Through(f, b, ps) ==
    \A k \in 0..Len(ps) :
        /\ f[k] \in [Statuses -> Nat]
        /\ \A j \in DOMAIN ps : j > k => f[k][ps[j].from] = b[ps[j].from]

LEMMA OthersStay ==
  ASSUME NEW a \in [Statuses -> Nat], NEW from \in Statuses, NEW to \in Statuses, from # to,
         NEW qty \in Nat, qty <= a[from], NEW m, m = MoveQty(a, from, to, qty)
  PROVE  m \in [Statuses -> Nat] /\ \A s \in Statuses : s # to /\ s # from => m[s] = a[s]
<1>1. /\ m \in [Statuses -> Nat]
      /\ \A s \in Statuses : m[s] = a[s] + (IF s = to THEN qty ELSE 0)
                                        - (IF s = from THEN qty ELSE 0)
  BY BucketMoves
<1> QED BY <1>1

LEMMA PiecesLead ==
  ASSUME NEW to \in Statuses, NEW b \in [Statuses -> Nat], NEW ps,
         Pieces(b, Statuses \ {to}, ps), NEW f, Leads(f, b, ps, to)
  PROVE  Through(f, b, ps)
<1> DEFINE Fine(k) == /\ f[k] \in [Statuses -> Nat]
                      /\ \A j \in DOMAIN ps : j > k => f[k][ps[j].from] = b[ps[j].from]
           Bad == {k \in 0..Len(ps) : ~Fine(k)}
<1> SUFFICES ASSUME Bad # {} PROVE FALSE
  BY DEF Through
<1>1. /\ Len(ps) \in Nat /\ DOMAIN ps = 1..Len(ps)
      /\ \A j \in DOMAIN ps : ps[j].from \in Statuses /\ ps[j].from # to /\ ps[j].qty \in Nat
  <2>1. ps \in Seq([from : Statuses \ {to}, qty : Nat])
    BY DEF Pieces
  <2>2. \A j \in DOMAIN ps : ps[j] \in [from : Statuses \ {to}, qty : Nat]
    BY <2>1, SeqElement
  <2> QED BY <2>1, <2>2
<1>2. PICK k \in Bad : \A m \in Bad : k <= m
  <2>1. Bad \subseteq Nat
    BY <1>1
  <2> HIDE DEF Bad
  <2> QED BY <2>1, SmallestOf
<1>3. k \in 0..Len(ps) /\ ~Fine(k)
  OBVIOUS
<1>4. CASE k = 0
  BY <1>3, <1>4 DEF Leads
<1>5. CASE k # 0
  <2>1. k \in 1..Len(ps) /\ k - 1 \in 0..Len(ps) /\ ~(k <= k - 1)
    BY <1>1, <1>3, <1>5
  <2>2. Fine(k - 1)
    BY <1>2, <2>1
  <2>3. PICK a, m, from, qty : a = f[k - 1] /\ m = f[k] /\ from = ps[k].from /\ qty = ps[k].qty
    OBVIOUS
  <2>4. /\ a \in [Statuses -> Nat] /\ m = MoveQty(a, from, to, qty)
        /\ from \in Statuses /\ from # to /\ qty \in Nat /\ qty <= a[from]
    <3>1. k \in DOMAIN ps /\ k > k - 1
      BY <1>1, <2>1
    <3>2. ps[k].qty <= b[ps[k].from] /\ f[k - 1][ps[k].from] = b[ps[k].from]
      BY <2>2, <3>1 DEF Pieces
    <3> QED BY <1>1, <2>1, <2>2, <2>3, <3>1, <3>2 DEF Leads
  <2>5. /\ m \in [Statuses -> Nat]
        /\ \A s \in Statuses : s # to /\ s # from => m[s] = a[s]
    <3> HIDE DEF Bad, Fine
    <3> QED BY <2>4, OthersStay
  <2>7. ASSUME NEW j \in DOMAIN ps, j > k PROVE m[ps[j].from] = b[ps[j].from]
    <3>1. j > k - 1 /\ j # k /\ k \in DOMAIN ps
      BY <1>1, <2>1, <2>7
    <3>2. ps[j].from # from
      BY <2>3, <3>1 DEF Pieces
    <3>3. a[ps[j].from] = b[ps[j].from]
      BY <2>2, <2>3, <3>1
    <3> QED BY <1>1, <2>5, <3>2, <3>3
  <2>8. Fine(k)
    BY <2>3, <2>5, <2>7
  <2> QED BY <1>3, <2>8
<1> QED BY <1>4, <1>5

\* One history for each piece; between them the ledger is that of the buckets
\* on the way.
ExplainStep(r, event, doc, to, e, acc, m) ==
    AddHistory(acc, History(r, event, doc, m.from, to, m.qty, NoHistory))
Explaining(r, event, doc, to, e, base, k, acc) ==
    /\ IsRdTxn(acc) /\ acc.ok = base.ok
    /\ SameExcept({"histories"}, base.v, acc.v) /\ SameExcept({"histories"}, base.c, acc.c)
    /\ Grows(base.v.histories, acc.v.histories) /\ Grows(base.c.histories, acc.c.histories)
    /\ e.on => /\ Ledgered(acc.c.histories, [e.B EXCEPT ![r] = e.f[k]], e.S)
               /\ Grows(acc.v.histories, acc.c.histories)
Explains == INSTANCE FoldInduction WITH Step <- ExplainStep, Final <- Max, Holds <- Explaining

LEMMA ExplainOne ==
  ASSUME NEW r \in Requests, NEW event, event # "created", NEW doc, NEW to \in Statuses,
         NEW b \in [Statuses -> Nat], NEW ps, Pieces(b, Statuses \ {to}, ps),
         NEW f, Leads(f, b, ps, to), NEW B \in [Requests -> [Statuses -> Nat]],
         NEW S, S[r] # "none", NEW on \in BOOLEAN, NEW e, e = [f |-> f, B |-> B, S |-> S, on |-> on],
         NEW base, NEW k \in 1..Len(ps), NEW acc, Explaining(r, event, doc, to, e, base, k - 1, acc)
  PROVE  Explaining(r, event, doc, to, e, base, k, ExplainStep(r, event, doc, to, e, acc, ps[k]))
<1>1. PICK from, qty, n : from = ps[k].from /\ qty = ps[k].qty /\ n = NextHistory(acc)
  OBVIOUS
<1>2. /\ k \in DOMAIN ps /\ k - 1 \in 0..Len(ps) /\ k > k - 1
      /\ from \in Statuses /\ from # to /\ qty \in Nat /\ qty <= b[from]
  <2>1. ps \in Seq([from : Statuses \ {to}, qty : Nat])
    BY DEF Pieces
  <2>2. /\ Len(ps) \in Nat /\ DOMAIN ps = 1..Len(ps)
        /\ \A j \in DOMAIN ps : ps[j] \in [from : Statuses \ {to}, qty : Nat]
    BY <2>1, SeqElement
  <2>3. k \in DOMAIN ps /\ k - 1 \in 0..Len(ps) /\ k > k - 1
    BY <2>2
  <2>4. ps[k] \in [from : Statuses \ {to}, qty : Nat]
    BY <2>2, <2>3
  <2>5. from \in Statuses /\ from # to /\ qty \in Nat
    BY <1>1, <2>4
  <2>6. qty <= b[from]
    BY <1>1, <2>3 DEF Pieces
  <2> QED BY <2>3, <2>5, <2>6
<1>3. /\ f[k - 1] \in [Statuses -> Nat] /\ f[k - 1][from] = b[from]
      /\ f[k] = MoveQty(f[k - 1], from, to, qty)
  <2>1. f[k] = MoveQty(f[k - 1], from, to, qty)
    BY <1>1 DEF Leads
  <2>2. PICK i \in 0..Len(ps) : i = k - 1
    BY <1>2
  <2>3. /\ f[i] \in [Statuses -> Nat]
        /\ \A j \in DOMAIN ps : j > i => f[i][ps[j].from] = b[ps[j].from]
    <3>1. Through(f, b, ps)
      BY PiecesLead
    <3> QED BY <3>1 DEF Through
  <2>4. f[i][ps[k].from] = b[ps[k].from]
    BY <1>2, <2>2, <2>3
  <2> QED BY <1>1, <2>1, <2>2, <2>3, <2>4
<1>4. /\ IsRdTxn(acc) /\ acc.ok = base.ok
      /\ SameExcept({"histories"}, base.v, acc.v) /\ SameExcept({"histories"}, base.c, acc.c)
      /\ Grows(base.v.histories, acc.v.histories) /\ Grows(base.c.histories, acc.c.histories)
      /\ on => /\ Ledgered(acc.c.histories, [B EXCEPT ![r] = f[k - 1]], S)
               /\ Grows(acc.v.histories, acc.c.histories)
  BY DEF Explaining
<1>5. PICK h, row : /\ h = History(r, event, doc, from, to, qty, NoHistory)
                    /\ row = Numbered(h, n)
  OBVIOUS
<1>6. n = Cardinality(acc.c.histories) + 1 /\ n \in Nat
  <2>1. IsFiniteSet(acc.c.histories)
    BY <1>4 DEF IsRdTxn, IsRd, Rows
  <2>2. Cardinality(acc.c.histories) \in Nat
    BY <2>1, FS_CardinalityType
  <2> QED BY <1>1, <2>2 DEF NextHistory
<1>7. /\ row.id = n /\ row.rev = NoHistory /\ row.undone = FALSE /\ row.from = from /\ row.to = to
      /\ row.qty = qty /\ row.of = r /\ row.event = event /\ DOMAIN row = HistoryFields
  BY <1>5 DEF History, HistoryFields, Numbered
<1>8. IsRow(row)
  <2>1. row.rev \in Nat /\ row.id \in Nat /\ row.qty \in Nat
    BY <1>2, <1>6, <1>7 DEF NoHistory
  <2>3. row.undone \in BOOLEAN
    BY <1>7, Zenon
  <2>2. /\ row.of \in Requests /\ row.to \in Statuses /\ row.from \in Statuses \cup {"none"}
        /\ row.from # row.to /\ row.event # "created"
    BY <1>2, <1>7
  <2> QED BY <1>7, <2>1, <2>2, <2>3 DEF IsRow
<1>9. PICK u : u = AddHistory(acc, h)
  OBVIOUS
<1>10. /\ IsRdTxn(u) /\ u.ok = acc.ok
       /\ u.v.histories = acc.v.histories \cup {row} /\ u.c.histories = acc.c.histories \cup {row}
       /\ SameExcept({"histories"}, acc.v, u.v) /\ SameExcept({"histories"}, acc.c, u.c)
  <2>1. row = Numbered(h, NextHistory(acc))
    BY <1>1, <1>5
  <2> QED BY <1>4, <1>8, <1>9, <2>1, AddHistoryForm
<1>11. /\ SameExcept({"histories"}, base.v, u.v) /\ SameExcept({"histories"}, base.c, u.c)
  BY <1>4, <1>10 DEF SameExcept
<1>12. Grows(acc.v.histories, u.v.histories) /\ Grows(acc.c.histories, u.c.histories)
  BY <1>10, GrowsItself
<1>13. Grows(base.v.histories, u.v.histories) /\ Grows(base.c.histories, u.c.histories)
  BY <1>4, <1>12, GrowsFurther
<1>14. ASSUME on
       PROVE  Ledgered(u.c.histories, [B EXCEPT ![r] = f[k]], S) /\ Grows(u.v.histories, u.c.histories)
  <2>1. PICK A, H, M, C : /\ A = [B EXCEPT ![r] = f[k - 1]] /\ H = acc.c.histories
                          /\ M = u.c.histories /\ C = [A EXCEPT ![r] = MoveQty(A[r], from, to, qty)]
    OBVIOUS
  <2>2. Ledgered(H, A, S) /\ M = H \cup {row} /\ A[r] = f[k - 1]
    BY <1>4, <1>10, <1>14, <2>1
  <2>3. Ledgered(M, C, S)
    BY <1>2, <1>3, <1>6, <1>7, <1>8, <2>1, <2>2, LedgerAdds
  <2>4. C = [B EXCEPT ![r] = f[k]]
    BY <1>3, <2>1, <2>2
  <2>5. Grows(acc.v.histories, acc.c.histories)
    BY <1>4, <1>14
  <2>6. Grows(u.v.histories, u.c.histories)
    BY <1>10, <2>5 DEF Grows, Fixed
  <2> QED BY <2>1, <2>3, <2>4, <2>6
<1>15. u = ExplainStep(r, event, doc, to, e, acc, ps[k])
  BY <1>1, <1>5, <1>9 DEF ExplainStep
<1>16. Explaining(r, event, doc, to, e, base, k, u)
  BY <1>4, <1>10, <1>11, <1>13, <1>14 DEF Explaining
<1> QED BY <1>15, <1>16

LEMMA TransferRuns ==
  ASSUME NEW t, IsRdTxn(t), NEW r \in Requests, t.c.status[r] # "none", NEW event,
         event # "created", NEW doc, NEW froms, NEW to \in Statuses, Sources(froms, to),
         NEW qty \in Nat
  PROVE  Runs(t, Transfer(t, r, event, doc, froms, to, qty))
<1>1. PICK b \in [Statuses -> Nat] : b = t.v.buckets[r]
  BY DEF IsRdTxn, IsRd
<1>2. PICK left, ps : left = Drawn(b, froms, qty).left /\ ps = Drawn(b, froms, qty).pieces
  OBVIOUS
<1>3. /\ Pieces(b, Statuses \ {to}, ps) /\ Len(ps) \in Nat /\ DOMAIN ps = 1..Len(ps)
  <2>1. Pieces(b, Statuses \ {to}, ps)
    BY <1>2, DrawnPieces
  <2>2. ps \in Seq([from : Statuses \ {to}, qty : Nat])
    BY <2>1 DEF Pieces
  <2> QED BY <2>1, <2>2, SeqElement
<1>4. PICK n \in Nat : n = Len(ps) /\ DOMAIN ps = 1..n
  BY <1>3
<1>5. PICK f : Moves!IsChain(f, to, 0, 0, 0, 0, b, n, ps)
  <2>1. Moves!Founded(1..n) /\ Moves!Latest(n)
    BY PositionsFounded DEF Moves!Founded, Moves!Latest
  <2> QED BY <1>4, <2>1, Moves!SeqChain
<1>6. Leads(f, b, ps, to) /\ f[n] \in [Statuses -> Nat]
  <2>1. Leads(f, b, ps, to)
    BY <1>4, <1>5 DEF Moves!IsChain, Leads, MoveStep
  <2>2. n \in 0..Len(ps)
    BY <1>4
  <2>3. Through(f, b, ps)
    BY <1>3, <2>1, PiecesLead
  <2> QED BY <2>1, <2>2, <2>3 DEF Through
<1>7. FoldLeft(LAMBDA acc, m : MoveQty(acc, m.from, to, m.qty), b, ps) = f[n]
  <2>1. Moves!OverSeq(to, 0, 0, 0, 0, b, ps) = f[n]
    BY <1>5 DEF Moves!IsChain
  <2>2. FoldLeft(LAMBDA acc, m : MoveQty(acc, m.from, to, m.qty), b, ps)
           = Moves!OverSeq(to, 0, 0, 0, 0, b, ps)
    BY DEF Moves!OverSeq, MoveStep, FoldLeft, MapThenFoldSet,
           Moves!MapThenFoldSet
  <2> QED BY <2>1, <2>2
<1>8. PICK last, base : last = f[n] /\ base = SetBuckets(t, r, last)
  OBVIOUS
<1>9. /\ IsRdTxn(base) /\ (base.ok => t.ok)
      /\ SameExcept({"buckets"}, t.v, base.v) /\ SameExcept({"buckets"}, t.c, base.c)
      /\ base.ok => /\ t.c.buckets[r] = t.v.buckets[r]
                    /\ base.c.buckets = [t.c.buckets EXCEPT ![r] = f[n]]
  <2>1. last \in [Statuses -> Nat]
    BY <1>6, <1>8
  <2>2. /\ IsRdTxn(base) /\ (base.ok => t.ok)
        /\ SameExcept({"buckets"}, t.v, base.v) /\ SameExcept({"buckets"}, t.c, base.c)
        /\ base.ok => /\ t.c.buckets[r] = t.v.buckets[r]
                      /\ base.c.buckets = Reset(t.c.buckets, r, last)
    BY <1>8, <2>1, SetBucketsForm
  <2> QED BY <1>8, <2>2 DEF Reset
<1>20. PICK B \in [Requests -> [Statuses -> Nat]] : B = t.c.buckets
  BY DEF IsRdTxn, IsRd
<1>21. PICK on \in BOOLEAN : on <=> (base.ok /\ Booked(t))
  OBVIOUS
<1>10. PICK S : B = t.c.buckets /\ S = t.c.status /\ (on <=> (base.ok /\ Booked(t)))
  BY <1>20, <1>21
<1>11. PICK e : e = [f |-> f, B |-> B, S |-> S, on |-> on]
  OBVIOUS
<1>12. /\ base.v.histories = t.v.histories /\ base.c.histories = t.c.histories
  BY <1>9 DEF SameExcept, IsRdTxn, IsRd, RdColumns
<1>13. Explaining(r, event, doc, to, e, base, 0, base)
  <2>1. SameExcept({"histories"}, base.v, base.v) /\ SameExcept({"histories"}, base.c, base.c)
    BY DEF SameExcept
  <2>2. Grows(base.v.histories, base.v.histories) /\ Grows(base.c.histories, base.c.histories)
    BY GrowsItself
  <2>3. ASSUME on
        PROVE  /\ Ledgered(base.c.histories, [B EXCEPT ![r] = f[0]], S)
               /\ Grows(base.v.histories, base.c.histories)
    <3>1. base.ok /\ Booked(t)
      BY <1>10, <2>3
    <3>2. [B EXCEPT ![r] = f[0]] = B
      BY <1>1, <1>6, <1>9, <1>10, <3>1 DEF Leads
    <3> QED BY <1>10, <1>12, <3>1, <3>2 DEF Booked
  <2>4. e.on = on /\ e.B = B /\ e.f = f /\ e.S = S
    BY <1>11
  <2> QED BY <1>9, <2>1, <2>2, <2>3, <2>4 DEF Explaining
<1>14. PICK u : u = Explains!OverSeq(r, event, doc, to, e, base, ps)
  OBVIOUS
<1>15. Explaining(r, event, doc, to, e, base, n, u)
  <2>1. \A k \in 1..n : \A acc :
            Explaining(r, event, doc, to, e, base, k - 1, acc)
              => Explaining(r, event, doc, to, e, base, k, ExplainStep(r, event, doc, to, e, acc, ps[k]))
    <3> TAKE k \in 1..n
    <3> TAKE acc
    <3> HAVE Explaining(r, event, doc, to, e, base, k - 1, acc)
    <3> QED BY <1>3, <1>4, <1>6, <1>10, <1>11, ExplainOne
  <2>2. Explains!Founded(1..n) /\ Explains!Latest(n)
    BY PositionsFounded DEF Explains!Founded, Explains!Latest
  <2> QED BY <1>4, <1>13, <1>14, <2>1, <2>2, Explains!SeqInduction
<1>16. Runs(t, u)
  <2>1. /\ IsRdTxn(u) /\ u.ok = base.ok
        /\ SameExcept({"histories"}, base.v, u.v) /\ SameExcept({"histories"}, base.c, u.c)
        /\ Grows(base.v.histories, u.v.histories) /\ Grows(base.c.histories, u.c.histories)
        /\ on => /\ Ledgered(u.c.histories, [B EXCEPT ![r] = f[n]], S)
                 /\ Grows(u.v.histories, u.c.histories)
    BY <1>11, <1>15 DEF Explaining
  <2>2. SameExcept(Moving, t.v, u.v) /\ SameExcept(Moving, t.c, u.c)
    BY <1>9, <2>1 DEF SameExcept, Moving
  <2>3. u.c.status = t.c.status /\ u.c.buckets = base.c.buckets
    BY <1>9, <2>1 DEF SameExcept, IsRdTxn, IsRd, RdColumns
  <2>4. ASSUME u.ok, Booked(t) PROVE Booked(u)
    BY <1>9, <1>10, <2>1, <2>3, <2>4 DEF Booked
  <2> QED BY <1>9, <1>12, <2>1, <2>2, <2>4 DEF Runs
<1>17. Transfer(t, r, event, doc, froms, to, qty) = IF left > 0 THEN Fail(t) ELSE u
  <2>1. u = FoldLeft(LAMBDA acc, m :
                         AddHistory(acc, History(r, event, doc, m.from, to, m.qty, NoHistory)),
                     base, ps)
    BY <1>14 DEF Explains!OverSeq, ExplainStep, FoldLeft, MapThenFoldSet,
                 Explains!MapThenFoldSet
  <2>2. PICK drawn : drawn = Drawn(b, froms, qty)
    OBVIOUS
  <2> QED BY <1>1, <1>2, <1>7, <1>8, <2>1, <2>2 DEF Transfer
<1> QED BY <1>16, <1>17, FailRuns

-----------------------------------------------------------------------------
(* Rollbacks.                                                              *)

Undone(H, id) == {IF h.id \in {id} THEN [h EXCEPT !.undone = TRUE] ELSE h : h \in H}
Ended(h) == [h EXCEPT !.undone = TRUE]

LEMMA EndedForm ==
  ASSUME NEW h, IsRow(h), NEW g, g = Ended(h)
  PROVE  IsRow(g) /\ Fixed(h, g) /\ g.undone = TRUE
<1>1. /\ DOMAIN g = HistoryFields /\ g.undone = TRUE
      /\ \A x \in HistoryFields : x # "undone" => g[x] = h[x]
  BY DEF IsRow, Ended, HistoryFields
<1>2. Fixed(h, g)
  BY <1>1 DEF Fixed, FixedFields, HistoryFields
<1>3. g.undone \in BOOLEAN
  BY <1>1, Zenon
<1> QED BY <1>1, <1>2, <1>3, FixedMeans DEF IsRow

LEMMA UndoneRows ==
  ASSUME NEW H, Rows(H), NEW id, NEW A, A = Undone(H, id)
  PROVE  /\ Rows(A) /\ Grows(H, A) /\ Grows(A, H)
         /\ \A x \in H : x.id = id /\ (\A h \in H : h.id = id => h = x)
                           => A = (H \ {x}) \cup {Ended(x)}
<1>1. PICK m : m = [h \in H |-> IF h.id \in {id} THEN Ended(h) ELSE h]
  OBVIOUS
<1>2. DOMAIN m = H /\ \A h \in H : IsRow(m[h]) /\ Fixed(h, m[h])
  <2>1. ASSUME NEW h \in H PROVE IsRow(m[h]) /\ Fixed(h, m[h])
    <3>1. CASE h.id \in {id}
      BY <1>1, <3>1, EndedForm DEF Rows
    <3>2. CASE h.id \notin {id}
      BY <1>1, <3>2 DEF Rows, Fixed
    <3> QED BY <3>1, <3>2
  <2> QED BY <1>1, <2>1
<1>3. A = {m[h] : h \in H}
  <2>1. \A h \in H : m[h] = IF h.id \in {id} THEN [h EXCEPT !.undone = TRUE] ELSE h
    BY <1>1 DEF Ended
  <2> QED BY <2>1 DEF Undone
<1>4. ASSUME NEW x \in H, x.id = id, \A h \in H : h.id = id => h = x
      PROVE  A = (H \ {x}) \cup {Ended(x)}
  <2>1. m[x] = Ended(x)
    BY <1>1, <1>4
  <2>2. m[x].id = id
    BY <1>2, <1>4, FixedMeans
  <2>3. \A h \in H : h # x => m[h] = h /\ h # m[x]
    BY <1>1, <1>4, <2>2
  <2> QED BY <1>2, <1>3, <2>1, <2>3, RowsMarked
<1> QED BY <1>2, <1>3, <1>4, RowsMarked

LEMMA ReverseHistoryRuns ==
  ASSUME NEW t, IsRdTxn(t), NEW id, \E g \in t.v.histories : g.id = id
  PROVE  Runs(t, ReverseHistory(t, id))
<1>1. PICK h : h = HistoryById(t.v, id)
  OBVIOUS
<1>2. h \in t.v.histories /\ h.id = id /\ IsRow(h)
  <2>1. h \in t.v.histories /\ h.id = id
    BY <1>1 DEF HistoryById
  <2> QED BY <2>1 DEF IsRdTxn, IsRd, Rows
<1>3. PICK b \in [Statuses -> Nat] : b = t.v.buckets[h.of]
  BY <1>2 DEF IsRdTxn, IsRd, IsRow
<1>4. CASE ~t.ok \/ h.rev # NoHistory \/ h.from = "none"
  BY <1>1, <1>4, FailRuns DEF ReverseHistory
<1>5. CASE ~(~t.ok \/ h.rev # NoHistory \/ h.from = "none") /\ h.undone
  BY <1>1, <1>5, RunsItself DEF ReverseHistory
<1>6. CASE /\ ~(~t.ok \/ h.rev # NoHistory \/ h.from = "none") /\ ~h.undone
           /\ b[h.to] < h.qty \/ ~NotYetReversed(t, id)
  BY <1>1, <1>3, <1>6, FailRuns DEF ReverseHistory
<1>7. CASE /\ ~(~t.ok \/ h.rev # NoHistory \/ h.from = "none") /\ ~h.undone
           /\ ~(b[h.to] < h.qty \/ ~NotYetReversed(t, id))
  <2>1. /\ h.from \in Statuses /\ h.to \in Statuses /\ h.from # h.to /\ h.qty \in Nat
        /\ h.of \in Requests /\ h.qty <= b[h.to] /\ h.rev = NoHistory
    BY <1>2, <1>3, <1>7 DEF IsRow
  <2>2. PICK m : m = MoveQty(b, h.to, h.from, h.qty)
    OBVIOUS
  <2>3. m \in [Statuses -> Nat]
    BY <2>1, <2>2, OthersStay
  <2>4. PICK base : base = SetBuckets(t, h.of, m)
    OBVIOUS
  <2>5. /\ IsRdTxn(base) /\ (base.ok => t.ok)
        /\ SameExcept({"buckets"}, t.v, base.v) /\ SameExcept({"buckets"}, t.c, base.c)
        /\ base.ok => /\ t.c.buckets[h.of] = t.v.buckets[h.of]
                      /\ base.c.buckets = Reset(t.c.buckets, h.of, m)
    BY <2>3, <2>4, SetBucketsForm
  <2>6. base.v.histories = t.v.histories /\ base.c.histories = t.c.histories
    BY <2>5 DEF SameExcept, IsRdTxn, IsRd, RdColumns
  <2>7. PICK A, K : A = Undone(t.v.histories, id) /\ K = Undone(t.c.histories, id)
    OBVIOUS
  <2>8. /\ Rows(A) /\ Grows(t.v.histories, A) /\ Grows(A, t.v.histories)
        /\ Rows(K) /\ Grows(t.c.histories, K) /\ Grows(K, t.c.histories)
        /\ \A x \in t.c.histories : x.id = id /\ (\A g \in t.c.histories : g.id = id => g = x)
                           => K = (t.c.histories \ {x}) \cup {Ended(x)}
    <3>1. Rows(t.v.histories) /\ Rows(t.c.histories)
      BY DEF IsRdTxn, IsRd
    <3> QED BY <2>7, <3>1, UndoneRows
  <2>9. PICK v, c : v = [base.v EXCEPT !.histories = A] /\ c = [base.c EXCEPT !.histories = K]
    OBVIOUS
  <2>10. /\ IsRd(v) /\ v.histories = A /\ SameExcept({"histories"}, base.v, v)
         /\ IsRd(c) /\ c.histories = K /\ SameExcept({"histories"}, base.c, c)
    <3>1. IsRd(base.v) /\ IsRd(base.c)
      BY <2>5 DEF IsRdTxn
    <3>2. IsRd(v) /\ v.histories = A /\ SameExcept({"histories"}, base.v, v)
      BY <2>8, <2>9, <3>1, HistoriesForm
    <3>3. IsRd(c) /\ c.histories = K /\ SameExcept({"histories"}, base.c, c)
      BY <2>8, <2>9, <3>1, HistoriesForm
    <3> QED BY <3>2, <3>3
  <2>11. PICK marked : marked = Having(base, v, c)
    OBVIOUS
  <2>12. marked.v = v /\ marked.c = c /\ marked.ok = base.ok /\ IsRdTxn(marked)
    BY <2>5, <2>10, <2>11, RdForms
  <2>13. PICK g, w : /\ g = History(h.of, "rollback", h.doc, h.to, h.from, h.qty, id)
                     /\ w = Numbered(g, NextHistory(marked))
    OBVIOUS
  <2>14. w.id = Cardinality(K) + 1 /\ w.id \in Nat
    <3>1. w.id = Cardinality(K) + 1
      BY <2>10, <2>12, <2>13 DEF Numbered, History, NextHistory
    <3>2. Cardinality(K) \in Nat
      BY <2>8, FS_CardinalityType DEF Rows
    <3> QED BY <3>1, <3>2
  <2>15. /\ DOMAIN w = HistoryFields /\ w.rev = id /\ w.of = h.of /\ w.from = h.to /\ w.to = h.from
         /\ w.qty = h.qty /\ w.event = "rollback" /\ w.undone = FALSE
    BY <2>13 DEF Numbered, History, HistoryFields
  <2>16. IsRow(w)
    <3>1. w.undone \in BOOLEAN
      BY <2>15, Zenon
    <3>2. w.rev \in Nat
      BY <1>2, <2>15 DEF IsRow
    <3> QED BY <2>1, <2>14, <2>15, <3>1, <3>2 DEF IsRow
  <2>17. PICK u : u = AddHistory(marked, g)
    OBVIOUS
  <2>18. /\ IsRdTxn(u) /\ u.ok = marked.ok
         /\ u.v.histories = marked.v.histories \cup {w} /\ u.c.histories = marked.c.histories \cup {w}
         /\ SameExcept({"histories"}, marked.v, u.v) /\ SameExcept({"histories"}, marked.c, u.c)
    BY <2>12, <2>13, <2>16, <2>17, AddHistoryForm
  <2>19. ReverseHistory(t, id) = u
    <3>1. marked = MarkHistories(base, {id}, LAMBDA row : [row EXCEPT !.undone = TRUE])
      BY <2>6, <2>7, <2>9, <2>11 DEF MarkHistories, Both, Having, Undone
    <3> QED BY <1>1, <1>3, <1>7, <2>2, <2>4, <2>13, <2>17, <3>1 DEF ReverseHistory
  <2>20. /\ SameExcept(Moving, t.v, u.v) /\ SameExcept(Moving, t.c, u.c)
    BY <2>5, <2>10, <2>12, <2>18 DEF SameExcept, Moving
  <2>21. Grows(t.v.histories, u.v.histories) /\ Grows(t.c.histories, u.c.histories)
    <3>1. Grows(A, u.v.histories) /\ Grows(K, u.c.histories)
      BY <2>10, <2>12, <2>18, GrowsItself
    <3> QED BY <2>8, <3>1, GrowsFurther
  <2>22. ASSUME u.ok, Booked(t) PROVE Booked(u)
    <3>1. PICK H, B, S, C : /\ H = t.c.histories /\ B = t.c.buckets /\ S = t.c.status
                            /\ C = u.c.buckets
      OBVIOUS
    <3>2. Ledgered(H, B, S) /\ Grows(t.v.histories, H)
      BY <2>22, <3>1 DEF Booked
    <3>3. PICK x \in H : Fixed(h, x)
      BY <1>2, <3>2 DEF Grows
    <3>4. /\ x.id = id /\ x.rev = NoHistory /\ x.from = h.from /\ x.to = h.to /\ x.qty = h.qty
          /\ x.of = h.of /\ IsRow(x)
      BY <1>2, <2>1, <3>2, <3>3, FixedMeans DEF Ledgered, Counted, Rows
    <3>5. PICK y : y = Ended(x)
      OBVIOUS
    <3>6. K = (H \ {x}) \cup {y} /\ IsRow(y) /\ Fixed(x, y) /\ y.undone = TRUE
      <4>1. \A f \in H : f.id = id => f = x
        BY <3>2, <3>4 DEF Ledgered, Counted
      <4> QED BY <2>8, <3>1, <3>4, <3>5, <4>1, EndedForm
    <3>7. \A f \in H : f.rev # x.id
      BY <1>7, <3>1, <3>4 DEF NotYetReversed
    <3>8. x.qty <= B[x.of][x.to]
      BY <1>3, <2>1, <2>5, <2>12, <2>18, <2>22, <3>1, <3>4
    <3>9. PICK M : M = K \cup {w}
      OBVIOUS
    <3>10. C = [B EXCEPT ![x.of] = MoveQty(B[x.of], x.to, x.from, x.qty)]
      <4>1. u.c.buckets = base.c.buckets
        BY <2>5, <2>10, <2>12, <2>18 DEF SameExcept, IsRdTxn, IsRd, RdColumns
      <4>2. C = Reset(B, h.of, m) /\ B[h.of] = b
        BY <1>3, <2>5, <2>12, <2>18, <2>22, <3>1, <4>1
      <4> QED BY <2>2, <3>4, <4>2 DEF Reset
    <3>11. x.from \in Statuses /\ ~w.undone /\ w.of = x.of /\ w.rev = x.id
      BY <2>1, <2>15, <3>4
    <3>12. Ledgered(M, C, S)
      BY <2>14, <2>16, <3>2, <3>4, <3>6, <3>7, <3>8, <3>9, <3>10, <3>11, LedgerReverses
    <3>13. u.c.histories = M /\ u.c.status = S
      BY <2>5, <2>10, <2>12, <2>18, <3>1, <3>9 DEF SameExcept, IsRdTxn, IsRd, RdColumns
    <3>14. Grows(u.v.histories, u.c.histories)
      <4>1. Grows(A, K)
        BY <2>8, <3>1, <3>2, GrowsFurther
      <4> QED BY <2>10, <2>12, <2>18, <4>1 DEF Grows, Fixed
    <3> QED BY <3>1, <3>12, <3>13, <3>14 DEF Booked
  <2>23. u.ok => t.ok
    BY <2>5, <2>12, <2>18
  <2>24. Runs(t, u)
    BY <2>18, <2>20, <2>21, <2>22, <2>23 DEF Runs
  <2> QED BY <2>19, <2>24
<1> QED BY <1>4, <1>5, <1>6, <1>7

-----------------------------------------------------------------------------
(* Stock commands in one of the two stores.                                *)

LEMMA InTxn ==
  ASSUME NEW t, IsRdTxn(t), NEW s \in {"main", "rd"}
  PROVE  IsTxn(In(t, s)) /\ In(t, s).ok = t.ok /\ In(t, s).v = t.v[s] /\ In(t, s).c = t.c[s]
<1>1. PICK u : u = In(t, s)
  OBVIOUS
<1>2. DOMAIN u = DOMAIN t /\ u.v = t.v[s] /\ u.c = t.c[s] /\ u.ok = t.ok
  BY <1>1 DEF In, IsRdTxn
<1>3. IsStore(t.v[s]) /\ IsStore(t.c[s])
  BY DEF IsRdTxn, IsRd
<1> QED BY <1>1, <1>2, <1>3 DEF IsTxn, IsRdTxn

LEMMA OutRuns ==
  ASSUME NEW t, IsRdTxn(t), NEW s \in {"main", "rd"}, NEW u, After(In(t, s), u)
  PROVE  Runs(t, Out(t, s, u))
<1>1. IsTxn(u) /\ (u.ok => t.ok)
  BY InTxn DEF After
<1>2. PICK v, c : v = [t.v EXCEPT ![s] = u.v] /\ c = [t.c EXCEPT ![s] = u.c]
  OBVIOUS
<1>3. PICK w : w = Having(u, v, c)
  OBVIOUS
<1>4. Out(t, s, u) = w
  BY <1>2, <1>3 DEF Out, Having
<1>5. DOMAIN w = DOMAIN u /\ w.v = v /\ w.c = c /\ w.ok = u.ok
  BY <1>1, <1>3 DEF Having, IsTxn
<1>6. IsRd(v) /\ SameExcept({"main", "rd"}, t.v, v)
  BY <1>1, <1>2, StoreForm DEF IsRdTxn, IsTxn
<1>7. IsRd(c) /\ SameExcept({"main", "rd"}, t.c, c)
  BY <1>1, <1>2, StoreForm DEF IsRdTxn, IsTxn
<1>8. IsRdTxn(w)
  BY <1>1, <1>5, <1>6, <1>7 DEF IsRdTxn, IsTxn
<1> QED BY <1>1, <1>4, <1>5, <1>6, <1>7, <1>8, RunsElsewhere

RunsOn(a, b, c, d, e, base, K, acc) == Runs(base, acc)

LEMMA SettleRuns ==
  ASSUME NEW t, IsRdTxn(t), NEW s \in {"main", "rd"}, NEW key, NEW doc, NEW line, NEW qty
  PROVE  Runs(t, Out(t, s, SettleConsumerOut(In(t, s), key, doc, line, qty, AnyPrice)))
<1>1. After(In(t, s), SettleConsumerOut(In(t, s), key, doc, line, qty, AnyPrice))
  BY InTxn, SettleAfter DEF SettleConsumerOut
<1> QED BY <1>1, OutRuns

LEMMA IncreaseRuns ==
  ASSUME NEW t, IsRdTxn(t), NEW s \in {"main", "rd"}, NEW x, "id" \in DOMAIN x
  PROVE  Runs(t, Out(t, s, IncreaseStock(In(t, s), x)))
BY InTxn, IncreaseStockAfter, OutRuns

LEMMA PostingHasId ==
  ASSUME NEW key, NEW doc, NEW line, NEW change, NEW price, NEW source, NEW pieces
  PROVE  "id" \in DOMAIN Posting(key, doc, line, change, price, source, pieces)
BY DEF Posting

\* What is carried over.
BringStep(out, to, doc, line, from, acc, id) ==
    Out(acc, to, IncreaseStock(In(acc, to),
        Posting(Key("in", doc, line, id), doc, line,
                out.v[from].usage[<<doc, line, id>>].alloc, 1, TRUE, <<>>)))
Brings == INSTANCE FoldInduction WITH Step <- BringStep, Final <- Max, Holds <- RunsOn

LEMMA CarryRuns ==
  ASSUME NEW t, IsRdTxn(t), NEW from \in {"main", "rd"}, NEW to \in {"main", "rd"},
         NEW doc, NEW line, NEW qty
  PROVE  Runs(t, Carry(t, from, to, doc, line, qty))
<1>1. PICK out : out = Out(t, from, SettleConsumerOut(In(t, from), Key("out", doc, line, 0),
                                                      doc, line, qty, AnyPrice))
  OBVIOUS
<1>2. Runs(t, out) /\ IsRdTxn(out)
  <2>1. Runs(t, out)
    BY <1>1, SettleRuns
  <2> QED BY <2>1 DEF Runs
<1>3. PICK S : S = SourcesOf(out.v[from], doc, line)
  OBVIOUS
<1>4. IsFiniteSet(S) /\ S \subseteq Nat
  <2>1. IsStore(out.v[from])
    BY <1>2 DEF IsRdTxn, IsRd
  <2>2. PICK K : K = {u \in DOMAIN out.v[from].usage : u[1] = doc /\ u[2] = line}
    OBVIOUS
  <2>3. K \subseteq DOMAIN out.v[from].usage /\ S = {k[3] : k \in K}
    BY <1>3, <2>2 DEF SourcesOf
  <2> QED BY <2>1, <2>3, LayersOfKeys
<1>5. \A T \in SUBSET S : T # {} => Max(T) \in T
  BY <1>4, LastOfSome, FS_Subset
<1>6. ASSUME NEW acc, NEW id, Runs(out, acc)
      PROVE  Runs(out, BringStep(out, to, doc, line, from, acc, id))
  <2>1. PICK x : x = Posting(Key("in", doc, line, id), doc, line,
                             out.v[from].usage[<<doc, line, id>>].alloc, 1, TRUE, <<>>)
    OBVIOUS
  <2>2. "id" \in DOMAIN x /\ IsRdTxn(acc)
    BY <1>6, <2>1, PostingHasId DEF Runs
  <2>3. Runs(acc, Out(acc, to, IncreaseStock(In(acc, to), x)))
    BY <2>2, IncreaseRuns
  <2> QED BY <1>6, <2>1, <2>3, RunsFurther DEF BringStep
<1>7. RunsOn(out, to, doc, line, from, out, S, Brings!Over(out, to, doc, line, from, out, S))
  <2>1. RunsOn(out, to, doc, line, from, out, {}, out)
    BY <1>2, RunsItself DEF RunsOn
  <2>2. \A T \in SUBSET S : \A acc :
            T # {} /\ RunsOn(out, to, doc, line, from, out, T \ {Max(T)}, acc)
              => RunsOn(out, to, doc, line, from, out, T,
                        BringStep(out, to, doc, line, from, acc, Max(T)))
    BY <1>6 DEF RunsOn
  <2>3. Brings!Founded(S)
    BY <1>4, FiniteFounded DEF Brings!Founded
  <2> QED BY <1>5, <2>1, <2>2, <2>3, Brings!Induction
<1>8. Runs(t, Brings!Over(out, to, doc, line, from, out, S))
  BY <1>2, <1>7, RunsFurther DEF RunsOn
<1>9. Carry(t, from, to, doc, line, qty)
        = IF out.ok THEN Brings!Over(out, to, doc, line, from, out, S) ELSE out
  BY <1>1, <1>3 DEF Carry, Brings!Over, BringStep, OldestFirst, InOrder,
                    MapThenFoldSet, Brings!MapThenFoldSet
<1> QED BY <1>2, <1>8, <1>9

\* What is carried back.
LEMMA ReverseLogsRuns ==
  ASSUME NEW t, IsRdTxn(t), NEW s \in {"main", "rd"}, NEW st, IsStore(st),
         NEW L, L \subseteq st.logs, NEW kind, NEW doc
  PROVE  Runs(t, ReverseLogs(t, s, L, kind, doc))
<1>1. PICK S : S = {l.id : l \in L}
  OBVIOUS
<1>2. IsFiniteSet(S) /\ S \subseteq Nat
  BY <1>1, IdsOfLogs
<1>3. After(In(t, s), Undoes!Over(doc, kind, 0, 0, 0, In(t, s), S))
  BY <1>2, InTxn, UndoesAfter
<1>4. ReverseLogs(t, s, L, kind, doc) = Out(t, s, Undoes!Over(doc, kind, 0, 0, 0, In(t, s), S))
  BY <1>1 DEF ReverseLogs, Undoes!Over, UndoStep, OldestFirst, InOrder,
              MapThenFoldSet, Undoes!MapThenFoldSet
<1> QED BY <1>3, <1>4, OutRuns

LEMMA BackRuns ==
  ASSUME NEW t, IsRdTxn(t), NEW from \in {"main", "rd"}, NEW to \in {"main", "rd"},
         NEW u, After(In(t, from), u), NEW st, IsStore(st), NEW ins, ins \subseteq st.logs,
         NEW su, IsStore(su), NEW outs, outs \subseteq su.logs, NEW kind, NEW doc
  PROVE  Runs(t, ReverseLogs(ReverseLogs(Out(t, from, u), to, ins, kind, doc), from, outs, kind, doc))
<1>1. PICK w, x : w = Out(t, from, u) /\ x = ReverseLogs(w, to, ins, kind, doc)
  OBVIOUS
<1>2. Runs(t, w) /\ IsRdTxn(w)
  <2>1. Runs(t, w)
    BY <1>1, OutRuns
  <2> QED BY <2>1 DEF Runs
<1>3. Runs(w, x) /\ IsRdTxn(x)
  <2>1. Runs(w, x)
    BY <1>1, <1>2, ReverseLogsRuns
  <2> QED BY <2>1 DEF Runs
<1>4. Runs(x, ReverseLogs(x, from, outs, kind, doc))
  BY <1>3, ReverseLogsRuns
<1> QED BY <1>1, <1>2, <1>3, <1>4, RunsFurther

-----------------------------------------------------------------------------
(* Loops over the lines of a document.                                     *)

LEMMA LineIds ==
  ASSUME NEW st, IsRd(st), NEW d, NEW S, S = {l.id : l \in LinesOf(st, d)}
  PROVE  IsFiniteSet(S) /\ S \subseteq Nat
<1>1. LinesOf(st, d) \subseteq st.lines /\ IsFiniteSet(st.lines) /\ \A l \in st.lines : l.id \in Nat
  BY DEF IsRd, LinesFit, LinesOf
<1>2. PICK L : L = LinesOf(st, d)
  OBVIOUS
<1>3. IsFiniteSet(L)
  BY <1>1, <1>2, FS_Subset
<1>4. PICK f : f = [l \in L |-> l.id]
  OBVIOUS
<1>5. IsFiniteSet({f[l] : l \in L})
  BY <1>3, <1>4, FiniteImage
<1>6. {f[l] : l \in L} = S
  BY <1>2, <1>4
<1> QED BY <1>1, <1>2, <1>5, <1>6

CarryLineStep(d, x, y, z, w, acc, id) ==
    Carry(acc, "main", "rd", d, LineById(acc.v, id).id, LineById(acc.v, id).qty)
CarryLines == INSTANCE FoldInduction WITH Step <- CarryLineStep, Final <- Max, Holds <- RunsOn

LEMMA CarryLinesRun ==
  ASSUME NEW t, IsRdTxn(t), NEW d, NEW S, IsFiniteSet(S), S \subseteq Nat
  PROVE  Runs(t, CarryLines!Over(d, 0, 0, 0, 0, t, S))
<1>1. \A T \in SUBSET S : T # {} => Max(T) \in T
  BY LastOfSome, FS_Subset
<1>2. RunsOn(d, 0, 0, 0, 0, t, {}, t)
  BY RunsItself DEF RunsOn
<1>3. ASSUME NEW acc, NEW id, Runs(t, acc)
      PROVE  Runs(t, CarryLineStep(d, 0, 0, 0, 0, acc, id))
  <2>1. PICK l : l = LineById(acc.v, id)
    OBVIOUS
  <2>2. Runs(acc, Carry(acc, "main", "rd", d, l.id, l.qty))
    BY <1>3, CarryRuns DEF Runs
  <2> QED BY <1>3, <2>1, <2>2, RunsFurther DEF CarryLineStep
<1>4. \A T \in SUBSET S : \A acc :
          T # {} /\ RunsOn(d, 0, 0, 0, 0, t, T \ {Max(T)}, acc)
            => RunsOn(d, 0, 0, 0, 0, t, T, CarryLineStep(d, 0, 0, 0, 0, acc, Max(T)))
  BY <1>3 DEF RunsOn
<1>5. RunsOn(d, 0, 0, 0, 0, t, S, CarryLines!Over(d, 0, 0, 0, 0, t, S))
  <2>1. CarryLines!Founded(S)
    BY FiniteFounded DEF CarryLines!Founded
  <2> QED BY <1>1, <1>2, <1>4, <2>1, CarryLines!Induction
<1> QED BY <1>5 DEF RunsOn

TakeLineStep(d, kind, x, y, z, acc, id) ==
    Out(acc, "rd", SettleConsumerOut(In(acc, "rd"), Key(kind, d, 0, LineById(acc.v, id).id),
                                     d, LineById(acc.v, id).id, LineById(acc.v, id).qty, AnyPrice))
LineTakes == INSTANCE FoldInduction WITH Step <- TakeLineStep, Final <- Max, Holds <- RunsOn

LEMMA LineTakesRun ==
  ASSUME NEW t, IsRdTxn(t), NEW d, NEW kind, NEW S, IsFiniteSet(S), S \subseteq Nat
  PROVE  Runs(t, LineTakes!Over(d, kind, 0, 0, 0, t, S))
<1>1. \A T \in SUBSET S : T # {} => Max(T) \in T
  BY LastOfSome, FS_Subset
<1>2. RunsOn(d, kind, 0, 0, 0, t, {}, t)
  BY RunsItself DEF RunsOn
<1>3. ASSUME NEW acc, NEW id, Runs(t, acc)
      PROVE  Runs(t, TakeLineStep(d, kind, 0, 0, 0, acc, id))
  <2>1. PICK l, key : l = LineById(acc.v, id) /\ key = Key(kind, d, 0, l.id)
    OBVIOUS
  <2>2. Runs(acc, Out(acc, "rd", SettleConsumerOut(In(acc, "rd"), key, d, l.id, l.qty, AnyPrice)))
    BY <1>3, SettleRuns DEF Runs
  <2> QED BY <1>3, <2>1, <2>2, RunsFurther DEF TakeLineStep
<1>4. \A T \in SUBSET S : \A acc :
          T # {} /\ RunsOn(d, kind, 0, 0, 0, t, T \ {Max(T)}, acc)
            => RunsOn(d, kind, 0, 0, 0, t, T, TakeLineStep(d, kind, 0, 0, 0, acc, Max(T)))
  BY <1>3 DEF RunsOn
<1>5. RunsOn(d, kind, 0, 0, 0, t, S, LineTakes!Over(d, kind, 0, 0, 0, t, S))
  <2>1. LineTakes!Founded(S)
    BY FiniteFounded DEF LineTakes!Founded
  <2> QED BY <1>1, <1>2, <1>4, <2>1, LineTakes!Induction
<1> QED BY <1>5 DEF RunsOn

LEMMA TakeLinesRuns ==
  ASSUME NEW t, IsRdTxn(t), NEW d, NEW kind
  PROVE  Runs(t, TakeLines(t, d, kind))
<1>1. PICK S : S = {l.id : l \in LinesOf(t.v, d)}
  OBVIOUS
<1>2. IsFiniteSet(S) /\ S \subseteq Nat
  BY <1>1, LineIds DEF IsRdTxn
<1>3. TakeLines(t, d, kind) = LineTakes!Over(d, kind, 0, 0, 0, t, S)
  BY <1>1 DEF TakeLines, ForLines, LineTakes!Over, TakeLineStep, OldestFirst, InOrder,
              MapThenFoldSet, LineTakes!MapThenFoldSet
<1> QED BY <1>2, <1>3, LineTakesRun

\* What is given back to the layers of a line and taken from them again.
GiveStep(doc, line, x, y, z, acc, id) ==
    LET row == acc.t.v.usage[<<doc, line, id>>]
        some == Min({acc.left, row.alloc - row.rel})
    IN  IF acc.left = 0 \/ ~acc.t.ok THEN acc
        ELSE [t |-> ReleaseInventorySource(acc.t, <<doc, line, id>>, row.rel + 1 * some),
              left |-> acc.left - some]
Gives == INSTANCE FoldInduction WITH Step <- GiveStep, Final <- Max, Holds <- StaysAfterT
AgainStep(doc, line, x, y, z, acc, id) ==
    LET row == acc.t.v.usage[<<doc, line, id>>]
        some == Min({acc.left, row.rel})
    IN  IF acc.left = 0 \/ ~acc.t.ok THEN acc
        ELSE [t |-> ReleaseInventorySource(acc.t, <<doc, line, id>>, row.rel + (0 - 1) * some),
              left |-> acc.left - some]
Agains == INSTANCE FoldInduction WITH Step <- AgainStep, Final <- Min, Holds <- StaysAfterT

LEMMA GivesAfter ==
  ASSUME NEW doc, NEW line, NEW base, IsTxn(base.t), NEW S, IsFiniteSet(S), S \subseteq Nat
  PROVE  After(base.t, Gives!Over(doc, line, 0, 0, 0, base, S).t)
<1>1. \A T \in SUBSET S : T # {} => Max(T) \in T
  BY LastOfSome, FS_Subset
<1>2. StaysAfterT(doc, line, 0, 0, 0, base, {}, base)
  BY AfterItself DEF StaysAfterT
<1>3. ASSUME NEW acc, NEW id, After(base.t, acc.t)
      PROVE  After(base.t, GiveStep(doc, line, 0, 0, 0, acc, id).t)
  <2>1. PICK key, row, some : /\ key = <<doc, line, id>> /\ row = acc.t.v.usage[key]
                              /\ some = Min({acc.left, row.alloc - row.rel})
    OBVIOUS
  <2>2. After(acc.t, ReleaseInventorySource(acc.t, key, row.rel + 1 * some))
    BY <1>3, ReleaseAfter DEF After
  <2>3. \/ GiveStep(doc, line, 0, 0, 0, acc, id) = acc
        \/ GiveStep(doc, line, 0, 0, 0, acc, id).t
              = ReleaseInventorySource(acc.t, key, row.rel + 1 * some)
    BY <2>1 DEF GiveStep
  <2> QED BY <1>3, <2>2, <2>3, AfterAfter
<1>4. \A T \in SUBSET S : \A acc :
          T # {} /\ StaysAfterT(doc, line, 0, 0, 0, base, T \ {Max(T)}, acc)
            => StaysAfterT(doc, line, 0, 0, 0, base, T, GiveStep(doc, line, 0, 0, 0, acc, Max(T)))
  BY <1>3 DEF StaysAfterT
<1>5. StaysAfterT(doc, line, 0, 0, 0, base, S, Gives!Over(doc, line, 0, 0, 0, base, S))
  <2>1. Gives!Founded(S)
    BY FiniteFounded DEF Gives!Founded
  <2> QED BY <1>1, <1>2, <1>4, <2>1, Gives!Induction
<1> QED BY <1>5 DEF StaysAfterT

LEMMA GiveBackAfter ==
  ASSUME NEW t, IsTxn(t), NEW doc, NEW line, NEW qty
  PROVE  After(t, GiveBack(t, doc, line, qty))
<1>1. PICK S : S = SourcesOf(t.v, doc, line)
  OBVIOUS
<1>2. IsFiniteSet(S) /\ S \subseteq Nat
  <2>1. PICK K : K = {u \in DOMAIN t.v.usage : u[1] = doc /\ u[2] = line}
    OBVIOUS
  <2>2. K \subseteq DOMAIN t.v.usage /\ S = {k[3] : k \in K}
    BY <1>1, <2>1 DEF SourcesOf
  <2> QED BY <2>2, LayersOfKeys DEF IsTxn
<1>3. PICK base, all : base = [t |-> t, left |-> qty] /\ all = Gives!Over(doc, line, 0, 0, 0, base, S)
  OBVIOUS
<1>4. After(t, all.t) /\ IsTxn(all.t)
  <2>1. After(t, all.t)
    BY <1>2, <1>3, GivesAfter
  <2> QED BY <2>1 DEF After
<1>5. GiveBack(t, doc, line, qty) = IF all.left > 0 THEN Fail(all.t) ELSE all.t
  <2>1. GiveBack(t, doc, line, qty)
           = LET final == Gives!Over(doc, line, 0, 0, 0, [t |-> t, left |-> qty],
                                   SourcesOf(t.v, doc, line))
             IN  IF final.left > 0 THEN Fail(final.t) ELSE final.t
    BY DEF GiveBack, Shift, Gives!Over, GiveStep, InOrder, MapThenFoldSet, Gives!MapThenFoldSet
  <2> QED BY <1>1, <1>3, <2>1
<1>6. After(t, Fail(all.t))
  BY <1>4, TxnForms, AfterAfter
<1> QED BY <1>4, <1>5, <1>6

LEMMA AgainsAfter ==
  ASSUME NEW doc, NEW line, NEW base, IsTxn(base.t), NEW S, IsFiniteSet(S), S \subseteq Nat
  PROVE  After(base.t, Agains!Over(doc, line, 0, 0, 0, base, S).t)
<1>1. \A T \in SUBSET S : T # {} => Min(T) \in T
  BY LastOfSome, FS_Subset
<1>2. StaysAfterT(doc, line, 0, 0, 0, base, {}, base)
  BY AfterItself DEF StaysAfterT
<1>3. ASSUME NEW acc, NEW id, After(base.t, acc.t)
      PROVE  After(base.t, AgainStep(doc, line, 0, 0, 0, acc, id).t)
  <2>1. PICK key, row, some : /\ key = <<doc, line, id>> /\ row = acc.t.v.usage[key]
                              /\ some = Min({acc.left, row.rel})
    OBVIOUS
  <2>2. After(acc.t, ReleaseInventorySource(acc.t, key, row.rel + (0 - 1) * some))
    BY <1>3, ReleaseAfter DEF After
  <2>3. \/ AgainStep(doc, line, 0, 0, 0, acc, id) = acc
        \/ AgainStep(doc, line, 0, 0, 0, acc, id).t
              = ReleaseInventorySource(acc.t, key, row.rel + (0 - 1) * some)
    BY <2>1 DEF AgainStep
  <2> QED BY <1>3, <2>2, <2>3, AfterAfter
<1>4. \A T \in SUBSET S : \A acc :
          T # {} /\ StaysAfterT(doc, line, 0, 0, 0, base, T \ {Min(T)}, acc)
            => StaysAfterT(doc, line, 0, 0, 0, base, T, AgainStep(doc, line, 0, 0, 0, acc, Min(T)))
  BY <1>3 DEF StaysAfterT
<1>5. StaysAfterT(doc, line, 0, 0, 0, base, S, Agains!Over(doc, line, 0, 0, 0, base, S))
  <2>1. Agains!Founded(S)
    BY FiniteFounded DEF Agains!Founded
  <2> QED BY <1>1, <1>2, <1>4, <2>1, Agains!Induction
<1> QED BY <1>5 DEF StaysAfterT

LEMMA TakeAgainAfter ==
  ASSUME NEW t, IsTxn(t), NEW doc, NEW line, NEW qty
  PROVE  After(t, TakeAgain(t, doc, line, qty))
<1>1. PICK S : S = SourcesOf(t.v, doc, line)
  OBVIOUS
<1>2. IsFiniteSet(S) /\ S \subseteq Nat
  <2>1. PICK K : K = {u \in DOMAIN t.v.usage : u[1] = doc /\ u[2] = line}
    OBVIOUS
  <2>2. K \subseteq DOMAIN t.v.usage /\ S = {k[3] : k \in K}
    BY <1>1, <2>1 DEF SourcesOf
  <2> QED BY <2>2, LayersOfKeys DEF IsTxn
<1>3. PICK base, all : base = [t |-> t, left |-> qty] /\ all = Agains!Over(doc, line, 0, 0, 0, base, S)
  OBVIOUS
<1>4. After(t, all.t) /\ IsTxn(all.t)
  <2>1. After(t, all.t)
    BY <1>2, <1>3, AgainsAfter
  <2> QED BY <2>1 DEF After
<1>5. TakeAgain(t, doc, line, qty) = IF all.left > 0 THEN Fail(all.t) ELSE all.t
  <2>1. TakeAgain(t, doc, line, qty)
           = LET final == Agains!Over(doc, line, 0, 0, 0, [t |-> t, left |-> qty],
                                   SourcesOf(t.v, doc, line))
             IN  IF final.left > 0 THEN Fail(final.t) ELSE final.t
    BY DEF TakeAgain, Shift, Agains!Over, AgainStep, InOrder, MapThenFoldSet, Agains!MapThenFoldSet
  <2> QED BY <1>1, <1>3, <2>1
<1>6. After(t, Fail(all.t))
  BY <1>4, TxnForms, AfterAfter
<1> QED BY <1>4, <1>5, <1>6

GiveLineStep(d, x, y, z, w, acc, id) ==
    LET l == LineById(acc.v, id)
        u == IncreaseStock(In(acc, "rd"),
                 Posting(Key("use", d, 0, l.id), d, l.id, l.qty, 1, FALSE, <<>>))
    IN  Out(acc, "rd", GiveBack(u, LineById(acc.v, l.of).doc, l.of, l.qty))
LineGives == INSTANCE FoldInduction WITH Step <- GiveLineStep, Final <- Max, Holds <- RunsOn

LEMMA LineGivesRun ==
  ASSUME NEW t, IsRdTxn(t), NEW d, NEW S, IsFiniteSet(S), S \subseteq Nat
  PROVE  Runs(t, LineGives!Over(d, 0, 0, 0, 0, t, S))
<1>1. \A T \in SUBSET S : T # {} => Max(T) \in T
  BY LastOfSome, FS_Subset
<1>2. RunsOn(d, 0, 0, 0, 0, t, {}, t)
  BY RunsItself DEF RunsOn
<1>3. ASSUME NEW acc, NEW id, Runs(t, acc)
      PROVE  Runs(t, GiveLineStep(d, 0, 0, 0, 0, acc, id))
  <2>1. PICK l, x : /\ l = LineById(acc.v, id)
                    /\ x = Posting(Key("use", d, 0, l.id), d, l.id, l.qty, 1, FALSE, <<>>)
    OBVIOUS
  <2>2. PICK u : u = IncreaseStock(In(acc, "rd"), x)
    OBVIOUS
  <2>3. IsRdTxn(acc) /\ "id" \in DOMAIN x
    BY <1>3, <2>1, PostingHasId DEF Runs
  <2>4. After(In(acc, "rd"), u) /\ IsTxn(u)
    BY <2>2, <2>3, InTxn, IncreaseStockAfter DEF After
  <2>5. PICK g : g = GiveBack(u, LineById(acc.v, l.of).doc, l.of, l.qty)
    OBVIOUS
  <2>6. After(In(acc, "rd"), g)
    BY <2>4, <2>5, GiveBackAfter, AfterAfter
  <2>7. Runs(acc, Out(acc, "rd", g))
    BY <2>3, <2>6, OutRuns
  <2> QED BY <1>3, <2>1, <2>2, <2>5, <2>7, RunsFurther DEF GiveLineStep
<1>4. \A T \in SUBSET S : \A acc :
          T # {} /\ RunsOn(d, 0, 0, 0, 0, t, T \ {Max(T)}, acc)
            => RunsOn(d, 0, 0, 0, 0, t, T, GiveLineStep(d, 0, 0, 0, 0, acc, Max(T)))
  BY <1>3 DEF RunsOn
<1>5. RunsOn(d, 0, 0, 0, 0, t, S, LineGives!Over(d, 0, 0, 0, 0, t, S))
  <2>1. LineGives!Founded(S)
    BY FiniteFounded DEF LineGives!Founded
  <2> QED BY <1>1, <1>2, <1>4, <2>1, LineGives!Induction
<1> QED BY <1>5 DEF RunsOn

AgainLineStep(d, x, y, z, w, acc, id) ==
    LET l == LineById(acc.v, id)
    IN  Out(acc, "rd", TakeAgain(In(acc, "rd"), LineById(acc.v, l.of).doc, l.of, l.qty))
LineAgains == INSTANCE FoldInduction WITH Step <- AgainLineStep, Final <- Max, Holds <- RunsOn

LEMMA LineAgainsRun ==
  ASSUME NEW t, IsRdTxn(t), NEW d, NEW S, IsFiniteSet(S), S \subseteq Nat
  PROVE  Runs(t, LineAgains!Over(d, 0, 0, 0, 0, t, S))
<1>1. \A T \in SUBSET S : T # {} => Max(T) \in T
  BY LastOfSome, FS_Subset
<1>2. RunsOn(d, 0, 0, 0, 0, t, {}, t)
  BY RunsItself DEF RunsOn
<1>3. ASSUME NEW acc, NEW id, Runs(t, acc)
      PROVE  Runs(t, AgainLineStep(d, 0, 0, 0, 0, acc, id))
  <2>1. PICK l, g : /\ l = LineById(acc.v, id)
                    /\ g = TakeAgain(In(acc, "rd"), LineById(acc.v, l.of).doc, l.of, l.qty)
    OBVIOUS
  <2>2. IsRdTxn(acc)
    BY <1>3 DEF Runs
  <2>3. After(In(acc, "rd"), g)
    BY <2>1, <2>2, InTxn, TakeAgainAfter
  <2>4. Runs(acc, Out(acc, "rd", g))
    BY <2>2, <2>3, OutRuns
  <2> QED BY <1>3, <2>1, <2>4, RunsFurther DEF AgainLineStep
<1>4. \A T \in SUBSET S : \A acc :
          T # {} /\ RunsOn(d, 0, 0, 0, 0, t, T \ {Max(T)}, acc)
            => RunsOn(d, 0, 0, 0, 0, t, T, AgainLineStep(d, 0, 0, 0, 0, acc, Max(T)))
  BY <1>3 DEF RunsOn
<1>5. RunsOn(d, 0, 0, 0, 0, t, S, LineAgains!Over(d, 0, 0, 0, 0, t, S))
  <2>1. LineAgains!Founded(S)
    BY FiniteFounded DEF LineAgains!Founded
  <2> QED BY <1>1, <1>2, <1>4, <2>1, LineAgains!Induction
<1> QED BY <1>5 DEF RunsOn

\* The lines of a document move statuses of requests that are there.
Bound(t, d) ==
    \A l \in t.v.lines : l.doc = d => l.of \in Requests /\ t.c.status[l.of] # "none"

StatusLineStep(d, event, from, to, w, acc, id) ==
    Transfer(acc, LineById(acc.v, id).of, event, d, <<from>>, to, LineById(acc.v, id).qty)
LineMoves == INSTANCE FoldInduction WITH Step <- StatusLineStep, Final <- Max, Holds <- RunsOn

LEMMA LineStatusesRuns ==
  ASSUME NEW t, IsRdTxn(t), NEW d, Bound(t, d), NEW event, event # "created",
         NEW from \in Statuses, NEW to \in Statuses, from # to
  PROVE  Runs(t, LineStatuses(t, d, event, from, to))
<1>1. PICK S : S = {l.id : l \in LinesOf(t.v, d)}
  OBVIOUS
<1>2. IsFiniteSet(S) /\ S \subseteq Nat
  BY <1>1, LineIds DEF IsRdTxn
<1>3. Sources(<<from>>, to)
  <2>1. <<from>> \in Seq(Statuses \ {to}) /\ DOMAIN <<from>> = 1..1
    OBVIOUS
  <2> QED BY <2>1 DEF Sources
<1>4. ASSUME NEW acc, NEW id \in S, Runs(t, acc)
      PROVE  Runs(t, StatusLineStep(d, event, from, to, 0, acc, id))
  <2>1. acc.v.lines = t.v.lines /\ acc.c.status = t.c.status /\ IsRdTxn(acc)
    BY <1>4 DEF Runs, SameExcept, Moving, IsRdTxn, IsRd, RdColumns
  <2>2. PICK l : l = LineById(acc.v, id)
    OBVIOUS
  <2>3. PICK m \in t.v.lines : m.id = id /\ m.doc = d
    BY <1>1 DEF LinesOf
  <2>4. l \in t.v.lines /\ l.id = id
    BY <2>1, <2>2, <2>3 DEF LineById
  <2>5. l = m /\ l.qty \in Nat
    BY <2>3, <2>4 DEF IsRdTxn, IsRd, LinesFit
  <2>6. l.of \in Requests /\ acc.c.status[l.of] # "none"
    BY <2>1, <2>3, <2>5 DEF Bound
  <2>7. Runs(acc, Transfer(acc, l.of, event, d, <<from>>, to, l.qty))
    BY <1>3, <2>1, <2>5, <2>6, TransferRuns
  <2> QED BY <1>4, <2>2, <2>7, RunsFurther DEF StatusLineStep
<1>5. \A T \in SUBSET S : T # {} => Max(T) \in T
  BY <1>2, LastOfSome, FS_Subset
<1>6. RunsOn(d, event, from, to, 0, t, {}, t)
  BY RunsItself DEF RunsOn
<1>7. \A T \in SUBSET S : \A acc :
          T # {} /\ RunsOn(d, event, from, to, 0, t, T \ {Max(T)}, acc)
            => RunsOn(d, event, from, to, 0, t, T, StatusLineStep(d, event, from, to, 0, acc, Max(T)))
  BY <1>4, <1>5 DEF RunsOn
<1>8. RunsOn(d, event, from, to, 0, t, S, LineMoves!Over(d, event, from, to, 0, t, S))
  <2>1. LineMoves!Founded(S)
    BY <1>2, FiniteFounded DEF LineMoves!Founded
  <2> QED BY <1>5, <1>6, <1>7, <2>1, LineMoves!Induction
<1>9. LineStatuses(t, d, event, from, to) = LineMoves!Over(d, event, from, to, 0, t, S)
  BY <1>1 DEF LineStatuses, ForLines, LineMoves!Over, StatusLineStep, OldestFirst, InOrder,
              MapThenFoldSet, LineMoves!MapThenFoldSet
<1> QED BY <1>8, <1>9 DEF RunsOn

-----------------------------------------------------------------------------
(* Bodies of transactions.                                                 *)

\* The lines of handoffs and scraps are bound to requests that are there.
Lined(lines, S) ==
    \A l \in lines : l.doc \in Handoffs \cup Scraps => l.of \in Requests /\ S[l.of] # "none"

Sound(t) ==
    /\ t.v.lastLine <= t.c.lastLine
    /\ Lined(t.v.lines, t.c.status) /\ Lined(t.c.lines, t.c.status)

\* What the body of a transaction on document d keeps.
Does(t, u, d) ==
    /\ IsRdTxn(u) /\ (u.ok => t.ok)
    /\ Sound(t) => Sound(u)
    /\ Grows(t.v.histories, u.v.histories) /\ Grows(t.c.histories, u.c.histories)
    /\ \A x \in Docs : x # d => u.c.status[x] = t.c.status[x]
    /\ \A x \in Docs : t.c.status[x] # "none" => u.c.status[x] # "none"
    /\ t.c.lastLine <= u.c.lastLine /\ u.c.setup = t.c.setup
    /\ u.ok /\ Booked(t) => Booked(u)

\* What a process asks for fits what is committed.
Started(r, S) == r \in Requests /\ S[r] # "none"
Bounded(form, S) ==
    /\ form \in Seq([of : Requests, qty : Nat])
    /\ \A i \in DOMAIN form : S[form[i].of] # "none"
OneLine(form) ==
    form[1].qty \in Nat /\ form = <<[of |-> form[1].of, qty |-> form[1].qty]>>
Fits(q, st) ==
    /\ q.op = "need" =>
          /\ q.doc \in Requests /\ st.status[q.doc] = "none" /\ OneLine(q.form)
    /\ q.op \in {"handoff", "scrap", "rescrap"} =>
          q.doc \in Handoffs \cup Scraps /\ Bounded(q.form, st.status)
    /\ q.op \in {"use", "giveback"} =>
          q.doc \in Uses \cup Givebacks /\ OneLine(q.form)
    /\ q.op = "act" =>
          /\ Started(q.doc, st.status)
          /\ q.act \in {"start", "accept", "cancel", "return"} /\ q.qty \in Nat
    /\ q.op = "unneed" => Started(q.doc, st.status)
    /\ q.op \in {"unhandoff", "unscrap"} => q.doc \in Handoffs \cup Scraps
    /\ q.op = "react" => \E h \in st.histories : h.id = q.history
    /\ q.op = "close" => q.doc = Project

\* A snapshot is a past of what is committed.
Past(w, st) ==
    /\ IsRd(w) /\ Grows(w.histories, st.histories)
    /\ w.lastLine <= st.lastLine /\ Lined(w.lines, st.status)

Current(st) ==
    /\ IsRd(st) /\ Ledgered(st.histories, st.buckets, st.status)
    /\ Lined(st.lines, st.status) /\ st.status[Project] # "none" /\ st.setup \in Setups

RdKnown ==
    /\ Current(db)
    /\ \A p \in Procs : req[p] # Idle => Fits(req[p], db)
    /\ \A p \in Procs : view[p] # Idle =>
          /\ req[p] # Idle /\ Past(view[p], db)
          /\ req[p].op = "react" => \E h \in view[p].histories : h.id = req[p].history
    /\ \A p, o \in Procs : p # o /\ req[p] # Idle /\ req[o] # Idle /\ req[p].op = "need"
          => req[o].doc # req[p].doc
    /\ DOMAIN req = Procs /\ DOMAIN view = Procs


LEMMA DoesFurther ==
  ASSUME NEW t, NEW u, NEW w, NEW d, IsRdTxn(t), Does(t, u, d), Does(u, w, d)
  PROVE  Does(t, w, d)
<1>1. Grows(t.v.histories, w.v.histories) /\ Grows(t.c.histories, w.c.histories)
  BY GrowsFurther DEF Does
<1>2. t.c.lastLine <= w.c.lastLine
  <2>1. t.c.lastLine \in Nat /\ u.c.lastLine \in Nat /\ w.c.lastLine \in Nat
    BY DEF Does, IsRdTxn, IsRd, LinesFit
  <2> QED BY <2>1 DEF Does
<1> QED BY <1>1, <1>2 DEF Does

LEMMA RunsDoes ==
  ASSUME NEW t, NEW u, NEW d, IsRdTxn(t), Runs(t, u)
  PROVE  Does(t, u, d) /\ IsRdTxn(u) /\ (Sound(t) => Sound(u))
<1>1. /\ u.c.status = t.c.status /\ u.c.lines = t.c.lines /\ u.c.lastLine = t.c.lastLine
      /\ u.v.lines = t.v.lines /\ u.v.lastLine = t.v.lastLine /\ u.c.setup = t.c.setup
  BY DEF Runs, SameExcept, Moving, IsRdTxn, IsRd, RdColumns
<1>2. t.c.lastLine <= u.c.lastLine
  <2>1. t.c.lastLine \in Nat
    BY DEF IsRdTxn, IsRd, LinesFit
  <2> QED BY <1>1, <2>1
<1>3. Sound(t) => Sound(u)
  BY <1>1 DEF Sound
<1> QED BY <1>1, <1>2, <1>3 DEF Does, Runs

\* A body that writes neither the ledger nor the lines.
LEMMA StatusDoes ==
  ASSUME NEW t, IsRdTxn(t), NEW d, NEW u, IsRdTxn(u), u.ok => t.ok,
         SameExcept({"status", "token"}, t.v, u.v), SameExcept({"status", "token"}, t.c, u.c),
         \A x \in Docs : x # d => u.c.status[x] = t.c.status[x],
         \A x \in Docs : t.c.status[x] # "none" => u.c.status[x] # "none"
  PROVE  Does(t, u, d) /\ (Sound(t) => Sound(u))
<1>1. /\ u.c.lines = t.c.lines /\ u.c.lastLine = t.c.lastLine /\ u.c.histories = t.c.histories
      /\ u.v.lines = t.v.lines /\ u.v.lastLine = t.v.lastLine /\ u.v.histories = t.v.histories
      /\ u.c.setup = t.c.setup /\ u.c.buckets = t.c.buckets
  BY DEF SameExcept, IsRdTxn, IsRd, RdColumns
<1>2. t.c.lastLine <= u.c.lastLine
  <2>1. t.c.lastLine \in Nat
    BY DEF IsRdTxn, IsRd, LinesFit
  <2> QED BY <1>1, <2>1
<1>3. \A r \in Requests : r \in Docs
  BY DEF Docs
<1>4. Sound(t) => Sound(u)
  BY <1>1, <1>3 DEF Sound, Lined
<1>5. Grows(t.v.histories, u.v.histories) /\ Grows(t.c.histories, u.c.histories)
  BY <1>1, GrowsItself
<1>6. ASSUME Booked(t) PROVE Booked(u)
  <2>1. PICK H, B, S, R : H = t.c.histories /\ B = t.c.buckets /\ S = t.c.status /\ R = u.c.status
    OBVIOUS
  <2>2. Ledgered(H, B, S)
    BY <1>6, <2>1 DEF Booked
  <2>3. \A h \in H : R[h.of] # "none"
    <3> TAKE h \in H
    <3>1. h.of \in Requests /\ S[h.of] # "none"
      BY <2>2 DEF Ledgered, Counted, Rows, IsRow
    <3> QED BY <1>3, <2>1, <3>1
  <2>4. Ledgered(H, B, R)
    BY <2>2, <2>3 DEF Ledgered
  <2> QED BY <1>1, <1>6, <2>1, <2>4 DEF Booked
<1> QED BY <1>1, <1>2, <1>4, <1>5, <1>6 DEF Does

LEMMA SetStatusForm ==
  ASSUME NEW t, IsRdTxn(t), NEW d, NEW s, NEW u, u = SetStatus(t, d, s)
  PROVE  /\ IsRdTxn(u) /\ u.ok = t.ok
         /\ SameExcept({"status"}, t.v, u.v) /\ SameExcept({"status"}, t.c, u.c)
         /\ \A x \in Docs : u.c.status[x] = IF x = d THEN s ELSE t.c.status[x]
<1>1. PICK v, c : v = WithStatus(t.v, d, s) /\ c = WithStatus(t.c, d, s)
  OBVIOUS
<1>2. /\ IsRd(v) /\ SameExcept({"status"}, t.v, v)
      /\ IsRd(c) /\ SameExcept({"status"}, t.c, c) /\ c.status = [t.c.status EXCEPT ![d] = s]
  <2>1. IsRd(t.v) /\ IsRd(t.c)
    BY DEF IsRdTxn
  <2>2. IsRd(v) /\ SameExcept({"status"}, t.v, v)
    BY <1>1, <2>1, StatusForm
  <2>3. IsRd(c) /\ SameExcept({"status"}, t.c, c) /\ c.status = [t.c.status EXCEPT ![d] = s]
    BY <1>1, <2>1, StatusForm
  <2> QED BY <2>2, <2>3
<1>3. u = Having(t, v, c)
  BY <1>1 DEF SetStatus, Both, Having, WithStatus
<1>4. u.v = v /\ u.c = c /\ u.ok = t.ok /\ IsRdTxn(u)
  BY <1>2, <1>3, RdForms
<1>5. DOMAIN t.c.status = Docs
  BY DEF IsRdTxn, IsRd
<1>6. \A x \in Docs : c.status[x] = IF x = d THEN s ELSE t.c.status[x]
  BY <1>2, <1>5
<1> QED BY <1>2, <1>4, <1>6

LEMMA SetStatusDoes ==
  ASSUME NEW t, IsRdTxn(t), NEW d, NEW s, s # "none"
  PROVE  Does(t, SetStatus(t, d, s), d)
<1>1. PICK u : u = SetStatus(t, d, s)
  OBVIOUS
<1>2. /\ IsRdTxn(u) /\ u.ok = t.ok
      /\ SameExcept({"status"}, t.v, u.v) /\ SameExcept({"status"}, t.c, u.c)
      /\ \A x \in Docs : u.c.status[x] = IF x = d THEN s ELSE t.c.status[x]
  BY <1>1, SetStatusForm
<1>3. /\ SameExcept({"status", "token"}, t.v, u.v) /\ SameExcept({"status", "token"}, t.c, u.c)
  BY <1>2 DEF SameExcept
<1> QED BY <1>1, <1>2, <1>3, StatusDoes

LEMMA FileOnceForm ==
  ASSUME NEW t, IsRdTxn(t), NEW d, NEW token, NEW u, u = FileOnce(t, d, token)
  PROVE  /\ IsRdTxn(u) /\ (u.ok => t.ok)
         /\ SameExcept({"status", "token"}, t.v, u.v) /\ SameExcept({"status", "token"}, t.c, u.c)
         /\ \A x \in Docs : x # d => u.c.status[x] = t.c.status[x]
         /\ \A x \in Docs : t.c.status[x] # "none" => u.c.status[x] # "none"
         /\ u.ok /\ d \in Docs => u.c.status[d] = "effective"
<1>1. CASE ~FreeToken(t, token)
  <2>1. u = Fail(t)
    BY <1>1 DEF FileOnce
  <2>2. DOMAIN u = DOMAIN t /\ u.v = t.v /\ u.c = t.c /\ u.ok = FALSE
    BY <2>1 DEF Fail, IsRdTxn
  <2> QED BY <2>2 DEF IsRdTxn, SameExcept
<1>2. CASE FreeToken(t, token)
  <2>1. PICK w : w = SetStatus(t, d, "effective")
    OBVIOUS
  <2>2. /\ IsRdTxn(w) /\ w.ok = t.ok
        /\ SameExcept({"status"}, t.v, w.v) /\ SameExcept({"status"}, t.c, w.c)
        /\ \A x \in Docs : w.c.status[x] = IF x = d THEN "effective" ELSE t.c.status[x]
    BY <2>1, SetStatusForm
  <2>3. PICK v, c : v = [w.v EXCEPT !.token[d] = token] /\ c = [w.c EXCEPT !.token[d] = token]
    OBVIOUS
  <2>4. /\ IsRd(v) /\ SameExcept({"token"}, w.v, v)
        /\ IsRd(c) /\ SameExcept({"token"}, w.c, c)
    BY <2>2, <2>3, TokenForm DEF IsRdTxn
  <2>5. u = Having(w, v, c)
    BY <1>2, <2>1, <2>3 DEF FileOnce, Both, Having
  <2>6. u.v = v /\ u.c = c /\ u.ok = w.ok /\ IsRdTxn(u)
    BY <2>2, <2>4, <2>5, RdForms
  <2>7. u.c.status = w.c.status
    BY <2>2, <2>4, <2>6 DEF SameExcept, IsRdTxn, IsRd, RdColumns
  <2>8. /\ SameExcept({"status", "token"}, t.v, u.v) /\ SameExcept({"status", "token"}, t.c, u.c)
    BY <2>2, <2>4, <2>6 DEF SameExcept
  <2> QED BY <2>2, <2>6, <2>7, <2>8
<1> QED BY <1>1, <1>2

LEMMA FileOnceDoes ==
  ASSUME NEW t, IsRdTxn(t), NEW d, NEW token
  PROVE  Does(t, FileOnce(t, d, token), d)
BY FileOnceForm, StatusDoes

-----------------------------------------------------------------------------
(* The lines of a document.                                                *)

\* The rows that a form makes, after line n.
NewRows(n, d, form) ==
    {[id |-> n + i, doc |-> d, of |-> form[i].of, qty |-> form[i].qty] : i \in DOMAIN form}

LEMMA NewRowsFit ==
  ASSUME NEW L, NEW last \in Nat, LinesFit(L, last), NEW n \in Nat, last <= n, NEW d, NEW form,
         NEW k \in Nat, DOMAIN form = 1..k, \A i \in DOMAIN form : form[i].qty \in Nat,
         NEW R, R = NewRows(n, d, form)
  PROVE  LinesFit(L \cup R, n + k)
<1>1. IsFiniteSet(R)
  <2>1. PICK f : f = [i \in 1..k |-> [id |-> n + i, doc |-> d, of |-> form[i].of,
                                      qty |-> form[i].qty]]
    OBVIOUS
  <2>2. R = {f[i] : i \in 1..k}
    BY <2>1 DEF NewRows
  <2>3. IsFiniteSet(1..k)
    BY FS_Interval
  <2>4. DOMAIN f = 1..k
    BY <2>1
  <2> QED BY <2>2, <2>3, <2>4, FiniteImage
<1>2. IsFiniteSet(L \cup R)
  BY <1>1, FS_Union DEF LinesFit
<1>3. \A l \in R : \E i \in 1..k : l.id = n + i /\ l.qty = form[i].qty
                                   /\ l = [id |-> n + i, doc |-> d, of |-> form[i].of, qty |-> form[i].qty]
  BY DEF NewRows
<1>4. ASSUME NEW l \in L \cup R PROVE l.id \in 1..(n + k) /\ l.qty \in Nat
  <2>1. CASE l \in L
    BY <2>1 DEF LinesFit
  <2>2. CASE l \in R
    BY <1>3, <2>2
  <2> QED BY <2>1, <2>2
<1>5. ASSUME NEW l \in L \cup R, NEW m \in L \cup R, l.id = m.id PROVE l = m
  <2>1. CASE l \in L /\ m \in L
    BY <1>5, <2>1 DEF LinesFit
  <2>2. CASE l \in R /\ m \in R
    <3>1. PICK i \in 1..k :
              /\ l.id = n + i
              /\ l = [id |-> n + i, doc |-> d, of |-> form[i].of, qty |-> form[i].qty]
      BY <1>3, <2>2
    <3>2. PICK j \in 1..k :
              /\ m.id = n + j
              /\ m = [id |-> n + j, doc |-> d, of |-> form[j].of, qty |-> form[j].qty]
      BY <1>3, <2>2
    <3>3. i = j
      <4>1. n + i = n + j
        BY <1>5, <3>1, <3>2
      <4> HIDE <3>1, <3>2
      <4> QED BY <4>1
    <3> QED BY <3>1, <3>2, <3>3
  <2>3. \A a \in L, b \in R : a.id # b.id
    <3> TAKE a \in L, b \in R
    <3>1. a.id \in 1..last
      BY DEF LinesFit
    <3>2. PICK i \in 1..k : b.id = n + i
      BY <1>3
    <3> QED BY <3>1, <3>2
  <2> QED BY <1>5, <2>1, <2>2, <2>3
<1> QED BY <1>2, <1>4, <1>5 DEF LinesFit

\* Lines that are written, or dropped.
LEMMA LinesDoes ==
  ASSUME NEW t, IsRdTxn(t), NEW u, IsRdTxn(u), u.ok => t.ok, NEW d,
         SameExcept({"lines", "lastLine"}, t.v, u.v), SameExcept({"lines", "lastLine"}, t.c, u.c),
         u.v.lastLine <= u.c.lastLine, t.c.lastLine <= u.c.lastLine,
         \A l \in u.v.lines : l \in t.v.lines \/ Lined({l}, t.c.status),
         \A l \in u.c.lines : l \in t.c.lines \/ Lined({l}, t.c.status)
  PROVE  Does(t, u, d) /\ (Sound(t) => Sound(u))
<1>1. /\ u.c.status = t.c.status /\ u.c.histories = t.c.histories /\ u.c.buckets = t.c.buckets
      /\ u.v.histories = t.v.histories /\ u.c.setup = t.c.setup
  BY DEF SameExcept, IsRdTxn, IsRd, RdColumns
<1>2. Grows(t.v.histories, u.v.histories) /\ Grows(t.c.histories, u.c.histories)
  BY <1>1, GrowsItself
<1>3. Booked(t) => Booked(u)
  BY <1>1 DEF Booked
<1>4. Sound(t) => Sound(u)
  BY <1>1 DEF Sound, Lined
<1> QED BY <1>1, <1>2, <1>3, <1>4 DEF Does

LEMMA WriteLinesDoes ==
  ASSUME NEW t, IsRdTxn(t), Sound(t), NEW d, NEW form, NEW k \in Nat, k = Len(form),
         DOMAIN form = 1..k,
         \A i \in DOMAIN form : form[i].qty \in Nat,
         d \in Handoffs \cup Scraps => \A i \in DOMAIN form : Started(form[i].of, t.c.status),
         NEW u, u = WriteLines(t, d, form)
  PROVE  /\ IsRdTxn(u) /\ u.ok = t.ok /\ Does(t, u, d) /\ Sound(u)
         /\ SameExcept({"lines", "lastLine"}, t.v, u.v)
         /\ SameExcept({"lines", "lastLine"}, t.c, u.c)
<1>1. PICK n, m, R, L, K : /\ n = t.c.lastLine /\ m = n + Len(form) /\ R = NewRows(n, d, form)
                           /\ L = t.v.lines \cup R /\ K = t.c.lines \cup R
  OBVIOUS
<1>2. /\ n \in Nat /\ t.v.lastLine \in Nat /\ t.v.lastLine <= n /\ m = n + k
      /\ LinesFit(t.v.lines, t.v.lastLine) /\ LinesFit(t.c.lines, n)
  BY <1>1 DEF IsRdTxn, IsRd, LinesFit, Sound
<1>3. LinesFit(L, m) /\ LinesFit(K, m)
  <2>1. LinesFit(L, n + k)
    BY <1>1, <1>2, NewRowsFit
  <2>2. LinesFit(K, n + k)
    BY <1>1, <1>2, NewRowsFit
  <2> QED BY <1>2, <2>1, <2>2
<1>4. PICK v, c : v = WithLines(t.v, L, m) /\ c = WithLines(t.c, K, m)
  OBVIOUS
<1>5. /\ IsRd(v) /\ v.lines = L /\ v.lastLine = m /\ SameExcept({"lines", "lastLine"}, t.v, v)
  BY <1>3, <1>4, LinesForm DEF IsRdTxn
<1>6. /\ IsRd(c) /\ c.lines = K /\ c.lastLine = m /\ SameExcept({"lines", "lastLine"}, t.c, c)
  BY <1>3, <1>4, LinesForm DEF IsRdTxn
<1>7. u = Having(t, v, c)
  BY <1>1, <1>4 DEF WriteLines, Both, Having, NewRows, WithLines
<1>8. u.v = v /\ u.c = c /\ u.ok = t.ok /\ IsRdTxn(u)
  BY <1>5, <1>6, <1>7, RdForms
<1>9. ASSUME NEW l \in R PROVE Lined({l}, t.c.status)
  <2>1. PICK i \in DOMAIN form : l = [id |-> n + i, doc |-> d, of |-> form[i].of, qty |-> form[i].qty]
    BY <1>1 DEF NewRows
  <2>2. l.doc = d /\ l.of = form[i].of
    BY <2>1
  <2> QED BY <2>2 DEF Lined, Started
<1>10. /\ u.v.lastLine <= u.c.lastLine /\ t.c.lastLine <= u.c.lastLine
       /\ \A l \in u.v.lines : l \in t.v.lines \/ Lined({l}, t.c.status)
       /\ \A l \in u.c.lines : l \in t.c.lines \/ Lined({l}, t.c.status)
  BY <1>1, <1>2, <1>5, <1>6, <1>8, <1>9
<1>11. Does(t, u, d) /\ Sound(u)
  BY <1>5, <1>6, <1>8, <1>10, LinesDoes
<1> QED BY <1>5, <1>6, <1>8, <1>11

LEMMA DropLinesDoes ==
  ASSUME NEW t, IsRdTxn(t), Sound(t), NEW d, NEW u, u = DropLines(t, d)
  PROVE  Does(t, u, d) /\ Sound(u) /\ IsRdTxn(u)
<1>1. PICK L, K : /\ L = {l \in t.v.lines : l.doc # d} /\ K = {l \in t.c.lines : l.doc # d}
  OBVIOUS
<1>2. LinesFit(L, t.v.lastLine) /\ LinesFit(K, t.c.lastLine)
  <2>1. L \subseteq t.v.lines /\ K \subseteq t.c.lines
    BY <1>1
  <2>2. LinesFit(t.v.lines, t.v.lastLine) /\ LinesFit(t.c.lines, t.c.lastLine)
    BY DEF IsRdTxn, IsRd
  <2> QED BY <2>1, <2>2, FS_Subset DEF LinesFit
<1>3. PICK v, c : v = WithLines(t.v, L, t.v.lastLine) /\ c = WithLines(t.c, K, t.c.lastLine)
  OBVIOUS
<1>4. /\ IsRd(v) /\ v.lines = L /\ v.lastLine = t.v.lastLine
      /\ SameExcept({"lines", "lastLine"}, t.v, v)
  BY <1>2, <1>3, LinesForm DEF IsRdTxn
<1>5. /\ IsRd(c) /\ c.lines = K /\ c.lastLine = t.c.lastLine
      /\ SameExcept({"lines", "lastLine"}, t.c, c)
  BY <1>2, <1>3, LinesForm DEF IsRdTxn
<1>6. u = Having(t, v, c)
  <2>1. v = [t.v EXCEPT !.lines = L] /\ c = [t.c EXCEPT !.lines = K]
    BY <1>3 DEF IsRdTxn, IsRd, RdColumns, WithLines
  <2> QED BY <1>1, <2>1 DEF DropLines, Both, Having
<1>7. u.v = v /\ u.c = c /\ u.ok = t.ok /\ IsRdTxn(u)
  BY <1>4, <1>5, <1>6, RdForms
<1>8. /\ u.v.lastLine <= u.c.lastLine /\ t.c.lastLine <= u.c.lastLine
      /\ u.v.lines \subseteq t.v.lines /\ u.c.lines \subseteq t.c.lines
  BY <1>1, <1>4, <1>5, <1>7 DEF Sound, IsRdTxn, IsRd, LinesFit
<1> QED BY <1>4, <1>5, <1>7, <1>8, LinesDoes

-----------------------------------------------------------------------------
(* Histories that are rolled back together, or marked.                     *)

LEMMA IdsOfRows ==
  ASSUME NEW H, Rows(H), NEW L, L \subseteq H, NEW S, S = {h.id : h \in L}
  PROVE  IsFiniteSet(S) /\ S \subseteq Nat
<1>1. IsFiniteSet(L) /\ \A h \in L : h.id \in Nat
  BY FS_Subset DEF Rows, IsRow
<1>2. PICK f : f = [h \in L |-> h.id]
  OBVIOUS
<1>3. DOMAIN f = L /\ S = {f[h] : h \in L}
  BY <1>2
<1>4. IsFiniteSet(S)
  BY <1>1, <1>3, FiniteImage
<1> QED BY <1>1, <1>4

ReverseStep(x, y, z, w, e, acc, id) == ReverseHistory(acc, id)
Reverses == INSTANCE FoldInduction WITH Step <- ReverseStep, Final <- Min, Holds <- RunsOn

LEMMA ReverseHistoriesRuns ==
  ASSUME NEW t, IsRdTxn(t), NEW doc, NEW event
  PROVE  Runs(t, ReverseHistories(t, doc, event))
<1>1. PICK rows, S : /\ rows = {h \in t.v.histories : h.event = event /\ h.doc = doc
                                                      /\ h.rev = NoHistory /\ ~h.undone}
                     /\ S = {h.id : h \in rows}
  OBVIOUS
<1>2. IsFiniteSet(S) /\ S \subseteq Nat /\ \A id \in S : \E h \in t.v.histories : h.id = id
  <2>1. rows \subseteq t.v.histories /\ Rows(t.v.histories)
    BY <1>1 DEF IsRdTxn, IsRd
  <2>2. IsFiniteSet(S) /\ S \subseteq Nat
    BY <1>1, <2>1, IdsOfRows
  <2>3. \A id \in S : \E h \in t.v.histories : h.id = id
    BY <1>1
  <2> QED BY <2>2, <2>3
<1>3. ASSUME NEW acc, NEW id \in S, Runs(t, acc)
      PROVE  Runs(t, ReverseStep(0, 0, 0, 0, 0, acc, id))
  <2>1. PICK h \in t.v.histories : h.id = id
    BY <1>2
  <2>2. PICK g \in acc.v.histories : Fixed(h, g)
    BY <1>3, <2>1 DEF Runs, Grows
  <2>3. g.id = id
    BY <2>1, <2>2, FixedMeans
  <2>4. Runs(acc, ReverseHistory(acc, id))
    BY <1>3, <2>3, ReverseHistoryRuns DEF Runs
  <2> QED BY <1>3, <2>4, RunsFurther DEF ReverseStep
<1>4. \A T \in SUBSET S : T # {} => Min(T) \in T
  BY <1>2, LastOfSome, FS_Subset
<1>5. RunsOn(0, 0, 0, 0, 0, t, {}, t)
  BY RunsItself DEF RunsOn
<1>6. \A T \in SUBSET S : \A acc :
          T # {} /\ RunsOn(0, 0, 0, 0, 0, t, T \ {Min(T)}, acc)
            => RunsOn(0, 0, 0, 0, 0, t, T, ReverseStep(0, 0, 0, 0, 0, acc, Min(T)))
  BY <1>3, <1>4 DEF RunsOn
<1>7. RunsOn(0, 0, 0, 0, 0, t, S, Reverses!Over(0, 0, 0, 0, 0, t, S))
  <2>1. Reverses!Founded(S)
    BY <1>2, FiniteFounded DEF Reverses!Founded
  <2> QED BY <1>4, <1>5, <1>6, <2>1, Reverses!Induction
<1>8. ReverseHistories(t, doc, event) = Reverses!Over(0, 0, 0, 0, 0, t, S)
  BY <1>1 DEF ReverseHistories, Reverses!Over, ReverseStep, NewestFirst, InOrder,
              MapThenFoldSet, Reverses!MapThenFoldSet
<1> QED BY <1>7, <1>8 DEF RunsOn

\* A history that names the log it stands for.
Logged(h, x) == [h EXCEPT !.log = x]
LoggedRows(H, id, x) == {IF h.id \in {id} THEN [h EXCEPT !.log = x] ELSE h : h \in H}

LEMMA LoggedForm ==
  ASSUME NEW h, IsRow(h), NEW x, NEW g, g = Logged(h, x)
  PROVE  IsRow(g) /\ Fixed(h, g) /\ g.undone = h.undone
<1>1. /\ DOMAIN g = HistoryFields
      /\ \A y \in HistoryFields : y # "log" => g[y] = h[y]
  BY DEF IsRow, Logged, HistoryFields
<1>2. Fixed(h, g) /\ g.undone = h.undone
  BY <1>1 DEF Fixed, FixedFields, HistoryFields
<1> QED BY <1>1, <1>2, FixedMeans DEF IsRow

LEMMA LoggedRowsForm ==
  ASSUME NEW H, Rows(H), NEW id, NEW x, NEW A, A = LoggedRows(H, id, x)
  PROVE  /\ Rows(A) /\ Grows(H, A) /\ Grows(A, H)
         /\ \A B, S : Ledgered(H, B, S) => Ledgered(A, B, S)
<1>1. PICK m : m = [h \in H |-> IF h.id \in {id} THEN Logged(h, x) ELSE h]
  OBVIOUS
<1>2. DOMAIN m = H /\ \A h \in H : IsRow(m[h]) /\ Fixed(h, m[h]) /\ m[h].undone = h.undone
  <2>1. ASSUME NEW h \in H PROVE IsRow(m[h]) /\ Fixed(h, m[h]) /\ m[h].undone = h.undone
    <3>1. CASE h.id \in {id}
      BY <1>1, <3>1, LoggedForm DEF Rows
    <3>2. CASE h.id \notin {id}
      BY <1>1, <3>2 DEF Rows, Fixed
    <3> QED BY <3>1, <3>2
  <2> QED BY <1>1, <2>1
<1>3. A = {m[h] : h \in H}
  <2>1. \A h \in H : m[h] = IF h.id \in {id} THEN [h EXCEPT !.log = x] ELSE h
    BY <1>1 DEF Logged
  <2> QED BY <2>1 DEF LoggedRows
<1>4. /\ Rows(A) /\ Grows(H, A) /\ Grows(A, H)
      /\ \A y \in H : (\A h \in H : h # y => m[h] = h /\ h # m[y]) => A = (H \ {y}) \cup {m[y]}
  BY <1>2, <1>3, RowsMarked
<1>5. ASSUME NEW B, NEW S, Ledgered(H, B, S) PROVE Ledgered(A, B, S)
  <2>1. CASE \A h \in H : h.id # id
    <3>1. \A h \in H : m[h] = h
      BY <1>1, <2>1
    <3>2. A = H
      BY <1>3, <3>1
    <3> QED BY <1>5, <3>2
  <2>2. CASE \E h \in H : h.id = id
    <3>1. PICK y \in H : y.id = id
      BY <2>2
    <3>2. \A h \in H : h.id = id => h = y
      BY <1>5, <3>1 DEF Ledgered, Counted
    <3>3. m[y].id = id
      BY <1>2, <3>1, FixedMeans
    <3>4. A = (H \ {y}) \cup {m[y]}
      BY <1>1, <1>4, <3>2, <3>3
    <3> QED BY <1>2, <1>5, <3>4, LedgerMarks
  <2> QED BY <2>1, <2>2
<1> QED BY <1>4, <1>5

LogMarked(t, id, x) == MarkHistories(t, {id}, LAMBDA h : [h EXCEPT !.log = x])

LEMMA MarkRuns ==
  ASSUME NEW t, IsRdTxn(t), NEW id, NEW x
  PROVE  Runs(t, LogMarked(t, id, x))
<1>1. PICK A, K : A = LoggedRows(t.v.histories, id, x) /\ K = LoggedRows(t.c.histories, id, x)
  OBVIOUS
<1>2. /\ Rows(A) /\ Grows(t.v.histories, A) /\ Grows(A, t.v.histories)
      /\ Rows(K) /\ Grows(t.c.histories, K)
      /\ \A B, S : Ledgered(t.c.histories, B, S) => Ledgered(K, B, S)
  <2>1. Rows(t.v.histories) /\ Rows(t.c.histories)
    BY DEF IsRdTxn, IsRd
  <2> QED BY <1>1, <2>1, LoggedRowsForm
<1>3. PICK v, c : v = [t.v EXCEPT !.histories = A] /\ c = [t.c EXCEPT !.histories = K]
  OBVIOUS
<1>4. /\ IsRd(v) /\ v.histories = A /\ SameExcept({"histories"}, t.v, v)
      /\ IsRd(c) /\ c.histories = K /\ SameExcept({"histories"}, t.c, c)
  <2>1. IsRd(t.v) /\ IsRd(t.c)
    BY DEF IsRdTxn
  <2>2. IsRd(v) /\ v.histories = A /\ SameExcept({"histories"}, t.v, v)
    BY <1>2, <1>3, <2>1, HistoriesForm
  <2>3. IsRd(c) /\ c.histories = K /\ SameExcept({"histories"}, t.c, c)
    BY <1>2, <1>3, <2>1, HistoriesForm
  <2> QED BY <2>2, <2>3
<1>5. PICK u : u = Having(t, v, c)
  OBVIOUS
<1>6. u.v = v /\ u.c = c /\ u.ok = t.ok /\ IsRdTxn(u)
  BY <1>4, <1>5, RdForms
<1>7. u = LogMarked(t, id, x)
  BY <1>1, <1>3, <1>5 DEF LogMarked, MarkHistories, Both, Having, LoggedRows
<1>8. SameExcept(Moving, t.v, u.v) /\ SameExcept(Moving, t.c, u.c)
  BY <1>4, <1>6 DEF SameExcept, Moving
<1>9. ASSUME Booked(t) PROVE Booked(u)
  <2>1. u.c.buckets = t.c.buckets /\ u.c.status = t.c.status
    BY <1>4, <1>6 DEF SameExcept, IsRdTxn, IsRd, RdColumns
  <2>2. Ledgered(K, t.c.buckets, t.c.status)
    BY <1>2, <1>9 DEF Booked
  <2>3. Grows(A, K)
    BY <1>2, <1>9, GrowsFurther DEF Booked
  <2> QED BY <1>4, <1>6, <2>1, <2>2, <2>3 DEF Booked
<1>10. Runs(t, u)
  BY <1>2, <1>4, <1>6, <1>8, <1>9 DEF Runs
<1> QED BY <1>7, <1>10

-----------------------------------------------------------------------------
(* Actions on a request.                                                   *)

LEMMA ManualReturnRuns ==
  ASSUME NEW t, IsRdTxn(t), NEW q, Started(q.doc, t.c.status), q.qty \in Nat
  PROVE  Runs(t, ManualReturn(t, q))
<1>1. PICK anchor, moved : /\ anchor = NextHistory(t)
                           /\ moved = Transfer(t, q.doc, "return", q.doc, <<"handedOff">>,
                                               "returned", q.qty)
  OBVIOUS
<1>2. Runs(t, moved) /\ IsRdTxn(moved)
  <2>1. Sources(<<"handedOff">>, "returned") /\ "returned" \in Statuses
    <3>1. <<"handedOff">> \in Seq(Statuses \ {"returned"}) /\ DOMAIN <<"handedOff">> = 1..1
      BY DEF Statuses
    <3> QED BY <3>1 DEF Sources, Statuses
  <2>2. q.doc \in Requests /\ t.c.status[q.doc] # "none"
    BY DEF Started
  <2>3. Runs(t, moved)
    BY <1>1, <2>1, <2>2, TransferRuns
  <2> QED BY <2>3 DEF Runs
<1>3. PICK carried : carried = Carry(moved, "rd", "main", q.doc, anchor, q.qty)
  OBVIOUS
<1>4. Runs(t, carried) /\ IsRdTxn(carried)
  <2>1. Runs(moved, carried)
    BY <1>2, <1>3, CarryRuns
  <2> QED BY <1>2, <2>1, RunsFurther DEF Runs
<1>5. PICK x : x = Max({l.id : l \in {m \in carried.v.rd.logs : m.key = Key("out", q.doc, anchor, 0)}})
  OBVIOUS
<1>6. PICK marked : marked = LogMarked(carried, anchor, x)
  OBVIOUS
<1>7. Runs(t, marked)
  BY <1>4, <1>6, MarkRuns, RunsFurther
<1>8. ManualReturn(t, q) = IF ~ProjectInForce(t.v) \/ ~moved.ok \/ ~carried.ok THEN Fail(t)
                           ELSE marked
  BY <1>1, <1>3, <1>5, <1>6 DEF ManualReturn, LogMarked, MarkHistories
<1> QED BY <1>7, <1>8, FailRuns

LEMMA UnfilledSources ==
  ASSUME NEW to \in {"accepted", "canceled"} PROVE Sources(Unfilled, to) /\ to \in Statuses
<1>1. Unfilled \in Seq(Statuses \ {to}) /\ DOMAIN Unfilled = 1..2
  BY DEF Unfilled, Statuses
<1>2. Unfilled[1] # Unfilled[2]
  BY DEF Unfilled
<1> QED BY <1>1, <1>2 DEF Sources, Statuses

LEMMA StatusActionRuns ==
  ASSUME NEW t, IsRdTxn(t), NEW q, Started(q.doc, t.c.status), q.qty \in Nat,
         q.act \in {"start", "accept", "cancel", "return"}
  PROVE  Runs(t, StatusAction(t, q))
<1>1. q.doc \in Requests /\ t.c.status[q.doc] # "none"
  BY DEF Started
<1>2. CASE q.act = "start"
  <2>1. Sources(<<"pending">>, "inProcurement") /\ "inProcurement" \in Statuses
    <3>1. <<"pending">> \in Seq(Statuses \ {"inProcurement"}) /\ DOMAIN <<"pending">> = 1..1
      BY DEF Statuses
    <3> QED BY <3>1 DEF Sources, Statuses
  <2>2. Runs(t, Transfer(t, q.doc, "start", q.doc, <<"pending">>, "inProcurement", q.qty))
    BY <1>1, <2>1, TransferRuns
  <2> QED BY <1>2, <2>2 DEF StatusAction
<1>3. CASE q.act = "accept"
  <2>1. Runs(t, Transfer(t, q.doc, "accept", q.doc, Unfilled, "accepted", q.qty))
    BY <1>1, UnfilledSources, TransferRuns
  <2> QED BY <1>3, <2>1 DEF StatusAction
<1>4. CASE q.act = "cancel"
  <2>1. Runs(t, Transfer(t, q.doc, "cancel", q.doc, Unfilled, "canceled", q.qty))
    BY <1>1, UnfilledSources, TransferRuns
  <2> QED BY <1>4, <2>1 DEF StatusAction
<1>5. CASE q.act = "return"
  BY <1>5, ManualReturnRuns DEF StatusAction
<1> QED BY <1>2, <1>3, <1>4, <1>5

LEMMA TakeBackReturnRuns ==
  ASSUME NEW t, IsRdTxn(t), NEW r, NEW id
  PROVE  Runs(t, TakeBackReturn(t, r, id))
<1>1. PICK ins, outs, u : /\ ins = {l \in OriginalLogs(t.v.main, r) : l.line = id}
                          /\ outs = {l \in OriginalLogs(t.v.rd, r) : l.line = id}
                          /\ u = ReleaseSourceUsagesForLine(In(t, "rd"), r, id)
  OBVIOUS
<1>2. /\ ins \subseteq t.v.main.logs /\ outs \subseteq t.v.rd.logs
      /\ IsStore(t.v.main) /\ IsStore(t.v.rd)
  BY <1>1 DEF OriginalLogs, IsRdTxn, IsRd
<1>3. After(In(t, "rd"), u)
  BY <1>1, InTxn, ReleaseLineAfter
<1>4. PICK back : back = ReverseLogs(ReverseLogs(Out(t, "rd", u), "main", ins, "undo", r),
                                     "rd", outs, "undo", r)
  OBVIOUS
<1>5. Runs(t, back)
  BY <1>2, <1>3, <1>4, BackRuns
<1>6. TakeBackReturn(t, r, id) = Fail(t) \/ TakeBackReturn(t, r, id) = back
  BY <1>1, <1>4 DEF TakeBackReturn, CarryBack
<1> QED BY <1>5, <1>6, FailRuns

LEMMA ReverseActionRuns ==
  ASSUME NEW t, IsRdTxn(t), NEW q, \E h \in t.v.histories : h.id = q.history
  PROVE  Runs(t, ReverseAction(t, q))
<1>1. PICK h : h = HistoryById(t.v, q.history)
  OBVIOUS
<1>2. h \in t.v.histories
  BY <1>1 DEF HistoryById
<1>3. PICK back : back = IF h.event = "return" /\ h.log # NoLog
                         THEN TakeBackReturn(t, q.doc, h.id) ELSE t
  OBVIOUS
<1>4. Runs(t, back) /\ IsRdTxn(back)
  <2>1. Runs(t, back)
    BY <1>3, RunsItself, TakeBackReturnRuns
  <2> QED BY <2>1 DEF Runs
<1>5. \E g \in back.v.histories : g.id = h.id
  <2>1. PICK g \in back.v.histories : Fixed(h, g)
    BY <1>2, <1>4 DEF Runs, Grows
  <2> QED BY <2>1, FixedMeans
<1>6. Runs(t, ReverseHistory(back, h.id))
  BY <1>4, <1>5, ReverseHistoryRuns, RunsFurther
<1>7. ReverseAction(t, q) = Fail(t) \/ ReverseAction(t, q) = ReverseHistory(back, h.id)
  BY <1>1, <1>3 DEF ReverseAction
<1> QED BY <1>6, <1>7, FailRuns

LEMMA VoidRequestDoes ==
  ASSUME NEW t, IsRdTxn(t), NEW q, Started(q.doc, t.c.status)
  PROVE  Does(t, VoidRequest(t, q), q.doc)
<1>1. PICK b \in [Statuses -> Nat] : b = t.v.buckets[q.doc]
  BY DEF IsRdTxn, IsRd, Started
<1>2. PICK left \in Nat : left = b.pending + b.inProcurement
  <2>1. b["pending"] \in Nat /\ b["inProcurement"] \in Nat
    BY DEF Statuses
  <2> QED BY <2>1
<1>3. PICK canceled : canceled = IF left = 0 THEN t
                                 ELSE Transfer(t, q.doc, "voided", q.doc, Unfilled, "canceled", left)
  OBVIOUS
<1>4. Runs(t, canceled)
  <2>1. Runs(t, Transfer(t, q.doc, "voided", q.doc, Unfilled, "canceled", left))
    BY UnfilledSources, TransferRuns DEF Started
  <2> QED BY <1>3, <2>1, RunsItself
<1>5. Does(t, SetStatus(canceled, q.doc, "voided"), q.doc)
  <2>1. Does(t, canceled, q.doc) /\ IsRdTxn(canceled)
    BY <1>4, RunsDoes
  <2>2. Does(canceled, SetStatus(canceled, q.doc, "voided"), q.doc)
    BY <2>1, SetStatusDoes
  <2> QED BY <2>1, <2>2, DoesFurther
<1>6. VoidRequest(t, q) = Fail(t) \/ VoidRequest(t, q) = SetStatus(canceled, q.doc, "voided")
  BY <1>1, <1>2, <1>3 DEF VoidRequest
<1> QED BY <1>5, <1>6, FailRuns, RunsDoes

-----------------------------------------------------------------------------
(* Handoffs and scraps.                                                    *)

\* A document is filed, or there, and its lines are written.
LEMMA FormFits ==
  ASSUME NEW form, NEW S, Bounded(form, S)
  PROVE  /\ Len(form) \in Nat /\ DOMAIN form = 1..Len(form)
         /\ \A i \in DOMAIN form : form[i].qty \in Nat /\ Started(form[i].of, S)
<1>1. /\ Len(form) \in Nat /\ DOMAIN form = 1..Len(form)
      /\ \A i \in DOMAIN form : form[i] \in [of : Requests, qty : Nat]
  BY SeqElement DEF Bounded
<1>2. \A i \in DOMAIN form : form[i].qty \in Nat /\ form[i].of \in Requests
  BY <1>1
<1> QED BY <1>1, <1>2 DEF Bounded, Started

LEMMA StartedStays ==
  ASSUME NEW t, NEW u, NEW d, Does(t, u, d), NEW r, Started(r, t.c.status)
  PROVE  Started(r, u.c.status)
BY DEF Does, Started, Docs

LEMMA SoundBinds ==
  ASSUME NEW t, Sound(t), NEW d \in Handoffs \cup Scraps
  PROVE  Bound(t, d)
BY DEF Sound, Lined, Bound

LEMMA CreateHandoffDoes ==
  ASSUME NEW t, IsRdTxn(t), Sound(t), NEW q, q.doc \in Handoffs \cup Scraps,
         Bounded(q.form, t.c.status)
  PROVE  Does(t, CreateHandoff(t, q), q.doc)
<1>1. PICK d : d = q.doc
  OBVIOUS
<1>2. PICK a, filed : a = FileOnce(t, d, q.token) /\ filed = WriteLines(a, d, q.form)
  OBVIOUS
<1>3. Does(t, a, d) /\ IsRdTxn(a) /\ Sound(a)
  BY <1>2, FileOnceDoes DEF Does
<1>4. Does(a, filed, d) /\ IsRdTxn(filed) /\ Sound(filed)
  <2>1. /\ Len(q.form) \in Nat /\ DOMAIN q.form = 1..Len(q.form)
        /\ \A i \in DOMAIN q.form : q.form[i].qty \in Nat /\ Started(q.form[i].of, t.c.status)
    BY FormFits
  <2>2. \A i \in DOMAIN q.form : Started(q.form[i].of, a.c.status)
    BY <1>3, <2>1, StartedStays
  <2> QED BY <1>2, <1>3, <2>1, <2>2, WriteLinesDoes
<1>5. PICK S : S = {l.id : l \in LinesOf(filed.v, d)}
  OBVIOUS
<1>6. IsFiniteSet(S) /\ S \subseteq Nat
  BY <1>4, <1>5, LineIds DEF IsRdTxn
<1>7. PICK carried : carried = CarryLines!Over(d, 0, 0, 0, 0, filed, S)
  OBVIOUS
<1>8. Does(filed, carried, d) /\ IsRdTxn(carried) /\ Sound(carried)
  <2>1. Runs(filed, carried)
    BY <1>4, <1>6, <1>7, CarryLinesRun
  <2> QED BY <1>4, <2>1, RunsDoes
<1>9. PICK done : done = LineStatuses(carried, d, "handoff", "accepted", "handedOff")
  OBVIOUS
<1>10. Does(carried, done, d)
  <2>1. Bound(carried, d)
    BY <1>1, <1>8, SoundBinds
  <2>2. Runs(carried, done)
    BY <1>8, <1>9, <2>1, LineStatusesRuns DEF Statuses
  <2> QED BY <1>8, <2>2, RunsDoes
<1>11. CreateHandoff(t, q) = Fail(t) \/ CreateHandoff(t, q) = done
  <2>1. CreateHandoff(t, q) = Fail(t)
        \/ CreateHandoff(t, q)
          = LineStatuses(CarryLines!Over(d, 0, 0, 0, 0, filed, {l.id : l \in LinesOf(filed.v, d)}),
                         d, "handoff", "accepted", "handedOff")
    BY <1>1, <1>2 DEF CreateHandoff, ForLines, CarryLines!Over, CarryLineStep, OldestFirst, InOrder,
                      MapThenFoldSet, CarryLines!MapThenFoldSet
  <2> QED BY <1>5, <1>7, <1>9, <2>1
<1>12. Does(t, Fail(t), q.doc)
  BY FailRuns, RunsDoes
<1>13. Does(t, done, q.doc)
  BY <1>1, <1>3, <1>4, <1>8, <1>10, DoesFurther
<1> QED BY <1>11, <1>12, <1>13

LEMMA VoidHandoffDoes ==
  ASSUME NEW t, IsRdTxn(t), NEW q
  PROVE  Does(t, VoidHandoff(t, q), q.doc)
<1>1. PICK undone, ins, outs : /\ undone = ReverseHistories(t, q.doc, "handoff")
                               /\ ins = OriginalLogs(t.v.rd, q.doc)
                               /\ outs = OriginalLogs(t.v.main, q.doc)
  OBVIOUS
<1>2. /\ ins \subseteq t.v.rd.logs /\ outs \subseteq t.v.main.logs
      /\ IsStore(t.v.main) /\ IsStore(t.v.rd)
  BY <1>1 DEF OriginalLogs, IsRdTxn, IsRd
<1>3. Runs(t, undone) /\ IsRdTxn(undone)
  <2>1. Runs(t, undone)
    BY <1>1, ReverseHistoriesRuns
  <2> QED BY <2>1 DEF Runs
<1>4. PICK u : u = ReleaseAllSourceUsages(In(undone, "main"), q.doc)
  OBVIOUS
<1>5. After(In(undone, "main"), u)
  BY <1>3, <1>4, InTxn, ReleaseAllSourceUsagesAfter
<1>6. PICK whole : whole = ReverseLogs(ReverseLogs(Out(undone, "main", u), "rd", ins, "void", q.doc),
                                       "main", outs, "void", q.doc)
  OBVIOUS
<1>7. Runs(undone, whole)
  BY <1>2, <1>3, <1>5, <1>6, BackRuns
<1>8. PICK back : back = IF outs = {} \/ ~NoneDrawnOn(undone.v.rd, ins) THEN Fail(undone) ELSE whole
  OBVIOUS
<1>9. Does(t, back, q.doc) /\ IsRdTxn(back)
  <2>1. Runs(undone, back)
    BY <1>3, <1>7, <1>8, FailRuns
  <2>2. Runs(t, back)
    BY <1>3, <2>1, RunsFurther
  <2> QED BY <2>2, RunsDoes
<1>10. VoidHandoff(t, q) = SetStatus(back, q.doc, "voided")
  BY <1>1, <1>4, <1>6, <1>8 DEF VoidHandoff, CarryBack
<1>11. Does(back, SetStatus(back, q.doc, "voided"), q.doc)
  BY <1>9, SetStatusDoes
<1> QED BY <1>9, <1>10, <1>11, DoesFurther

LEMMA SettleScrapDoes ==
  ASSUME NEW t, IsRdTxn(t), Sound(t), NEW d \in Handoffs \cup Scraps
  PROVE  Does(t, SettleScrap(t, d), d)
<1>1. PICK taken, done : /\ taken = TakeLines(t, d, "scrap")
                         /\ done = LineStatuses(taken, d, "scrap", "handedOff", "scrapped")
  OBVIOUS
<1>2. Runs(t, taken) /\ IsRdTxn(taken) /\ Sound(taken)
  <2>1. Runs(t, taken)
    BY <1>1, TakeLinesRuns
  <2> QED BY <2>1, RunsDoes
<1>3. Runs(taken, done)
  <2>1. Bound(taken, d)
    BY <1>2, SoundBinds
  <2> QED BY <1>1, <1>2, <2>1, LineStatusesRuns DEF Statuses
<1>4. SettleScrap(t, d) = Fail(t) \/ SettleScrap(t, d) = done
  BY <1>1 DEF SettleScrap
<1> QED BY <1>2, <1>3, <1>4, FailRuns, RunsFurther, RunsDoes

LEMMA CreateScrapDoes ==
  ASSUME NEW t, IsRdTxn(t), Sound(t), NEW q, q.doc \in Handoffs \cup Scraps,
         Bounded(q.form, t.c.status)
  PROVE  Does(t, CreateScrap(t, q), q.doc)
<1>1. PICK d, a, filed : d = q.doc /\ a = SetStatus(t, d, "effective")
                         /\ filed = WriteLines(a, d, q.form)
  OBVIOUS
<1>3. Does(t, a, d) /\ IsRdTxn(a) /\ Sound(a)
  <2>1. Does(t, a, d)
    BY <1>1, SetStatusDoes
  <2> QED BY <2>1 DEF Does
<1>4. Does(a, filed, d) /\ IsRdTxn(filed) /\ Sound(filed)
  <2>1. /\ Len(q.form) \in Nat /\ DOMAIN q.form = 1..Len(q.form)
        /\ \A i \in DOMAIN q.form : q.form[i].qty \in Nat /\ Started(q.form[i].of, t.c.status)
    BY FormFits
  <2>2. \A i \in DOMAIN q.form : Started(q.form[i].of, a.c.status)
    BY <1>3, <2>1, StartedStays
  <2> QED BY <1>1, <1>3, <2>1, <2>2, WriteLinesDoes
<1>5. Does(filed, SettleScrap(filed, d), d)
  BY <1>1, <1>4, SettleScrapDoes
<1> QED BY <1>1, <1>3, <1>4, <1>5, DoesFurther DEF CreateScrap

LEMMA UndoScrapRuns ==
  ASSUME NEW t, IsRdTxn(t), NEW d, NEW kind
  PROVE  Runs(t, UndoScrap(t, d, kind))
<1>1. PICK u, released : /\ u = ReleaseAllSourceUsages(In(t, "rd"), d)
                         /\ released = Out(t, "rd", u)
  OBVIOUS
<1>2. Runs(t, released) /\ IsRdTxn(released)
  <2>1. After(In(t, "rd"), u)
    BY <1>1, InTxn, ReleaseAllSourceUsagesAfter
  <2>2. Runs(t, released)
    BY <1>1, <2>1, OutRuns
  <2> QED BY <2>2 DEF Runs
<1>3. PICK undone : undone = ReverseHistories(released, d, "scrap")
  OBVIOUS
<1>4. Runs(released, undone) /\ IsRdTxn(undone)
  <2>1. Runs(released, undone)
    BY <1>2, <1>3, ReverseHistoriesRuns
  <2> QED BY <2>1 DEF Runs
<1>5. PICK w : w = ReverseAllLogs(In(undone, "rd"), d, kind, 0)
  OBVIOUS
<1>6. Runs(undone, Out(undone, "rd", w))
  <2>1. After(In(undone, "rd"), w)
    BY <1>4, <1>5, InTxn, ReverseAllLogsAfter
  <2> QED BY <1>4, <2>1, OutRuns
<1>7. UndoScrap(t, d, kind) = Out(undone, "rd", w)
  BY <1>1, <1>3, <1>5 DEF UndoScrap
<1> QED BY <1>2, <1>4, <1>6, <1>7, RunsFurther

LEMMA UpdateScrapDoes ==
  ASSUME NEW t, IsRdTxn(t), Sound(t), NEW q, q.doc \in Handoffs \cup Scraps,
         Bounded(q.form, t.c.status)
  PROVE  Does(t, UpdateScrap(t, q), q.doc)
<1>1. PICK d, a, b, filed : /\ d = q.doc /\ a = UndoScrap(t, d, "edit") /\ b = DropLines(a, d)
                            /\ filed = WriteLines(b, d, q.form)
  OBVIOUS
<1>2. Does(t, a, d) /\ IsRdTxn(a) /\ Sound(a)
  <2>1. Runs(t, a)
    BY <1>1, UndoScrapRuns
  <2> QED BY <2>1, RunsDoes
<1>3. Does(a, b, d) /\ IsRdTxn(b) /\ Sound(b)
  BY <1>1, <1>2, DropLinesDoes
<1>4. Does(t, b, d)
  BY <1>2, <1>3, DoesFurther
<1>5. Does(b, filed, d) /\ IsRdTxn(filed) /\ Sound(filed)
  <2>1. /\ Len(q.form) \in Nat /\ DOMAIN q.form = 1..Len(q.form)
        /\ \A i \in DOMAIN q.form : q.form[i].qty \in Nat /\ Started(q.form[i].of, t.c.status)
    BY FormFits
  <2>2. \A i \in DOMAIN q.form : Started(q.form[i].of, b.c.status)
    BY <1>4, <2>1, StartedStays
  <2> QED BY <1>1, <1>3, <2>1, <2>2, WriteLinesDoes
<1>6. Does(filed, SettleScrap(filed, d), d)
  BY <1>1, <1>5, SettleScrapDoes
<1>7. Does(t, SettleScrap(filed, d), d)
  BY <1>4, <1>5, <1>6, DoesFurther
<1>8. UpdateScrap(t, q) = Fail(t) \/ UpdateScrap(t, q) = SettleScrap(filed, d)
  BY <1>1 DEF UpdateScrap
<1> QED BY <1>1, <1>7, <1>8, FailRuns, RunsDoes

LEMMA VoidScrapDoes ==
  ASSUME NEW t, IsRdTxn(t), NEW q
  PROVE  Does(t, VoidScrap(t, q), q.doc)
<1>1. PICK a : a = UndoScrap(t, q.doc, "void")
  OBVIOUS
<1>2. Does(t, a, q.doc) /\ IsRdTxn(a)
  <2>1. Runs(t, a)
    BY <1>1, UndoScrapRuns
  <2> QED BY <2>1, RunsDoes
<1>3. Does(a, SetStatus(a, q.doc, "voided"), q.doc)
  BY <1>2, SetStatusDoes
<1> QED BY <1>1, <1>2, <1>3, DoesFurther DEF VoidScrap

-----------------------------------------------------------------------------
(* Stocktakes and the project.                                             *)

LEMMA CreateStocktakeDoes ==
  ASSUME NEW t, IsRdTxn(t), NEW q
  PROVE  Does(t, CreateStocktake(t, q), q.doc)
<1>1. PICK a, u : a = SetStatus(t, q.doc, "effective") /\ u = In(a, "rd")
  OBVIOUS
<1>2. Does(t, a, q.doc) /\ IsRdTxn(a)
  <2>1. Does(t, a, q.doc)
    BY <1>1, SetStatusDoes
  <2> QED BY <2>1 DEF Does
<1>3. PICK change : change = q.counted - MapThenSumSet(LAMBDA l : l.change,
                                   {l \in u.v.logs : l.rev = NoLog /\ ~Reversed(u.v, l.id)})
  OBVIOUS
<1>4. PICK x : x = Posting(Key("count", q.doc, 0, 0), q.doc, 0, change, 1, FALSE, <<>>)
  OBVIOUS
<1>5. IsTxn(u) /\ "id" \in DOMAIN x
  BY <1>1, <1>2, <1>4, InTxn, PostingHasId
<1>6. PICK w : w = CASE ~ProjectInForce(t.v) -> Fail(u)
                     [] change = 0 -> u
                     [] change > 0 -> IncreaseStock(u, x)
                     [] OTHER -> PostLogFirst(u, x, FALSE)
  OBVIOUS
<1>7. After(u, w)
  <2>1. /\ After(u, Fail(u)) /\ After(u, u) /\ After(u, IncreaseStock(u, x))
        /\ After(u, PostLogFirst(u, x, FALSE))
    BY <1>5, TxnForms, AfterItself, IncreaseStockAfter, PostLogFirstAfter
  <2>2. w \in {Fail(u), u, IncreaseStock(u, x), PostLogFirst(u, x, FALSE)}
    BY <1>6
  <2> QED BY <2>1, <2>2
<1>8. Does(a, Out(a, "rd", w), q.doc)
  <2>1. Runs(a, Out(a, "rd", w))
    BY <1>1, <1>2, <1>7, OutRuns
  <2> QED BY <1>2, <2>1, RunsDoes
<1>9. CreateStocktake(t, q) = Out(a, "rd", w)
  BY <1>1, <1>3, <1>4, <1>6 DEF CreateStocktake
<1> QED BY <1>2, <1>8, <1>9, DoesFurther

LEMMA VoidStocktakeDoes ==
  ASSUME NEW t, IsRdTxn(t), NEW q
  PROVE  Does(t, VoidStocktake(t, q), q.doc)
<1>1. PICK L, a : L = OriginalLogs(t.v.rd, q.doc) /\ a = ReverseLogs(t, "rd", L, "void", q.doc)
  OBVIOUS
<1>2. Does(t, a, q.doc) /\ IsRdTxn(a)
  <2>1. L \subseteq t.v.rd.logs /\ IsStore(t.v.rd)
    BY <1>1 DEF OriginalLogs, IsRdTxn, IsRd
  <2>2. Runs(t, a)
    BY <1>1, <2>1, ReverseLogsRuns
  <2> QED BY <2>2, RunsDoes
<1>3. Does(a, SetStatus(a, q.doc, "voided"), q.doc)
  BY <1>2, SetStatusDoes
<1> QED BY <1>1, <1>2, <1>3, DoesFurther DEF VoidStocktake

LEMMA OneLineFits ==
  ASSUME NEW form, OneLine(form)
  PROVE  Len(form) = 1 /\ DOMAIN form = 1..1 /\ \A i \in DOMAIN form : form[i].qty \in Nat
<1>1. PICK line : line = [of |-> form[1].of, qty |-> form[1].qty]
  OBVIOUS
<1>2. form = <<line>> /\ form[1].qty \in Nat
  BY <1>1 DEF OneLine
<1>3. Len(form) = 1 /\ DOMAIN form = 1..1
  BY <1>2
<1>4. \A i \in 1..1 : i = 1
  OBVIOUS
<1> QED BY <1>2, <1>3, <1>4

\* A project action is filed with its line.
LEMMA FiledUse ==
  ASSUME NEW t, IsRdTxn(t), Sound(t), NEW d \in Uses \cup Givebacks, NEW token, NEW form,
         OneLine(form), NEW filed, filed = WriteLines(FileOnce(t, d, token), d, form)
  PROVE  Does(t, filed, d) /\ IsRdTxn(filed)
<1>1. PICK a : a = FileOnce(t, d, token)
  OBVIOUS
<1>2. Does(t, a, d) /\ IsRdTxn(a) /\ Sound(a)
  BY <1>1, FileOnceDoes DEF Does
<1>3. PICK k \in Nat : k = 1
  OBVIOUS
<1>4. k = Len(form) /\ DOMAIN form = 1..k /\ \A i \in DOMAIN form : form[i].qty \in Nat
  BY <1>3, OneLineFits
<1>5. d \notin Handoffs \cup Scraps
  BY RdAssumption
<1>6. Does(a, filed, d) /\ IsRdTxn(filed)
  BY <1>1, <1>2, <1>4, <1>5, WriteLinesDoes
<1> QED BY <1>2, <1>6, DoesFurther

LEMMA CreateUseDoes ==
  ASSUME NEW t, IsRdTxn(t), Sound(t), NEW q, q.doc \in Uses \cup Givebacks, OneLine(q.form)
  PROVE  Does(t, CreateUse(t, q), q.doc)
<1>1. PICK filed : filed = WriteLines(FileOnce(t, q.doc, q.token), q.doc, q.form)
  OBVIOUS
<1>2. Does(t, filed, q.doc) /\ IsRdTxn(filed)
  BY <1>1, FiledUse
<1>3. Does(filed, TakeLines(filed, q.doc, "use"), q.doc)
  BY <1>2, TakeLinesRuns, RunsDoes
<1> QED BY <1>1, <1>2, <1>3, DoesFurther DEF CreateUse

LEMMA CreateGivebackDoes ==
  ASSUME NEW t, IsRdTxn(t), Sound(t), NEW q, q.doc \in Uses \cup Givebacks, OneLine(q.form)
  PROVE  Does(t, CreateGiveback(t, q), q.doc)
<1>1. PICK filed, S, given : /\ filed = WriteLines(FileOnce(t, q.doc, q.token), q.doc, q.form)
                             /\ S = {l.id : l \in LinesOf(filed.v, q.doc)}
                             /\ given = LineGives!Over(q.doc, 0, 0, 0, 0, filed, S)
  OBVIOUS
<1>2. Does(t, filed, q.doc) /\ IsRdTxn(filed)
  BY <1>1, FiledUse
<1>3. Does(filed, given, q.doc)
  <2>1. IsFiniteSet(S) /\ S \subseteq Nat
    BY <1>1, <1>2, LineIds DEF IsRdTxn
  <2>2. Runs(filed, given)
    BY <1>1, <1>2, <2>1, LineGivesRun
  <2> QED BY <1>2, <2>2, RunsDoes
<1>4. CreateGiveback(t, q) = IF Returnable(t.v, q.form) THEN given ELSE Fail(t)
  <2>1. CreateGiveback(t, q)
          = IF Returnable(t.v, q.form)
            THEN LineGives!Over(q.doc, 0, 0, 0, 0, filed, {l.id : l \in LinesOf(filed.v, q.doc)})
            ELSE Fail(t)
    BY <1>1 DEF CreateGiveback, ForLines, LineGives!Over, GiveLineStep, OldestFirst, InOrder,
                MapThenFoldSet, LineGives!MapThenFoldSet
  <2> QED BY <1>1, <2>1
<1> QED BY <1>2, <1>3, <1>4, DoesFurther, FailRuns, RunsDoes

LEMMA VoidUseDoes ==
  ASSUME NEW t, IsRdTxn(t), NEW q
  PROVE  Does(t, VoidUse(t, q), q.doc)
<1>1. PICK freed, w, a : /\ freed = ReleaseAllSourceUsages(In(t, "rd"), q.doc)
                         /\ w = ReverseDocument(freed, q.doc)
                         /\ a = Out(t, "rd", w)
  OBVIOUS
<1>2. Does(t, a, q.doc) /\ IsRdTxn(a)
  <2>1. After(In(t, "rd"), freed)
    BY <1>1, InTxn, ReleaseAllSourceUsagesAfter
  <2>2. After(freed, w)
    BY <1>1, <2>1, ReverseDocumentAfter DEF After
  <2>3. Runs(t, a)
    BY <1>1, <2>1, <2>2, AfterAfter, OutRuns
  <2> QED BY <2>3, RunsDoes
<1>3. Does(t, SetStatus(a, q.doc, "voided"), q.doc)
  BY <1>2, SetStatusDoes, DoesFurther
<1>4. VoidUse(t, q) = Fail(t) \/ VoidUse(t, q) = SetStatus(a, q.doc, "voided")
  BY <1>1 DEF VoidUse
<1> QED BY <1>3, <1>4, FailRuns, RunsDoes

LEMMA VoidGivebackDoes ==
  ASSUME NEW t, IsRdTxn(t), NEW q
  PROVE  Does(t, VoidGiveback(t, q), q.doc)
<1>1. PICK w, a, S, taken : /\ w = ReverseDocument(In(t, "rd"), q.doc)
                            /\ a = Out(t, "rd", w)
                            /\ S = {l.id : l \in LinesOf(a.v, q.doc)}
                            /\ taken = LineAgains!Over(q.doc, 0, 0, 0, 0, a, S)
  OBVIOUS
<1>2. Does(t, a, q.doc) /\ IsRdTxn(a)
  <2>1. After(In(t, "rd"), w)
    BY <1>1, InTxn, ReverseDocumentAfter
  <2>2. Runs(t, a)
    BY <1>1, <2>1, OutRuns
  <2> QED BY <2>2, RunsDoes
<1>3. Does(a, taken, q.doc) /\ IsRdTxn(taken)
  <2>1. IsFiniteSet(S) /\ S \subseteq Nat
    BY <1>1, <1>2, LineIds DEF IsRdTxn
  <2>2. Runs(a, taken)
    BY <1>1, <1>2, <2>1, LineAgainsRun
  <2> QED BY <1>2, <2>2, RunsDoes
<1>4. Does(taken, SetStatus(taken, q.doc, "voided"), q.doc)
  BY <1>3, SetStatusDoes
<1>5. VoidGiveback(t, q) = SetStatus(taken, q.doc, "voided")
  <2>1. VoidGiveback(t, q)
          = SetStatus(LineAgains!Over(q.doc, 0, 0, 0, 0, a, {l.id : l \in LinesOf(a.v, q.doc)}),
                      q.doc, "voided")
    BY <1>1 DEF VoidGiveback, ForLines, LineAgains!Over, AgainLineStep, OldestFirst, InOrder,
                MapThenFoldSet, LineAgains!MapThenFoldSet
  <2> QED BY <1>1, <2>1
<1> QED BY <1>2, <1>3, <1>4, <1>5, DoesFurther

LEMMA VoidProjectDoes ==
  ASSUME NEW t, IsRdTxn(t), NEW q, q.doc = Project
  PROVE  Does(t, VoidProject(t, q), q.doc)
BY SetStatusDoes DEF VoidProject

-----------------------------------------------------------------------------
(* A new request.                                                          *)

LEMMA LedgerCreates ==
  ASSUME NEW H, NEW B, NEW S, Ledgered(H, B, S), NEW r \in Requests, S[r] # "none",
         \A h \in H : h.of # r, NEW x, IsRow(x), x.id = Cardinality(H) + 1, x.rev = NoHistory,
         ~x.undone, x.of = r, x.from = "none", x.to = "pending", x.event = "created",
         NEW M, M = H \cup {x}, NEW b, b = [B[r] EXCEPT !["pending"] = x.qty]
  PROVE  Ledgered(M, Reset(B, r, b), S)
<1>1. PICK A : A = Reset(B, r, b)
  OBVIOUS
<1>2. /\ Counted(H) /\ OneRollback(H) /\ x.rev \in 0..Cardinality(H)
      /\ B \in [Requests -> [Statuses -> Nat]] /\ Cardinality(H) \in Nat
  BY FS_CardinalityType DEF Ledgered, Counted, Rows, NoHistory
<1>3. /\ Counted(M) /\ x \notin H /\ \A h \in H : h.rev # x.id /\ h.id # x.id
  BY <1>2, CountedWith
<1>4. Explained(b, Live(M, r))
  <2>1. Live(H, r) = {} /\ Live(M, r) = {x}
    BY DEF Live
  <2>2. Explained(B[r], {})
    BY <2>1 DEF Ledgered
  <2>3. PICK a, m : a = B[r] /\ m = [a EXCEPT !["pending"] = x.qty]
    OBVIOUS
  <2>4. Explained(m, {x})
    BY <2>2, <2>3, ExplainedCreated
  <2> QED BY <2>1, <2>3, <2>4
<1>5. A \in [Requests -> [Statuses -> Nat]] /\ A[r] = b /\ \A q \in Requests : q # r => A[q] = B[q]
  <2>1. b \in [Statuses -> Nat]
    BY <1>4 DEF Explained
  <2> QED BY <1>1, <1>2, <2>1 DEF Reset
<1>6. \A q \in Requests : Explained(A[q], Live(M, q))
  <2> TAKE q \in Requests
  <2>1. CASE q = r
    BY <1>4, <1>5, <2>1
  <2>2. CASE q # r
    <3>1. Live(M, q) = Live(H, q)
      BY <2>2 DEF Live
    <3>2. Explained(B[q], Live(H, q))
      BY DEF Ledgered
    <3> QED BY <1>5, <2>2, <3>1, <3>2
  <2> QED BY <2>1, <2>2
<1>7. OneRollback(M)
  <2>1. x.id # NoHistory /\ x.id # x.rev
    BY <1>2 DEF NoHistory
  <2>2. \A h \in H : h.id # NoHistory
    BY <1>2 DEF Counted, NoHistory
  <2> QED BY <1>2, <1>3, <2>1, <2>2 DEF OneRollback
<1>8. \A h \in M : S[h.of] # "none"
  BY DEF Ledgered
<1> QED BY <1>1, <1>3, <1>5, <1>6, <1>7, <1>8 DEF Ledgered

\* The quantity that was asked for, in the first bucket.
WithPending(st, r, n) == [st EXCEPT !.buckets[r].pending = n]
Pending(b, n) == [b EXCEPT !["pending"] = n]

LEMMA PendingForm ==
  ASSUME NEW st, IsRd(st), NEW r \in Requests, NEW n \in Nat, NEW w, w = WithPending(st, r, n)
  PROVE  /\ IsRd(w) /\ w.buckets = Reset(st.buckets, r, Pending(st.buckets[r], n))
         /\ SameExcept({"buckets"}, st, w)
<1>1. PICK B \in [Requests -> [Statuses -> Nat]] : B = st.buckets
  BY DEF IsRd
<1>2. PICK b : b = [B[r] EXCEPT !["pending"] = n]
  OBVIOUS
<1>3. b \in [Statuses -> Nat]
  BY <1>2 DEF Statuses
<1>4. PICK u : u = [st EXCEPT !.buckets[r] = b]
  OBVIOUS
<1>5. /\ IsRd(u) /\ u.buckets = [st.buckets EXCEPT ![r] = b] /\ SameExcept({"buckets"}, st, u)
  BY <1>3, <1>4, BucketsForm
<1>6. w = u
  BY <1>1, <1>2, <1>4 DEF WithPending, IsRd, RdColumns
<1> QED BY <1>1, <1>2, <1>5, <1>6 DEF Reset, Pending

LEMMA CreateRequestDoes ==
  ASSUME NEW t, IsRdTxn(t), Sound(t), NEW q, q.doc \in Requests, t.c.status[q.doc] = "none",
         OneLine(q.form)
  PROVE  Does(t, CreateRequest(t, q), q.doc)
<1>1. PICK r, qty, a, filed : /\ r = q.doc /\ qty = q.form[1].qty
                              /\ a = FileOnce(t, r, q.token) /\ filed = WriteLines(a, r, q.form)
  OBVIOUS
<1>2. r \in Docs /\ r \in Requests /\ qty \in Nat
  BY <1>1 DEF Docs, OneLine
<1>3. /\ IsRdTxn(a) /\ (a.ok => t.ok) /\ Does(t, a, r) /\ Sound(a)
      /\ SameExcept({"status", "token"}, t.v, a.v) /\ SameExcept({"status", "token"}, t.c, a.c)
      /\ a.ok => a.c.status[r] = "effective"
  <2>1. /\ IsRdTxn(a) /\ (a.ok => t.ok)
        /\ SameExcept({"status", "token"}, t.v, a.v) /\ SameExcept({"status", "token"}, t.c, a.c)
        /\ a.ok /\ r \in Docs => a.c.status[r] = "effective"
    BY <1>1, FileOnceForm
  <2>2. Does(t, a, r)
    BY <1>1, FileOnceDoes
  <2> QED BY <1>2, <2>1, <2>2 DEF Does
<1>4. /\ Does(a, filed, r) /\ IsRdTxn(filed) /\ Sound(filed) /\ filed.ok = a.ok
      /\ SameExcept({"lines", "lastLine"}, a.v, filed.v)
      /\ SameExcept({"lines", "lastLine"}, a.c, filed.c)
  <2>1. PICK k, form : k \in Nat /\ k = 1 /\ form = q.form
    OBVIOUS
  <2>2. k = Len(form) /\ DOMAIN form = 1..k /\ \A i \in DOMAIN form : form[i].qty \in Nat
    BY <2>1, OneLineFits
  <2>3. r \notin Handoffs \cup Scraps
    BY <1>2, RdAssumption
  <2>4. IsRdTxn(a) /\ Sound(a) /\ filed = WriteLines(a, r, form)
    BY <1>1, <1>3, <2>1
  <2> HIDE <1>1, <1>2, <1>3, <2>1
  <2> QED BY <2>2, <2>3, <2>4, WriteLinesDoes
<1>5. Does(t, filed, r)
  BY <1>3, <1>4, DoesFurther
<1>6. /\ filed.c.histories = t.c.histories /\ filed.c.status = a.c.status
  BY <1>3, <1>4 DEF SameExcept, IsRdTxn, IsRd, RdColumns
<1>7. PICK v, c : v = WithPending(filed.v, r, qty) /\ c = WithPending(filed.c, r, qty)
  OBVIOUS
<1>8. /\ IsRd(v) /\ SameExcept({"buckets"}, filed.v, v)
      /\ IsRd(c) /\ SameExcept({"buckets"}, filed.c, c)
      /\ c.buckets = Reset(filed.c.buckets, r, Pending(filed.c.buckets[r], qty))
  <2>1. IsRd(filed.v) /\ IsRd(filed.c)
    BY <1>4 DEF IsRdTxn
  <2>2. IsRd(v) /\ SameExcept({"buckets"}, filed.v, v)
    BY <1>2, <1>7, <2>1, PendingForm
  <2>3. /\ IsRd(c) /\ SameExcept({"buckets"}, filed.c, c)
        /\ c.buckets = Reset(filed.c.buckets, r, Pending(filed.c.buckets[r], qty))
    BY <1>2, <1>7, <2>1, PendingForm
  <2> QED BY <2>2, <2>3
<1>9. PICK w : w = Having(filed, v, c)
  OBVIOUS
<1>10. w.v = v /\ w.c = c /\ w.ok = filed.ok /\ IsRdTxn(w)
  BY <1>4, <1>8, <1>9, RdForms
<1>11. PICK n, h, x : /\ n = NextHistory(w) /\ x = Numbered(h, n)
                      /\ h = History(r, "created", r, "none", "pending", qty, NoHistory)
  OBVIOUS
<1>12. /\ w.v.histories = filed.v.histories /\ w.c.histories = filed.c.histories
       /\ n = Cardinality(filed.c.histories) + 1 /\ n \in Nat
  <2>1. w.v.histories = filed.v.histories /\ w.c.histories = filed.c.histories
    BY <1>4, <1>8, <1>10 DEF SameExcept, IsRdTxn, IsRd, RdColumns
  <2>2. Cardinality(filed.c.histories) \in Nat
    BY <1>4, FS_CardinalityType DEF IsRdTxn, IsRd, Rows
  <2> QED BY <1>11, <2>1, <2>2 DEF NextHistory
<1>13. /\ x.id = n /\ x.rev = NoHistory /\ x.undone = FALSE /\ x.from = "none" /\ x.to = "pending"
       /\ x.qty = qty /\ x.of = r /\ x.event = "created" /\ DOMAIN x = HistoryFields
  BY <1>11 DEF History, HistoryFields, Numbered
<1>14. IsRow(x)
  <2>1. x.undone \in BOOLEAN
    BY <1>13, Zenon
  <2>2. x.rev \in Nat /\ x.id \in Nat /\ x.qty \in Nat
    BY <1>2, <1>12, <1>13 DEF NoHistory
  <2>3. /\ x.of \in Requests /\ x.to \in Statuses /\ x.from \in Statuses \cup {"none"}
        /\ x.from # x.to /\ (x.event = "created" => x.from = "none")
    BY <1>2, <1>13 DEF Statuses
  <2> QED BY <1>13, <2>1, <2>2, <2>3 DEF IsRow
<1>15. PICK u : u = AddHistory(w, h)
  OBVIOUS
<1>16. /\ IsRdTxn(u) /\ u.ok = w.ok
       /\ u.v.histories = w.v.histories \cup {x} /\ u.c.histories = w.c.histories \cup {x}
       /\ SameExcept({"histories"}, w.v, u.v) /\ SameExcept({"histories"}, w.c, u.c)
  BY <1>10, <1>11, <1>14, <1>15, AddHistoryForm
<1>17. CreateRequest(t, q) = u
  BY <1>1, <1>7, <1>9, <1>11, <1>15 DEF CreateRequest, Both, Having, WithPending
<1>18. /\ u.c.status = filed.c.status /\ u.c.lines = filed.c.lines
       /\ u.c.lastLine = filed.c.lastLine /\ u.c.setup = filed.c.setup
       /\ u.v.lines = filed.v.lines /\ u.v.lastLine = filed.v.lastLine
       /\ u.c.buckets = c.buckets
  BY <1>4, <1>8, <1>10, <1>16 DEF SameExcept, IsRdTxn, IsRd, RdColumns
<1>19. Grows(filed.v.histories, u.v.histories) /\ Grows(filed.c.histories, u.c.histories)
  BY <1>12, <1>16, GrowsItself
<1>20. ASSUME u.ok, Booked(t) PROVE Booked(u)
  <2>1. Booked(filed) /\ Booked(t) /\ filed.ok /\ a.ok
    BY <1>4, <1>5, <1>10, <1>16, <1>20 DEF Does
  <2>2. PICK H, B, S, M, b : /\ H = filed.c.histories /\ B = filed.c.buckets
                             /\ S = filed.c.status /\ M = u.c.histories
                             /\ b = Pending(B[r], qty)
    OBVIOUS
  <2>3. \A g \in H : g.of # r
    <3>1. \A g \in t.c.histories : t.c.status[g.of] # "none"
      BY <2>1 DEF Booked, Ledgered
    <3> QED BY <1>1, <1>6, <2>2, <3>1
  <2>4. Ledgered(H, B, S) /\ S[r] # "none" /\ M = H \cup {x}
    BY <1>3, <1>6, <1>12, <1>16, <2>1, <2>2 DEF Booked
  <2>5. x.id = Cardinality(H) + 1 /\ ~x.undone
    BY <1>12, <1>13, <2>2
  <2>6. b = [B[r] EXCEPT !["pending"] = x.qty]
    BY <1>13, <2>2 DEF Pending
  <2>7. Ledgered(M, Reset(B, r, b), S)
    BY <1>2, <1>13, <1>14, <2>3, <2>4, <2>5, <2>6, LedgerCreates
  <2>8. Grows(u.v.histories, u.c.histories)
    BY <1>12, <1>16, <2>1 DEF Booked, Grows, Fixed
  <2> QED BY <1>8, <1>18, <2>2, <2>7, <2>8 DEF Booked
<1>21. Grows(t.v.histories, u.v.histories) /\ Grows(t.c.histories, u.c.histories)
  BY <1>5, <1>19, GrowsFurther DEF Does
<1>22. Sound(u)
  BY <1>4, <1>18 DEF Sound
<1>23. Does(t, u, r)
  BY <1>5, <1>10, <1>16, <1>18, <1>20, <1>21, <1>22 DEF Does
<1> QED BY <1>1, <1>17, <1>23

-----------------------------------------------------------------------------
(* The beginning.                                                          *)

LEMMA OpeningStore ==
  ASSUME NEW layers \in Seq(Nat)
  PROVE  IsStore(Store(layers))
<1>1. PICK st, logs : /\ st = Store(layers)
                      /\ logs = {[Posting(<<"opening", i>>, NoDoc, 0, layers[i], 1, TRUE, <<>>)
                                    EXCEPT !.id = i] : i \in DOMAIN layers}
  OBVIOUS
<1>2. DOMAIN st = StockFields /\ st.logs = logs /\ st.usage = <<>>
  BY <1>1 DEF Store, StockFields
<1>3. DOMAIN layers = 1..Len(layers) /\ Len(layers) \in Nat
  OBVIOUS
<1>4. IsFiniteSet(1..Len(layers))
  BY <1>3, FS_Interval
<1>5. PICK f : f = [i \in DOMAIN layers |->
                     [Posting(<<"opening", i>>, NoDoc, 0, layers[i], 1, TRUE, <<>>) EXCEPT !.id = i]]
  OBVIOUS
<1>6. logs = {f[i] : i \in 1..Len(layers)} /\ \A i \in 1..Len(layers) : f[i].id = i
  <2>1. logs = {f[i] : i \in DOMAIN layers}
    BY <1>1, <1>5
  <2>2. ASSUME NEW i \in DOMAIN layers PROVE f[i].id = i
    <3>1. PICK x : x = Posting(<<"opening", i>>, NoDoc, 0, layers[i], 1, TRUE, <<>>)
      OBVIOUS
    <3>2. "id" \in DOMAIN x
      BY <3>1, PostingHasId
    <3>3. PICK y : y = [x EXCEPT !.id = i]
      OBVIOUS
    <3>4. y.id = i
      BY <3>2, <3>3
    <3>5. f[i] = [Posting(<<"opening", i>>, NoDoc, 0, layers[i], 1, TRUE, <<>>) EXCEPT !.id = i]
      BY <1>5, Zenon
    <3>6. f[i] = y
      BY <3>1, <3>3, <3>5, Zenon
    <3> QED BY <3>4, <3>6
  <2> QED BY <1>3, <2>1, <2>2
<1>7. IsFiniteSet(logs) /\ \A l \in logs : l.id \in Nat
  <2>1. PICK S : S = DOMAIN layers
    OBVIOUS
  <2>2. IsFiniteSet(S) /\ DOMAIN f = S
    BY <1>3, <1>4, <1>5, <2>1
  <2>3. IsFiniteSet({f[i] : i \in S})
    BY <2>2, FiniteImage
  <2> QED BY <1>3, <1>6, <2>1, <2>3
<1>8. IsFiniteSet(DOMAIN st.usage) /\ DOMAIN st.usage = {}
  BY <1>2, FS_EmptySet
<1> QED BY <1>1, <1>2, <1>7, <1>8 DEF IsStore

LEMMA OpeningLedger ==
  ASSUME NEW S PROVE Ledgered({}, [r \in Requests |-> NoBuckets], S)
<1>1. PICK H, B : H = {} /\ B = [r \in Requests |-> NoBuckets]
  OBVIOUS
<1>2. Counted(H) /\ OneRollback(H)
  BY <1>1, FS_EmptySet DEF Counted, OneRollback, Rows
<1>3. NoBuckets \in [Statuses -> Nat] /\ \A s \in Statuses : NoBuckets[s] = 0
  BY DEF NoBuckets
<1>4. TotalOf({}) = 0
  BY TotalWith, FS_EmptySet
<1>5. /\ Made({}) = 0 /\ \A s \in Statuses : Into({}, s) = 0 /\ OutOf({}, s) = 0
  <2>1. PICK L : L = {}
    OBVIOUS
  <2>2. /\ {h \in L : h.event = "created"} = {}
        /\ \A s \in Statuses : {h \in L : h.to = s} = {} /\ {h \in L : h.from = s} = {}
    BY <2>1
  <2> QED BY <1>4, <2>1, <2>2 DEF Into, OutOf, Made
<1>6. SumOfBuckets(NoBuckets) = 0
  <2>1. PICK b : b = NoBuckets
    OBVIOUS
  <2>2. \A T \in SUBSET Statuses : SumFunctionOnSet(b, T) = 0
    <3> DEFINE Bad == {T \in SUBSET Statuses : SumFunctionOnSet(b, T) # 0}
    <3> SUFFICES ASSUME Bad # {} PROVE FALSE
      OBVIOUS
    <3>1. PICK T \in Bad : \A W \in SUBSET T : W # T => W \notin Bad
      <4>1. Bad \subseteq SUBSET Statuses
        OBVIOUS
      <4> HIDE DEF Bad
      <4> QED BY <4>1, FiniteStatuses, SmallestSubset
    <3>2. T \in SUBSET Statuses /\ IsFiniteSet(T) /\ SumFunctionOnSet(b, T) # 0
      BY <3>1, FiniteStatuses, FS_Subset
    <3>3. T # {}
      BY <3>2, SumStep
    <3>4. Pick(T) \in T
      BY <3>3 DEF Pick
    <3>5. SumFunctionOnSet(b, T) = b[Pick(T)] + SumFunctionOnSet(b, T \ {Pick(T)})
      BY <3>2, <3>3, SumStep
    <3>6. SumFunctionOnSet(b, T \ {Pick(T)}) = 0
      BY <3>1, <3>2, <3>4
    <3>7. b[Pick(T)] = 0
      BY <1>3, <2>1, <3>2, <3>4
    <3> QED BY <3>2, <3>5, <3>6, <3>7
  <2> QED BY <2>1, <2>2, BucketsSum
<1>7. Explained(NoBuckets, {})
  BY <1>3, <1>5, <1>6 DEF Explained
<1>8. \A r \in Requests : Explained(B[r], Live(H, r))
  <2> TAKE r \in Requests
  <2>1. B[r] = NoBuckets /\ Live(H, r) = {}
    BY <1>1 DEF Live
  <2> QED BY <1>7, <2>1
<1>9. B \in [Requests -> [Statuses -> Nat]] /\ \A h \in H : S[h.of] # "none"
  BY <1>1, <1>3
<1> QED BY <1>1, <1>2, <1>8, <1>9 DEF Ledgered

LEMMA InitKnown == Init => RdKnown
<1> SUFFICES ASSUME Init PROVE RdKnown
  OBVIOUS
<1>1. PICK setup \in Setups :
          db = [main |-> Store(setup.layers), rd |-> Store(<<>>),
                buckets |-> [r \in Requests |-> NoBuckets], histories |-> {},
                status |-> [d \in Docs |-> IF d = Project THEN "effective" ELSE "none"],
                token |-> [d \in Docs |-> NoDoc],
                lines |-> {}, lastLine |-> 0, setup |-> setup]
  BY DEF Init
<1>2. /\ DOMAIN db = RdColumns /\ db.main = Store(setup.layers) /\ db.rd = Store(<<>>)
      /\ db.buckets = [r \in Requests |-> NoBuckets] /\ db.histories = {}
      /\ db.status = [d \in Docs |-> IF d = Project THEN "effective" ELSE "none"]
      /\ db.lines = {} /\ db.lastLine = 0 /\ db.setup = setup
  BY <1>1 DEF RdColumns
<1>3. IsStore(db.main) /\ IsStore(db.rd)
  <2>1. setup.layers \in Seq(Nat)
    BY <1>1, RdAssumption
  <2>2. PICK layers : layers = setup.layers
    OBVIOUS
  <2>3. IsStore(Store(layers))
    BY <2>1, <2>2, OpeningStore
  <2>4. PICK none : none = <<>>
    OBVIOUS
  <2>5. none \in Seq(Nat)
    BY <2>4
  <2>6. IsStore(Store(none))
    BY <2>5, OpeningStore
  <2> QED BY <1>2, <2>2, <2>3, <2>4, <2>6
<1>4. Ledgered(db.histories, db.buckets, db.status)
  BY <1>2, OpeningLedger
<1>5. Rows(db.histories) /\ db.buckets \in [Requests -> [Statuses -> Nat]]
  BY <1>4 DEF Ledgered, Counted
<1>6. LinesFit(db.lines, db.lastLine) /\ Lined(db.lines, db.status)
  BY <1>2, FS_EmptySet DEF LinesFit, Lined
<1>7. IsRd(db)
  <2>1. DOMAIN db.status = Docs
    BY <1>2
  <2> QED BY <1>2, <1>3, <1>5, <1>6, <2>1 DEF IsRd
<1>8. db.status[Project] # "none"
  BY <1>2 DEF Docs
<1>9. Current(db)
  BY <1>2, <1>4, <1>6, <1>7, <1>8 DEF Current
<1>10. req = [p \in Procs |-> Idle] /\ view = [p \in Procs |-> Idle]
  BY DEF Init
<1> QED BY <1>9, <1>10 DEF RdKnown


-----------------------------------------------------------------------------
(* What stays known while others commit.                                   *)

\* What a commit on document d has done to the database.
Later(st, u, d) ==
    /\ Grows(st.histories, u.histories) /\ st.lastLine <= u.lastLine
    /\ \A x \in Docs : x # d => u.status[x] = st.status[x]
    /\ \A x \in Docs : st.status[x] # "none" => u.status[x] # "none"
    /\ u.setup = st.setup

LEMMA FitsLater ==
  ASSUME NEW q, NEW st, NEW u, NEW d, Fits(q, st), Later(st, u, d), q.op = "need" => q.doc # d
  PROVE  Fits(q, u)
<1>1. Requests \subseteq Docs
  BY DEF Docs
<1>2. ASSUME q.op \in {"handoff", "scrap", "rescrap"} PROVE Bounded(q.form, u.status)
  <2>1. PICK form : form = q.form
    OBVIOUS
  <2>2. /\ form \in Seq([of : Requests, qty : Nat])
        /\ \A i \in DOMAIN form : st.status[form[i].of] # "none"
    BY <1>2, <2>1 DEF Fits, Bounded
  <2>3. \A i \in DOMAIN form : form[i].of \in Docs
    <3> TAKE i \in DOMAIN form
    <3>1. form[i] \in [of : Requests, qty : Nat]
      BY <2>2, SeqElement
    <3> QED BY <1>1, <3>1
  <2> QED BY <2>1, <2>2, <2>3 DEF Bounded, Later
<1>3. ASSUME q.op \in {"act", "unneed"} PROVE Started(q.doc, u.status)
  BY <1>1, <1>3 DEF Fits, Started, Later
<1>4. ASSUME q.op = "need" PROVE q.doc \in Requests /\ u.status[q.doc] = "none"
  BY <1>1, <1>4 DEF Fits, Later
<1>5. ASSUME q.op = "react" PROVE \E h \in u.histories : h.id = q.history
  <2>1. PICK h \in st.histories : h.id = q.history
    BY <1>5 DEF Fits
  <2>2. PICK g \in u.histories : Fixed(h, g)
    BY DEF Later, Grows
  <2> QED BY <2>1, <2>2, FixedMeans
<1> QED BY <1>2, <1>3, <1>4, <1>5 DEF Fits

LEMMA PastLater ==
  ASSUME NEW w, NEW st, NEW u, NEW d, Past(w, st), Later(st, u, d), IsRd(st), IsRd(u)
  PROVE  Past(w, u)
<1>1. Grows(w.histories, u.histories)
  BY GrowsFurther DEF Past, Later
<1>2. w.lastLine <= u.lastLine
  <2>1. w.lastLine \in Nat /\ st.lastLine \in Nat /\ u.lastLine \in Nat
    BY DEF Past, IsRd, LinesFit
  <2> QED BY <2>1 DEF Past, Later
<1>3. Lined(w.lines, u.status)
  BY DEF Past, Lined, Later, Docs
<1> QED BY <1>1, <1>2, <1>3 DEF Past

\* What the body of a commit can rely on.
LEMMA CommitReady ==
  ASSUME RdKnown, NEW p \in Procs, view[p] # Idle, NEW t,
         t = [v |-> view[p], c |-> db, ok |-> TRUE, dup |-> FALSE]
  PROVE  /\ IsRdTxn(t) /\ Sound(t) /\ Booked(t) /\ Fits(req[p], t.c) /\ t.c = db /\ req[p] # Idle
         /\ req[p].op = "react" => \E h \in t.v.histories : h.id = req[p].history
<1>1. t.c = db /\ t.v = view[p] /\ DOMAIN t = {"v", "c", "ok", "dup"}
  OBVIOUS
<1>2. /\ Current(db) /\ Past(view[p], db) /\ req[p] # Idle /\ Fits(req[p], db)
      /\ req[p].op = "react" => \E h \in view[p].histories : h.id = req[p].history
  BY DEF RdKnown
<1>3. IsRdTxn(t)
  BY <1>1, <1>2 DEF IsRdTxn, Current, Past
<1>4. Sound(t)
  BY <1>1, <1>2 DEF Sound, Current, Past
<1>5. Booked(t)
  BY <1>1, <1>2 DEF Booked, Current, Past
<1> QED BY <1>1, <1>2, <1>3, <1>4, <1>5

LEMMA LeavesKnown ==
  ASSUME RdKnown, NEW p \in Procs, Leave(p), NEW d, Later(db, db', d), Current(db'),
         (req[p] # Idle /\ req[p].doc = d) \/ db' = db
  PROVE  RdKnown'
<1>1. /\ DOMAIN req' = Procs /\ DOMAIN view' = Procs
      /\ req'[p] = Idle /\ view'[p] = Idle
      /\ \A o \in Procs : o # p => req'[o] = req[o] /\ view'[o] = view[o]
  BY DEF RdKnown, Leave
<1>2. ASSUME NEW o \in Procs, req'[o] # Idle PROVE Fits(req'[o], db')
  <2>1. o # p /\ req'[o] = req[o] /\ Fits(req[o], db)
    BY <1>1, <1>2 DEF RdKnown
  <2>2. CASE db' = db
    BY <2>1, <2>2
  <2>3. CASE req[p] # Idle /\ req[p].doc = d
    <3>1. req[o].op = "need" => req[o].doc # d
      BY <1>2, <2>1, <2>3 DEF RdKnown
    <3> QED BY <2>1, <3>1, FitsLater
  <2> QED BY <2>2, <2>3
<1>3. ASSUME NEW o \in Procs, view'[o] # Idle
      PROVE  /\ req'[o] # Idle /\ Past(view'[o], db')
             /\ req'[o].op = "react" => \E h \in view'[o].histories : h.id = req'[o].history
  <2>1. o # p /\ req'[o] = req[o] /\ view'[o] = view[o]
    BY <1>1, <1>3
  <2>2. /\ req[o] # Idle /\ Past(view[o], db)
        /\ req[o].op = "react" => \E h \in view[o].histories : h.id = req[o].history
    BY <1>3, <2>1 DEF RdKnown
  <2>3. IsRd(db) /\ IsRd(db')
    BY DEF RdKnown, Current
  <2>4. Past(view[o], db')
    BY <2>2, <2>3, PastLater
  <2> QED BY <2>1, <2>2, <2>4
<1>4. \A o, r \in Procs : o # r /\ req'[o] # Idle /\ req'[r] # Idle /\ req'[o].op = "need"
         => req'[r].doc # req'[o].doc
  BY <1>1 DEF RdKnown
<1> QED BY <1>1, <1>2, <1>3, <1>4 DEF RdKnown

LEMMA CommitKnown ==
  ASSUME RdKnown, NEW p \in Procs, view[p] # Idle, NEW t,
         t = [v |-> view[p], c |-> db, ok |-> TRUE, dup |-> FALSE],
         NEW u, Does(t, u, req[p].doc), u.ok, db' = u.c, Leave(p)
  PROVE  RdKnown'
<1>1. /\ IsRdTxn(t) /\ Sound(t) /\ Booked(t) /\ t.c = db /\ req[p] # Idle
  BY CommitReady
<1>2. /\ IsRdTxn(u) /\ Sound(u) /\ Booked(u) /\ Later(db, db', req[p].doc)
  BY <1>1 DEF Does, Later
<1>3. db.status[Project] # "none" /\ db.setup \in Setups /\ Project \in Docs
  BY DEF RdKnown, Current, Docs
<1>4. Current(db')
  <2>1. IsRd(u.c) /\ Ledgered(u.c.histories, u.c.buckets, u.c.status) /\ Lined(u.c.lines, u.c.status)
    BY <1>2 DEF IsRdTxn, Booked, Sound
  <2>2. u.c.status[Project] # "none" /\ u.c.setup \in Setups
    BY <1>2, <1>3 DEF Later
  <2> QED BY <2>1, <2>2 DEF Current
<1> QED BY <1>1, <1>2, <1>4, LeavesKnown


-----------------------------------------------------------------------------
(* What is asked for.                                                      *)

\* A document that nobody works on, or one that is there already.
Free(q) ==
    \/ /\ db.status[q.doc] = "none"
       /\ \A o \in Procs : req[o] # Idle => req[o].doc # q.doc
    \/ db.status[q.doc] # "none" /\ q.op # "need"

LEMMA FreshIsFree ==
  ASSUME NEW D, NEW d \in Fresh(D)
  PROVE  /\ d \in D /\ db.status[d] = "none"
         /\ \A o \in Procs : req[o] # Idle => req[o].doc # d
BY DEF Fresh, InFlight

LEMMA EffectiveIsThere ==
  ASSUME NEW D, NEW d \in Effective(D)
  PROVE  d \in D /\ db.status[d] # "none"
BY DEF Effective

LEMMA SubmitKnown ==
  ASSUME RdKnown, NEW p \in Procs, NEW q, Submit(p, q), Fits(q, db), Free(q)
  PROVE  RdKnown'
<1>1. /\ req[p] = Idle /\ req' = [req EXCEPT ![p] = q] /\ db' = db /\ view' = view
  BY DEF Submit, Open
<1>2. /\ DOMAIN req' = Procs /\ req'[p] = q /\ view[p] = Idle
      /\ \A o \in Procs : o # p => req'[o] = req[o]
  BY <1>1 DEF RdKnown
<1>3. ASSUME NEW o \in Procs, req'[o] # Idle PROVE Fits(req'[o], db)
  BY <1>2, <1>3 DEF RdKnown
<1>4. ASSUME NEW o \in Procs, view[o] # Idle
      PROVE  /\ req'[o] # Idle /\ Past(view[o], db)
             /\ req'[o].op = "react" => \E h \in view[o].histories : h.id = req'[o].history
  <2>1. o # p /\ req'[o] = req[o]
    BY <1>2, <1>4
  <2> QED BY <1>4, <2>1 DEF RdKnown
<1>5. ASSUME NEW o \in Procs, NEW r \in Procs, o # r, req'[o] # Idle, req'[r] # Idle,
             req'[o].op = "need"
      PROVE  req'[r].doc # req'[o].doc
  <2>1. CASE o = p
    <3>1. req'[r] = req[r] /\ req[r] # Idle /\ req'[o] = q /\ q.op = "need"
      BY <1>2, <1>5, <2>1
    <3> QED BY <3>1 DEF Free
  <2>2. CASE r = p
    <3>1. req'[o] = req[o] /\ req[o] # Idle /\ req'[r] = q /\ req[o].op = "need"
      BY <1>2, <1>5, <2>2
    <3>2. Fits(req[o], db)
      BY <3>1 DEF RdKnown
    <3>3. db.status[req[o].doc] = "none"
      BY <3>1, <3>2 DEF Fits
    <3> QED BY <3>1, <3>3 DEF Free
  <2>3. CASE o # p /\ r # p
    BY <1>2, <1>5, <2>3 DEF RdKnown
  <2> QED BY <2>1, <2>2, <2>3
<1>6. Current(db) /\ DOMAIN view = Procs
  BY DEF RdKnown
<1> QED BY <1>1, <1>2, <1>3, <1>4, <1>5, <1>6 DEF RdKnown

LEMMA SetupFits ==
  ASSUME RdKnown
  PROVE  /\ db.setup.needs \cup db.setup.uses \cup db.setup.backs \subseteq Nat
         /\ db.setup.moves \cup db.setup.takes \subseteq Seq([of : Requests, qty : Nat])
         /\ db.setup.acts \subseteq {"start", "accept", "cancel", "return"} \X Nat
BY RdAssumption DEF RdKnown, Current

LEMMA SubmitRequestKnown == ASSUME RdKnown, NEW p \in Procs, SubmitRequest(p) PROVE RdKnown'
<1>1. PICK d \in Fresh(Requests), token \in NewTokens, qty \in db.setup.needs :
         Submit(p, [op |-> "need", doc |-> d, token |-> token, form |-> <<[of |-> d, qty |-> qty]>>])
  BY DEF SubmitRequest
<1>2. PICK q, form : /\ form = <<[of |-> d, qty |-> qty]>>
                     /\ q = [op |-> "need", doc |-> d, token |-> token, form |-> form]
  OBVIOUS
<1>3. q.op = "need" /\ q.doc = d /\ q.form = form
  BY <1>2
<1>4. qty \in Nat
  BY <1>1, SetupFits
<1>5. OneLine(form)
  BY <1>2, <1>4 DEF OneLine
<1>6. d \in Requests /\ db.status[d] = "none" /\ \A o \in Procs : req[o] # Idle => req[o].doc # d
  BY <1>1, FreshIsFree
<1>7. Fits(q, db) /\ Free(q)
  BY <1>3, <1>5, <1>6 DEF Fits, Free
<1> QED BY <1>1, <1>2, <1>7, SubmitKnown

LEMMA FormBounded ==
  ASSUME RdKnown, NEW form \in db.setup.moves \cup db.setup.takes,
         \A i \in DOMAIN form : form[i].of \in Effective(Requests)
  PROVE  Bounded(form, db.status)
<1>1. form \in Seq([of : Requests, qty : Nat])
  BY SetupFits
<1>2. \A i \in DOMAIN form : db.status[form[i].of] # "none"
  BY EffectiveIsThere
<1> QED BY <1>1, <1>2 DEF Bounded

LEMMA SubmitHandoffKnown == ASSUME RdKnown, NEW p \in Procs, SubmitHandoff(p) PROVE RdKnown'
<1>1. PICK d \in Fresh(Handoffs), token \in NewTokens, form \in db.setup.moves :
         /\ \A i \in DOMAIN form : form[i].of \in Effective(Requests)
         /\ Submit(p, [op |-> "handoff", doc |-> d, token |-> token, form |-> form])
  BY DEF SubmitHandoff
<1>2. PICK q : q = [op |-> "handoff", doc |-> d, token |-> token, form |-> form]
  OBVIOUS
<1>3. q.op = "handoff" /\ q.doc = d /\ q.form = form
  BY <1>2
<1>4. Bounded(form, db.status)
  BY <1>1, FormBounded
<1>5. d \in Handoffs /\ db.status[d] = "none" /\ \A o \in Procs : req[o] # Idle => req[o].doc # d
  BY <1>1, FreshIsFree
<1>6. Fits(q, db) /\ Free(q)
  BY <1>3, <1>4, <1>5 DEF Fits, Free
<1> QED BY <1>1, <1>2, <1>6, SubmitKnown

LEMMA SubmitScrapKnown ==
  ASSUME RdKnown, NEW p \in Procs, NEW op \in {"scrap", "rescrap"}, NEW D,
         D \in {Fresh(Scraps), Effective(Scraps)}, SubmitScrap(p, op, D)
  PROVE  RdKnown'
<1>1. PICK d \in D, form \in db.setup.takes :
         /\ \A i \in DOMAIN form : form[i].of \in Effective(Requests)
         /\ Submit(p, [op |-> op, doc |-> d, form |-> form])
  BY DEF SubmitScrap
<1>2. PICK q : q = [op |-> op, doc |-> d, form |-> form]
  OBVIOUS
<1>3. q.op \in {"scrap", "rescrap"} /\ q.doc = d /\ q.form = form
  BY <1>2
<1>4. Bounded(form, db.status)
  BY <1>1, FormBounded
<1>5. d \in Scraps /\ Free(q)
  <2>1. CASE D = Fresh(Scraps)
    BY <1>1, <1>3, <2>1, FreshIsFree DEF Free
  <2>2. CASE D = Effective(Scraps)
    BY <1>1, <1>3, <2>2, EffectiveIsThere DEF Free
  <2> QED BY <2>1, <2>2
<1>6. Fits(q, db)
  BY <1>3, <1>4, <1>5 DEF Fits
<1> QED BY <1>1, <1>2, <1>5, <1>6, SubmitKnown

LEMMA SubmitStocktakeKnown == ASSUME RdKnown, NEW p \in Procs, SubmitStocktake(p) PROVE RdKnown'
<1>1. PICK d \in Fresh(Stocktakes), counted \in db.setup.counts :
         Submit(p, [op |-> "count", doc |-> d, counted |-> counted])
  BY DEF SubmitStocktake
<1>2. PICK q : q = [op |-> "count", doc |-> d, counted |-> counted]
  OBVIOUS
<1>3. Fits(q, db) /\ Free(q)
  BY <1>1, <1>2, FreshIsFree DEF Fits, Free
<1> QED BY <1>1, <1>2, <1>3, SubmitKnown

LEMMA SubmitActionKnown == ASSUME RdKnown, NEW p \in Procs, SubmitAction(p) PROVE RdKnown'
<1>1. PICK d \in Effective(Requests), a \in db.setup.acts :
         Submit(p, [op |-> "act", doc |-> d, act |-> a[1], qty |-> a[2]])
  BY DEF SubmitAction
<1>2. PICK q : q = [op |-> "act", doc |-> d, act |-> a[1], qty |-> a[2]]
  OBVIOUS
<1>3. a[1] \in {"start", "accept", "cancel", "return"} /\ a[2] \in Nat
  BY <1>1, SetupFits
<1>4. d \in Requests /\ db.status[d] # "none"
  BY <1>1, EffectiveIsThere
<1>5. q.op = "act" /\ q.doc = d /\ q.act = a[1] /\ q.qty = a[2]
  BY <1>2
<1>6. Fits(q, db) /\ Free(q)
  BY <1>3, <1>4, <1>5 DEF Fits, Free, Started
<1> QED BY <1>1, <1>2, <1>6, SubmitKnown

LEMMA SubmitReverseKnown == ASSUME RdKnown, NEW p \in Procs, SubmitReverse(p) PROVE RdKnown'
<1>1. PICK d \in Effective(Requests) : \E h \in {g \in db.histories : g.of = d} :
         Submit(p, [op |-> "react", doc |-> d, history |-> h.id])
  BY DEF SubmitReverse
<1>2. PICK h \in db.histories : Submit(p, [op |-> "react", doc |-> d, history |-> h.id])
  BY <1>1
<1>3. PICK q : q = [op |-> "react", doc |-> d, history |-> h.id]
  OBVIOUS
<1>4. db.status[d] # "none"
  BY <1>1, EffectiveIsThere
<1>5. q.op = "react" /\ q.doc = d /\ q.history = h.id
  BY <1>3
<1>6. Fits(q, db) /\ Free(q)
  BY <1>2, <1>4, <1>5 DEF Fits, Free
<1> QED BY <1>2, <1>3, <1>6, SubmitKnown

LEMMA SubmitUseKnown == ASSUME RdKnown, NEW p \in Procs, SubmitUse(p) PROVE RdKnown'
<1>1. PICK d \in Fresh(Uses), token \in NewTokens, qty \in db.setup.uses :
         Submit(p, [op |-> "use", doc |-> d, token |-> token,
                    form |-> <<[of |-> NoDoc, qty |-> qty]>>])
  BY DEF SubmitUse
<1>2. PICK q, form : /\ form = <<[of |-> NoDoc, qty |-> qty]>>
                     /\ q = [op |-> "use", doc |-> d, token |-> token, form |-> form]
  OBVIOUS
<1>3. q.op = "use" /\ q.doc = d /\ q.form = form
  BY <1>2
<1>4. qty \in Nat
  BY <1>1, SetupFits
<1>5. OneLine(form)
  BY <1>2, <1>4 DEF OneLine
<1>6. d \in Uses /\ db.status[d] = "none" /\ \A o \in Procs : req[o] # Idle => req[o].doc # d
  BY <1>1, FreshIsFree
<1>7. Fits(q, db) /\ Free(q)
  BY <1>3, <1>5, <1>6 DEF Fits, Free
<1> QED BY <1>1, <1>2, <1>7, SubmitKnown

LEMMA SubmitGivebackKnown == ASSUME RdKnown, NEW p \in Procs, SubmitGiveback(p) PROVE RdKnown'
<1>1. PICK d \in Fresh(Givebacks), token \in NewTokens, qty \in db.setup.backs,
           l \in {m \in db.lines : m.doc \in Uses} :
         Submit(p, [op |-> "giveback", doc |-> d, token |-> token,
                    form |-> <<[of |-> l.id, qty |-> qty]>>])
  BY DEF SubmitGiveback
<1>2. PICK q, form : /\ form = <<[of |-> l.id, qty |-> qty]>>
                     /\ q = [op |-> "giveback", doc |-> d, token |-> token, form |-> form]
  OBVIOUS
<1>3. q.op = "giveback" /\ q.doc = d /\ q.form = form
  BY <1>2
<1>4. qty \in Nat
  BY <1>1, SetupFits
<1>5. OneLine(form)
  BY <1>2, <1>4 DEF OneLine
<1>6. d \in Givebacks /\ db.status[d] = "none" /\ \A o \in Procs : req[o] # Idle => req[o].doc # d
  BY <1>1, FreshIsFree
<1>7. Fits(q, db) /\ Free(q)
  BY <1>3, <1>5, <1>6 DEF Fits, Free
<1> QED BY <1>1, <1>2, <1>7, SubmitKnown

LEMMA SubmitCloseKnown == ASSUME RdKnown, NEW p \in Procs, SubmitClose(p) PROVE RdKnown'
<1>1. PICK q : q = [op |-> "close", doc |-> Project]
  OBVIOUS
<1>2. Submit(p, q)
  BY <1>1 DEF SubmitClose
<1>3. Fits(q, db) /\ Free(q)
  BY <1>1 DEF Fits, Free, RdKnown, Current
<1> QED BY <1>2, <1>3, SubmitKnown

LEMMA SubmitVoidKnown ==
  ASSUME RdKnown, NEW p \in Procs, NEW op, NEW D, SubmitVoid(p, op, D),
         \/ op = "unneed" /\ D = Requests
         \/ op \in {"unhandoff", "unscrap"} /\ D \subseteq Handoffs \cup Scraps
         \/ op \in {"uncount", "unuse", "ungiveback"}
  PROVE  RdKnown'
<1>1. PICK d \in Effective(D) : Submit(p, [op |-> op, doc |-> d])
  BY DEF SubmitVoid
<1>2. PICK q : q = [op |-> op, doc |-> d]
  OBVIOUS
<1>3. d \in D /\ db.status[d] # "none" /\ q.op = op /\ q.doc = d
  BY <1>1, <1>2, EffectiveIsThere
<1>4. Fits(q, db) /\ Free(q)
  BY <1>3 DEF Fits, Free, Started
<1> QED BY <1>1, <1>2, <1>4, SubmitKnown


-----------------------------------------------------------------------------
(* The steps, and the theorem.                                             *)

LEMMA CommitsKnown ==
  ASSUME RdKnown, NEW p \in Procs,
         \/ Commit(p, "need", CreateRequest)
         \/ Commit(p, "handoff", CreateHandoff)
         \/ Commit(p, "scrap", CreateScrap)
         \/ Commit(p, "rescrap", UpdateScrap)
         \/ Commit(p, "count", CreateStocktake)
         \/ Commit(p, "act", StatusAction)
         \/ Commit(p, "react", ReverseAction)
         \/ Commit(p, "unneed", VoidRequest)
         \/ Commit(p, "unhandoff", VoidHandoff)
         \/ Commit(p, "unscrap", VoidScrap)
         \/ Commit(p, "uncount", VoidStocktake)
         \/ Commit(p, "use", CreateUse)
         \/ Commit(p, "giveback", CreateGiveback)
         \/ Commit(p, "unuse", VoidUse)
         \/ Commit(p, "ungiveback", VoidGiveback)
         \/ Commit(p, "close", VoidProject)
  PROVE  RdKnown'
<1>1. view[p] # Idle /\ Leave(p)
  BY DEF Commit
<1>2. PICK t, q : /\ t = [v |-> view[p], c |-> db, ok |-> TRUE, dup |-> FALSE] /\ q = req[p]
  OBVIOUS
<1>3. /\ IsRdTxn(t) /\ Sound(t) /\ Booked(t) /\ Fits(q, t.c)
      /\ q.op = "react" => \E h \in t.v.histories : h.id = q.history
  BY <1>1, <1>2, CommitReady
<1>4. ASSUME NEW u, Does(t, u, q.doc), u.ok, db' = u.c PROVE RdKnown'
  BY <1>1, <1>2, <1>4, CommitKnown
<1>5. CASE Commit(p, "need", CreateRequest)
  <2>1. q.op = "need" /\ CreateRequest(t, q).ok /\ db' = CreateRequest(t, q).c
    BY <1>2, <1>5 DEF Commit
  <2>2. q.doc \in Requests /\ t.c.status[q.doc] = "none" /\ OneLine(q.form)
    BY <1>3, <2>1 DEF Fits
  <2>3. Does(t, CreateRequest(t, q), q.doc)
    BY <1>3, <2>2, CreateRequestDoes
  <2> QED BY <1>4, <2>1, <2>3
<1>6. CASE Commit(p, "handoff", CreateHandoff)
  <2>1. q.op = "handoff" /\ CreateHandoff(t, q).ok /\ db' = CreateHandoff(t, q).c
    BY <1>2, <1>6 DEF Commit
  <2>2. q.doc \in Handoffs \cup Scraps /\ Bounded(q.form, t.c.status)
    BY <1>3, <2>1 DEF Fits
  <2>3. Does(t, CreateHandoff(t, q), q.doc)
    BY <1>3, <2>2, CreateHandoffDoes
  <2> QED BY <1>4, <2>1, <2>3
<1>7. CASE Commit(p, "scrap", CreateScrap)
  <2>1. q.op = "scrap" /\ CreateScrap(t, q).ok /\ db' = CreateScrap(t, q).c
    BY <1>2, <1>7 DEF Commit
  <2>2. q.doc \in Handoffs \cup Scraps /\ Bounded(q.form, t.c.status)
    BY <1>3, <2>1 DEF Fits
  <2>3. Does(t, CreateScrap(t, q), q.doc)
    BY <1>3, <2>2, CreateScrapDoes
  <2> QED BY <1>4, <2>1, <2>3
<1>8. CASE Commit(p, "rescrap", UpdateScrap)
  <2>1. q.op = "rescrap" /\ UpdateScrap(t, q).ok /\ db' = UpdateScrap(t, q).c
    BY <1>2, <1>8 DEF Commit
  <2>2. q.doc \in Handoffs \cup Scraps /\ Bounded(q.form, t.c.status)
    BY <1>3, <2>1 DEF Fits
  <2>3. Does(t, UpdateScrap(t, q), q.doc)
    BY <1>3, <2>2, UpdateScrapDoes
  <2> QED BY <1>4, <2>1, <2>3
<1>9. CASE Commit(p, "count", CreateStocktake)
  <2>1. q.op = "count" /\ CreateStocktake(t, q).ok /\ db' = CreateStocktake(t, q).c
    BY <1>2, <1>9 DEF Commit
  <2>2. Does(t, CreateStocktake(t, q), q.doc)
    BY <1>3, CreateStocktakeDoes
  <2> QED BY <1>4, <2>1, <2>2
<1>10. CASE Commit(p, "act", StatusAction)
  <2>1. q.op = "act" /\ StatusAction(t, q).ok /\ db' = StatusAction(t, q).c
    BY <1>2, <1>10 DEF Commit
  <2>2. Started(q.doc, t.c.status) /\ q.act \in {"start", "accept", "cancel", "return"} /\ q.qty \in Nat
    BY <1>3, <2>1 DEF Fits
  <2>3. Does(t, StatusAction(t, q), q.doc)
    BY <1>3, <2>2, StatusActionRuns, RunsDoes
  <2> QED BY <1>4, <2>1, <2>3
<1>11. CASE Commit(p, "react", ReverseAction)
  <2>1. q.op = "react" /\ ReverseAction(t, q).ok /\ db' = ReverseAction(t, q).c
    BY <1>2, <1>11 DEF Commit
  <2>2. Does(t, ReverseAction(t, q), q.doc)
    BY <1>3, <2>1, ReverseActionRuns, RunsDoes
  <2> QED BY <1>4, <2>1, <2>2
<1>12. CASE Commit(p, "unneed", VoidRequest)
  <2>1. q.op = "unneed" /\ VoidRequest(t, q).ok /\ db' = VoidRequest(t, q).c
    BY <1>2, <1>12 DEF Commit
  <2>2. Started(q.doc, t.c.status)
    BY <1>3, <2>1 DEF Fits
  <2>3. Does(t, VoidRequest(t, q), q.doc)
    BY <1>3, <2>2, VoidRequestDoes
  <2> QED BY <1>4, <2>1, <2>3
<1>13. CASE Commit(p, "unhandoff", VoidHandoff)
  <2>1. q.op = "unhandoff" /\ VoidHandoff(t, q).ok /\ db' = VoidHandoff(t, q).c
    BY <1>2, <1>13 DEF Commit
  <2>2. Does(t, VoidHandoff(t, q), q.doc)
    BY <1>3, VoidHandoffDoes
  <2> QED BY <1>4, <2>1, <2>2
<1>14. CASE Commit(p, "unscrap", VoidScrap)
  <2>1. q.op = "unscrap" /\ VoidScrap(t, q).ok /\ db' = VoidScrap(t, q).c
    BY <1>2, <1>14 DEF Commit
  <2>2. Does(t, VoidScrap(t, q), q.doc)
    BY <1>3, VoidScrapDoes
  <2> QED BY <1>4, <2>1, <2>2
<1>15. CASE Commit(p, "uncount", VoidStocktake)
  <2>1. q.op = "uncount" /\ VoidStocktake(t, q).ok /\ db' = VoidStocktake(t, q).c
    BY <1>2, <1>15 DEF Commit
  <2>2. Does(t, VoidStocktake(t, q), q.doc)
    BY <1>3, VoidStocktakeDoes
  <2> QED BY <1>4, <2>1, <2>2
<1>16. CASE Commit(p, "use", CreateUse)
  <2>1. q.op = "use" /\ CreateUse(t, q).ok /\ db' = CreateUse(t, q).c
    BY <1>2, <1>16 DEF Commit
  <2>2. q.doc \in Uses \cup Givebacks /\ OneLine(q.form)
    BY <1>3, <2>1 DEF Fits
  <2>3. Does(t, CreateUse(t, q), q.doc)
    BY <1>3, <2>2, CreateUseDoes
  <2> QED BY <1>4, <2>1, <2>3
<1>17. CASE Commit(p, "giveback", CreateGiveback)
  <2>1. q.op = "giveback" /\ CreateGiveback(t, q).ok /\ db' = CreateGiveback(t, q).c
    BY <1>2, <1>17 DEF Commit
  <2>2. q.doc \in Uses \cup Givebacks /\ OneLine(q.form)
    BY <1>3, <2>1 DEF Fits
  <2>3. Does(t, CreateGiveback(t, q), q.doc)
    BY <1>3, <2>2, CreateGivebackDoes
  <2> QED BY <1>4, <2>1, <2>3
<1>18. CASE Commit(p, "unuse", VoidUse)
  <2>1. q.op = "unuse" /\ VoidUse(t, q).ok /\ db' = VoidUse(t, q).c
    BY <1>2, <1>18 DEF Commit
  <2>2. Does(t, VoidUse(t, q), q.doc)
    BY <1>3, VoidUseDoes
  <2> QED BY <1>4, <2>1, <2>2
<1>19. CASE Commit(p, "ungiveback", VoidGiveback)
  <2>1. q.op = "ungiveback" /\ VoidGiveback(t, q).ok /\ db' = VoidGiveback(t, q).c
    BY <1>2, <1>19 DEF Commit
  <2>2. Does(t, VoidGiveback(t, q), q.doc)
    BY <1>3, VoidGivebackDoes
  <2> QED BY <1>4, <2>1, <2>2
<1>20. CASE Commit(p, "close", VoidProject)
  <2>1. q.op = "close" /\ VoidProject(t, q).ok /\ db' = VoidProject(t, q).c
    BY <1>2, <1>20 DEF Commit
  <2>2. q.doc = Project
    BY <1>3, <2>1 DEF Fits
  <2>3. Does(t, VoidProject(t, q), q.doc)
    BY <1>3, <2>2, VoidProjectDoes
  <2> QED BY <1>4, <2>1, <2>3
<1> QED BY <1>5, <1>6, <1>7, <1>8, <1>9, <1>10, <1>11, <1>12, <1>13, <1>14, <1>15, <1>16, <1>17,
           <1>18, <1>19, <1>20

LEMMA StepKnown == RdKnown /\ [Next]_vars => RdKnown'
<1> SUFFICES ASSUME RdKnown, [Next]_vars PROVE RdKnown'
  OBVIOUS
<1>1. CASE UNCHANGED vars
  BY <1>1 DEF vars, RdKnown
<1>2. CASE Next
  <2>1. PICK p \in Procs :
          \/ SubmitRequest(p) \/ SubmitHandoff(p)
          \/ SubmitScrap(p, "scrap", Fresh(Scraps)) \/ SubmitScrap(p, "rescrap", Effective(Scraps))
          \/ SubmitStocktake(p) \/ SubmitAction(p) \/ SubmitReverse(p)
          \/ SubmitUse(p) \/ SubmitGiveback(p) \/ SubmitClose(p)
          \/ SubmitVoid(p, "unneed", Requests) \/ SubmitVoid(p, "unhandoff", Handoffs)
          \/ SubmitVoid(p, "unscrap", Scraps) \/ SubmitVoid(p, "uncount", Stocktakes)
          \/ SubmitVoid(p, "unuse", Uses) \/ SubmitVoid(p, "ungiveback", Givebacks)
          \/ Begin(p)
          \/ \/ Commit(p, "need", CreateRequest)
             \/ Commit(p, "handoff", CreateHandoff)
             \/ Commit(p, "scrap", CreateScrap)
             \/ Commit(p, "rescrap", UpdateScrap)
             \/ Commit(p, "count", CreateStocktake)
             \/ Commit(p, "act", StatusAction)
             \/ Commit(p, "react", ReverseAction)
             \/ Commit(p, "unneed", VoidRequest)
             \/ Commit(p, "unhandoff", VoidHandoff)
             \/ Commit(p, "unscrap", VoidScrap)
             \/ Commit(p, "uncount", VoidStocktake)
             \/ Commit(p, "use", CreateUse)
             \/ Commit(p, "giveback", CreateGiveback)
             \/ Commit(p, "unuse", VoidUse)
             \/ Commit(p, "ungiveback", VoidGiveback)
             \/ Commit(p, "close", VoidProject)
          \/ Rollback(p)
    BY <1>2 DEF Next
  <2>2. CASE SubmitRequest(p) \/ SubmitHandoff(p)
    BY <2>2, SubmitRequestKnown, SubmitHandoffKnown
  <2>3. CASE SubmitScrap(p, "scrap", Fresh(Scraps))
    <3>1. PICK op, D : op = "scrap" /\ D = Fresh(Scraps)
      OBVIOUS
    <3>2. op \in {"scrap", "rescrap"} /\ D \in {Fresh(Scraps), Effective(Scraps)}
      BY <3>1
    <3>3. SubmitScrap(p, op, D)
      BY <2>3, <3>1
    <3> QED BY <3>2, <3>3, SubmitScrapKnown
  <2>4. CASE SubmitScrap(p, "rescrap", Effective(Scraps))
    <3>1. PICK op, D : op = "rescrap" /\ D = Effective(Scraps)
      OBVIOUS
    <3>2. op \in {"scrap", "rescrap"} /\ D \in {Fresh(Scraps), Effective(Scraps)}
      BY <3>1
    <3>3. SubmitScrap(p, op, D)
      BY <2>4, <3>1
    <3> QED BY <3>2, <3>3, SubmitScrapKnown
  <2>5. CASE SubmitStocktake(p) \/ SubmitAction(p)
    BY <2>5, SubmitStocktakeKnown, SubmitActionKnown
  <2>6. CASE SubmitReverse(p) \/ SubmitUse(p)
    BY <2>6, SubmitReverseKnown, SubmitUseKnown
  <2>7. CASE SubmitGiveback(p) \/ SubmitClose(p)
    BY <2>7, SubmitGivebackKnown, SubmitCloseKnown
  <2>8. CASE \/ SubmitVoid(p, "unneed", Requests) \/ SubmitVoid(p, "unhandoff", Handoffs)
             \/ SubmitVoid(p, "unscrap", Scraps) \/ SubmitVoid(p, "uncount", Stocktakes)
             \/ SubmitVoid(p, "unuse", Uses) \/ SubmitVoid(p, "ungiveback", Givebacks)
    <3>1. PICK op, D : /\ SubmitVoid(p, op, D)
                       /\ \/ op = "unneed" /\ D = Requests
                          \/ op \in {"unhandoff", "unscrap"} /\ D \subseteq Handoffs \cup Scraps
                          \/ op \in {"uncount", "unuse", "ungiveback"}
      <4>1. Handoffs \subseteq Handoffs \cup Scraps /\ Scraps \subseteq Handoffs \cup Scraps
        OBVIOUS
      <4> QED BY <2>8, <4>1
    <3> QED BY <3>1, SubmitVoidKnown
  <2>9. CASE Begin(p)
    <3>1. /\ req[p] # Idle /\ view[p] = Idle /\ db' = db /\ req' = req
          /\ DOMAIN view' = Procs /\ view'[p] = db
          /\ \A o \in Procs : o # p => view'[o] = view[o]
      BY <2>9 DEF Begin, RdKnown
    <3>2. Past(db, db)
      <4>1. Grows(db.histories, db.histories) /\ db.lastLine \in Nat
        BY GrowsItself DEF RdKnown, Current, IsRd, LinesFit
      <4> QED BY <4>1 DEF Past, RdKnown, Current
    <3>3. Fits(req[p], db)
      BY <3>1 DEF RdKnown
    <3>4. ASSUME NEW o \in Procs, view'[o] # Idle
          PROVE  /\ req[o] # Idle /\ Past(view'[o], db)
                 /\ req[o].op = "react" => \E h \in view'[o].histories : h.id = req[o].history
      <4>1. CASE o = p
        BY <3>1, <3>2, <3>3, <4>1 DEF Fits
      <4>2. CASE o # p
        BY <3>1, <3>4, <4>2 DEF RdKnown
      <4> QED BY <4>1, <4>2
    <3> QED BY <3>1, <3>4 DEF RdKnown
  <2>10. CASE \/ Commit(p, "need", CreateRequest)
              \/ Commit(p, "handoff", CreateHandoff)
              \/ Commit(p, "scrap", CreateScrap)
              \/ Commit(p, "rescrap", UpdateScrap)
              \/ Commit(p, "count", CreateStocktake)
              \/ Commit(p, "act", StatusAction)
              \/ Commit(p, "react", ReverseAction)
              \/ Commit(p, "unneed", VoidRequest)
              \/ Commit(p, "unhandoff", VoidHandoff)
              \/ Commit(p, "unscrap", VoidScrap)
              \/ Commit(p, "uncount", VoidStocktake)
              \/ Commit(p, "use", CreateUse)
              \/ Commit(p, "giveback", CreateGiveback)
              \/ Commit(p, "unuse", VoidUse)
              \/ Commit(p, "ungiveback", VoidGiveback)
              \/ Commit(p, "close", VoidProject)
    BY <2>10, CommitsKnown
  <2>11. CASE Rollback(p)
    <3>1. Leave(p) /\ db' = db
      BY <2>11 DEF Rollback
    <3>2. Later(db, db', Project) /\ Current(db')
      <4>1. Grows(db.histories, db.histories) /\ db.lastLine \in Nat
        BY GrowsItself DEF RdKnown, Current, IsRd, LinesFit
      <4> QED BY <3>1, <4>1 DEF RdKnown, Later
    <3> QED BY <3>1, <3>2, LeavesKnown
  <2> QED BY <2>1, <2>2, <2>3, <2>4, <2>5, <2>6, <2>7, <2>8, <2>9, <2>10, <2>11
<1> QED BY <1>1, <1>2

\* Whatever is asked for at the same time, begun, committed or rolled back: the
\* buckets of every request are explained by its histories, rows have ids of
\* their own, and a process works on a document and a past that fit.
THEOREM RdKnownHolds == Spec => []RdKnown
BY InitKnown, StepKnown, PTL DEF Spec

LEMMA KnownMatches == RdKnown => BucketsMatchHistories
<1> SUFFICES ASSUME RdKnown PROVE BucketsMatchHistories
  OBVIOUS
<1>1. Ledgered(db.histories, db.buckets, db.status)
  BY DEF RdKnown, Current
<1>2. ASSUME NEW r \in Requests, NEW H, H = {h \in InForce(db) : h.of = r}
      PROVE  /\ \A s \in Statuses :
                    /\ db.buckets[r][s] >= 0
                    /\ db.buckets[r][s] = TotalOf({h \in H : h.to = s})
                                          - TotalOf({h \in H : h.from = s})
             /\ MapThenSumSet(LAMBDA s : db.buckets[r][s], Statuses)
                    = TotalOf({h \in H : h.event = "created"})
  <2>1. H = Live(db.histories, r)
    BY <1>2 DEF InForce, Live
  <2>2. PICK b : b = db.buckets[r]
    OBVIOUS
  <2>3. Explained(b, H)
    BY <1>1, <2>1, <2>2 DEF Ledgered
  <2>4. ASSUME NEW s \in Statuses
        PROVE  b[s] >= 0 /\ b[s] = TotalOf({h \in H : h.to = s}) - TotalOf({h \in H : h.from = s})
    BY <2>3 DEF Explained, Into, OutOf
  <2>5. MapThenSumSet(LAMBDA s : b[s], Statuses) = TotalOf({h \in H : h.event = "created"})
    BY <2>3 DEF Explained, SumOfBuckets, Made
  <2>6. MapThenSumSet(LAMBDA s : db.buckets[r][s], Statuses)
          = MapThenSumSet(LAMBDA s : b[s], Statuses)
    BY <2>2
  <2> QED BY <2>2, <2>4, <2>5, <2>6
<1>3. ASSUME NEW h \in db.histories
      PROVE  Cardinality({g \in db.histories : g.rev = h.id}) = (IF h.undone THEN 1 ELSE 0)
  <2>1. /\ OneRollback(db.histories) /\ h.id # NoHistory
    BY <1>1 DEF Ledgered, Counted, NoHistory
  <2>2. PICK G : G = {g \in db.histories : g.rev = h.id}
    OBVIOUS
  <2>3. CASE h.undone
    <3>1. PICK g \in db.histories : g.rev = h.id
      BY <2>1, <2>3 DEF OneRollback
    <3>2. G = {g}
      BY <2>1, <2>2, <3>1 DEF OneRollback
    <3> QED BY <2>2, <2>3, <3>2, FS_Singleton
  <2>4. CASE ~h.undone
    <3>1. G = {}
      BY <2>1, <2>2, <2>4 DEF OneRollback
    <3> QED BY <2>2, <2>4, <3>1, FS_EmptySet
  <2> QED BY <2>3, <2>4
<1> QED BY <1>2, <1>3 DEF BucketsMatchHistories

\* The status ledger adds up: for any number of processes, requests, documents
\* and histories, every bucket of a request holds what its histories in force
\* say, the buckets together what was asked for, and a history is rolled back
\* once (transferStatusQuantity, reverseStatusHistory, updateLedgerGuarded).
THEOREM BucketsHold == Spec => []BucketsMatchHistories
BY RdKnownHolds, KnownMatches, PTL
=============================================================================
