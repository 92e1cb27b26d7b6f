---------------------------- MODULE SumsOverSets ----------------------------
(***************************************************************************)
(* Sums over finite sets, SumFunctionOnSet of the community modules: its   *)
(* value does not depend on the order in which the elements are chosen.    *)
(* Induction on finite sets is the well-foundedness of strict inclusion.   *)
(***************************************************************************)
EXTENDS Functions, FiniteSetsExt, FiniteSetTheorems, TLAPS

Pick(s) == CHOOSE x \in s : TRUE

\* g is the recursive function whose value at S is the sum of f over S.
IsSum(g, f, S) ==
    g = [s \in SUBSET S |-> IF s = {} THEN 0 ELSE f[Pick(s)] + g[s \ {Pick(s)}]]

\* A property of finite sets, given as the set of those that lack it.
LEMMA SmallestSubset ==
  ASSUME NEW S, IsFiniteSet(S), NEW Bad, Bad \subseteq SUBSET S, Bad # {}
  PROVE  \E T \in Bad : \A U \in SUBSET T : U # T => U \notin Bad
<1>1. Bad \subseteq FiniteSubsetsOf(S)
  BY FS_Subset DEF FiniteSubsetsOf
<1>2. PICK T \in Bad : \A U \in Bad : <<U, T>> \notin StrictSubsetOrdering(S)
  BY <1>1, FS_StrictSubsetOrderingWellFounded, WFMin
<1> QED BY <1>2 DEF StrictSubsetOrdering

LEMMA FiniteFounded ==
  ASSUME NEW S, IsFiniteSet(S)
  PROVE  \A Bad \in SUBSET SUBSET S :
             Bad # {} => \E T \in Bad : \A U \in SUBSET T : U # T => U \notin Bad
BY SmallestSubset

\* The smallest of some natural numbers.
LEMMA SmallestOf ==
  ASSUME NEW Bad, Bad \subseteq Nat, Bad # {}
  PROVE  \E n \in Bad : \A m \in Bad : n <= m
<1>1. PICK k \in Bad : TRUE
  OBVIOUS
<1> DEFINE Below == {0..m : m \in {n \in Bad : n <= k}}
<1> DEFINE all == 0..k
<1>2. IsFiniteSet(all)
  BY FS_Interval
<1>3. Below \subseteq SUBSET all
  OBVIOUS
<1>4. Below # {}
  <2>1. all \in Below
    OBVIOUS
  <2> QED BY <2>1
<1>5. PICK T \in Below : \A U \in SUBSET T : U # T => U \notin Below
  <2> HIDE DEF Below, all
  <2> QED BY <1>2, <1>3, <1>4, SmallestSubset
<1>6. PICK n \in Bad : n <= k /\ T = 0..n
  OBVIOUS
<1>7. ASSUME NEW m \in Bad, m < n PROVE FALSE
  <2>1. 0..m \in Below /\ 0..m \subseteq T
    BY <1>6, <1>7
  <2>2. n \in T /\ n \notin 0..m
    BY <1>6, <1>7
  <2> QED BY <1>5, <2>1, <2>2
<1> QED BY <1>7

\* SumFunctionOnSet(f, S) is the value at S of the function that it defines.
LEMMA SumUnfolds ==
  ASSUME NEW f, NEW S
  PROVE  SumFunctionOnSet(f, S) = (CHOOSE g : IsSum(g, f, S))[S]
BY DEF SumFunctionOnSet, FoldFunctionOnSet, MapThenFoldSet, IsSum, Pick

\* Where two such functions are both defined they agree.
LEMMA IsSumUnique ==
  ASSUME NEW f, NEW S, IsFiniteSet(S), NEW U \in SUBSET S, NEW V \in SUBSET S,
         NEW g, IsSum(g, f, U), NEW h, IsSum(h, f, V)
  PROVE  \A s \in SUBSET (U \cap V) : g[s] = h[s]
<1> DEFINE Bad == {s \in SUBSET (U \cap V) : g[s] # h[s]}
<1> SUFFICES ASSUME Bad # {} PROVE FALSE
  OBVIOUS
<1>1. PICK T \in Bad : \A W \in SUBSET T : W # T => W \notin Bad
  <2>1. Bad \subseteq SUBSET S
    OBVIOUS
  <2> HIDE DEF Bad
  <2> QED BY <2>1, SmallestSubset
<1>2. T # {}
  BY <1>1 DEF IsSum
<1> DEFINE x == Pick(T)
<1>3. x \in T
  BY <1>2 DEF Pick
<1>4. T \ {x} \in SUBSET T /\ T \ {x} # T
  BY <1>3
<1>5. g[T \ {x}] = h[T \ {x}]
  BY <1>1, <1>4
<1>6. g[T] = f[x] + g[T \ {x}] /\ h[T] = f[x] + h[T \ {x}]
  BY <1>2 DEF IsSum
<1> QED BY <1>1, <1>5, <1>6

\* There is one: from those of the smaller sets.
LEMMA IsSumExists ==
  ASSUME NEW f, NEW S, IsFiniteSet(S)
  PROVE  \E g : IsSum(g, f, S)
<1> DEFINE Bad == {T \in SUBSET S : ~ \E g : IsSum(g, f, T)}
<1> SUFFICES ASSUME Bad # {} PROVE FALSE
  OBVIOUS
<1>1. PICK T \in Bad : \A W \in SUBSET T : W # T => W \notin Bad
  <2>1. Bad \subseteq SUBSET S
    OBVIOUS
  <2> HIDE DEF Bad
  <2> QED BY <2>1, SmallestSubset
<1> DEFINE Of(W) == CHOOSE g : IsSum(g, f, W)
<1>2. ASSUME NEW W \in SUBSET T, W # T PROVE IsSum(Of(W), f, W)
  BY <1>1, <1>2
<1> DEFINE Least(s) == IF s = {} THEN 0 ELSE f[Pick(s)] + Of(s \ {Pick(s)})[s \ {Pick(s)}]
           G == [s \in SUBSET T |-> Least(s)]
<1>3. ASSUME NEW s \in SUBSET T, s # {} 
      PROVE  Of(s \ {Pick(s)})[s \ {Pick(s)}] = G[s \ {Pick(s)}]
  <2> DEFINE r == s \ {Pick(s)}
             q == r \ {Pick(r)}
  <2>1. Pick(s) \in s
    BY <1>3 DEF Pick
  <2>2. r \in SUBSET T /\ r # T /\ IsSum(Of(r), f, r)
    BY <2>1, <1>2
  <2>3. CASE r = {}
    BY <2>2, <2>3 DEF IsSum
  <2>4. CASE r # {}
    <3>1. Pick(r) \in r
      BY <2>4 DEF Pick
    <3>2. q \in SUBSET T /\ q # T /\ IsSum(Of(q), f, q) /\ q \subseteq r
      BY <2>2, <3>1, <1>2
    <3>3. Of(r)[r] = f[Pick(r)] + Of(r)[q]
      BY <2>2, <2>4 DEF IsSum
    <3>4. Of(r)[q] = Of(q)[q]
      <4> HIDE DEF Of, r, q
      <4> QED BY <2>2, <3>2, IsSumUnique
    <3>5. G[r] = f[Pick(r)] + Of(q)[q]
      BY <2>2, <2>4
    <3> QED BY <3>3, <3>4, <3>5
  <2> QED BY <2>3, <2>4
<1>4. IsSum(G, f, T)
  <2>1. ASSUME NEW s \in SUBSET T
        PROVE  Least(s) = IF s = {} THEN 0 ELSE f[Pick(s)] + G[s \ {Pick(s)}]
    <3>1. CASE s = {}
      BY <3>1
    <3>2. CASE s # {}
      <4>1. Least(s) = f[Pick(s)] + Of(s \ {Pick(s)})[s \ {Pick(s)}]
        BY <3>2
      <4> HIDE DEF Least, Of
      <4> QED BY <4>1, <1>3, <3>2
    <3> QED BY <3>1, <3>2
  <2> HIDE DEF Least
  <2> QED BY <2>1 DEF IsSum
<1> QED BY <1>1, <1>4

\* The recursion that the definition of the sum states.
LEMMA SumStep ==
  ASSUME NEW f, NEW S, IsFiniteSet(S)
  PROVE  SumFunctionOnSet(f, S) =
            IF S = {} THEN 0 ELSE f[Pick(S)] + SumFunctionOnSet(f, S \ {Pick(S)})
<1> DEFINE G == CHOOSE g : IsSum(g, f, S)
           R == S \ {Pick(S)}
           H == CHOOSE g : IsSum(g, f, R)
<1>1. IsSum(G, f, S) /\ SumFunctionOnSet(f, S) = G[S]
  BY IsSumExists, SumUnfolds
<1>2. IsFiniteSet(R) /\ R \in SUBSET S
  BY FS_Subset
<1>3. IsSum(H, f, R) /\ SumFunctionOnSet(f, R) = H[R]
  BY <1>2, IsSumExists, SumUnfolds
<1>4. G[R] = H[R]
  <2> HIDE DEF G, H, R
  <2> QED BY <1>1, <1>2, <1>3, IsSumUnique
<1>5. G[S] = IF S = {} THEN 0 ELSE f[Pick(S)] + G[R]
  <2> HIDE DEF G
  <2> QED BY <1>1 DEF IsSum
<1> QED BY <1>1, <1>3, <1>4, <1>5

LEMMA SumType ==
  ASSUME NEW f, NEW S, IsFiniteSet(S), \A x \in S : f[x] \in Int
  PROVE  SumFunctionOnSet(f, S) \in Int
<1> DEFINE Bad == {T \in SUBSET S : SumFunctionOnSet(f, T) \notin Int}
<1> SUFFICES ASSUME Bad # {} PROVE FALSE
  OBVIOUS
<1>1. PICK T \in Bad : \A W \in SUBSET T : W # T => W \notin Bad
  <2>1. Bad \subseteq SUBSET S
    OBVIOUS
  <2> HIDE DEF Bad
  <2> QED BY <2>1, SmallestSubset
<1>2. IsFiniteSet(T)
  BY <1>1, FS_Subset
<1>3. SumFunctionOnSet(f, T) =
         IF T = {} THEN 0 ELSE f[Pick(T)] + SumFunctionOnSet(f, T \ {Pick(T)})
  BY <1>2, SumStep
<1>4. T # {} => Pick(T) \in T
  BY DEF Pick
<1>5. T # {} => SumFunctionOnSet(f, T \ {Pick(T)}) \in Int
  BY <1>1, <1>4
<1> QED BY <1>1, <1>3, <1>4, <1>5

\* An element less, its value less, whatever element it is.
LEMMA SumWithout ==
  ASSUME NEW f, NEW S, IsFiniteSet(S), \A x \in S : f[x] \in Int
  PROVE  \A x \in S : SumFunctionOnSet(f, S) = f[x] + SumFunctionOnSet(f, S \ {x})
<1> DEFINE Fits(T) == \A x \in T : SumFunctionOnSet(f, T) = f[x] + SumFunctionOnSet(f, T \ {x})
           Bad == {T \in SUBSET S : ~Fits(T)}
<1> SUFFICES ASSUME Bad # {} PROVE FALSE
  OBVIOUS
<1>1. PICK T \in Bad : \A W \in SUBSET T : W # T => W \notin Bad
  <2>1. Bad \subseteq SUBSET S
    OBVIOUS
  <2> HIDE DEF Bad
  <2> QED BY <2>1, SmallestSubset
<1>2. PICK x \in T : SumFunctionOnSet(f, T) # f[x] + SumFunctionOnSet(f, T \ {x})
  BY <1>1
<1> DEFINE y == Pick(T)
<1>3. y \in T
  BY <1>2 DEF Pick
<1>4. ASSUME NEW W \in SUBSET T PROVE IsFiniteSet(W) /\ SumFunctionOnSet(f, W) \in Int
  BY <1>1, FS_Subset, SumType
<1>5. SumFunctionOnSet(f, T) = f[y] + SumFunctionOnSet(f, T \ {y})
  BY <1>2, <1>4, SumStep
<1>6. x # y
  BY <1>2, <1>5
<1>7. SumFunctionOnSet(f, T \ {y}) = f[x] + SumFunctionOnSet(f, (T \ {y}) \ {x})
  <2>1. T \ {y} \in SUBSET T /\ T \ {y} # T /\ x \in T \ {y}
    BY <1>3, <1>6
  <2>2. Fits(T \ {y})
    BY <1>1, <2>1
  <2> QED BY <2>1, <2>2
<1>8. SumFunctionOnSet(f, T \ {x}) = f[y] + SumFunctionOnSet(f, (T \ {x}) \ {y})
  <2>1. T \ {x} \in SUBSET T /\ T \ {x} # T /\ y \in T \ {x}
    BY <1>3, <1>6
  <2>2. Fits(T \ {x})
    BY <1>1, <2>1
  <2> QED BY <2>1, <2>2
<1>9. (T \ {x}) \ {y} = (T \ {y}) \ {x}
  OBVIOUS
<1>10. SumFunctionOnSet(f, T \ {x}) = f[y] + SumFunctionOnSet(f, (T \ {y}) \ {x})
  BY <1>8, <1>9, Zenon
<1> DEFINE rest == SumFunctionOnSet(f, (T \ {y}) \ {x})
<1>11. f[x] \in Int /\ f[y] \in Int /\ rest \in Int
  BY <1>3, <1>4
<1>12. /\ SumFunctionOnSet(f, T) = f[y] + (f[x] + rest)
       /\ SumFunctionOnSet(f, T \ {x}) = f[y] + rest
  BY <1>5, <1>7, <1>10
<1> HIDE DEF rest, y
<1>13. f[y] + (f[x] + rest) = f[x] + (f[y] + rest)
  BY <1>11
<1> QED BY <1>2, <1>12, <1>13

\* What Max and Min choose.
LEMMA LastOfSome ==
  ASSUME NEW S, IsFiniteSet(S), S \subseteq Nat, S # {}
  PROVE  /\ Max(S) \in S /\ \A x \in S : x <= Max(S)
         /\ Min(S) \in S /\ \A x \in S : Min(S) <= x
<1>1. \E x \in S : \A y \in S : y <= x
  <2> DEFINE Bad == {T \in SUBSET S : T # {} /\ ~ \E x \in T : \A y \in T : y <= x}
  <2> SUFFICES ASSUME Bad # {} PROVE FALSE
    OBVIOUS
  <2>1. PICK T \in Bad : \A W \in SUBSET T : W # T => W \notin Bad
    <3>1. Bad \subseteq SUBSET S
      OBVIOUS
    <3> HIDE DEF Bad
    <3> QED BY <3>1, SmallestSubset
  <2>2. PICK z \in T : TRUE
    OBVIOUS
  <2>3. CASE T \ {z} = {}
    <3>1. z \in Nat /\ \A y \in T : y = z
      BY <2>3
    <3>2. \A y \in T : y <= z
      BY <3>1
    <3> QED BY <3>2
  <2>4. CASE T \ {z} # {}
    <3>1. PICK x \in T \ {z} : \A y \in T \ {z} : y <= x
      BY <2>1, <2>4
    <3>2. x \in Nat /\ z \in Nat
      OBVIOUS
    <3>3. CASE z <= x
      <4>1. \A y \in T : y <= x
        BY <3>1, <3>3
      <4> QED BY <4>1
    <3>4. CASE x <= z
      <4>1. \A y \in T : y <= z
        <5> TAKE y \in T
        <5>1. y \in Nat
          OBVIOUS
        <5> QED BY <3>1, <3>2, <3>4, <5>1
      <4> QED BY <4>1
    <3> QED BY <3>2, <3>3, <3>4
  <2> QED BY <2>3, <2>4
<1>2. \E x \in S : \A y \in S : x <= y
  BY SmallestOf
<1>3. Max(S) \in S /\ \A y \in S : y <= Max(S)
  <2>1. \E x \in S : \A y \in S : x >= y
    BY <1>1
  <2>2. Max(S) \in S /\ \A y \in S : Max(S) >= y
    BY <2>1 DEF Max
  <2> QED BY <2>2
<1> QED BY <1>2, <1>3 DEF Min

LEMMA PositionsFounded ==
  ASSUME NEW n \in Nat
  PROVE  /\ \A Bad \in SUBSET SUBSET (1..n) :
                Bad # {} => \E T \in Bad : \A U \in SUBSET T : U # T => U \notin Bad
         /\ \A s \in SUBSET (1..n) : s # {} => Max(s) \in s /\ \A i \in s : i <= Max(s)
<1>1. PICK S : S = 1..n
  OBVIOUS
<1>2. IsFiniteSet(S) /\ S \subseteq Nat
  BY <1>1, FS_Interval
<1>3. ASSUME NEW s \in SUBSET S, s # {} PROVE Max(s) \in s /\ \A i \in s : i <= Max(s)
  <2>1. IsFiniteSet(s) /\ s \subseteq Nat
    BY <1>2, FS_Subset
  <2> QED BY <1>3, <2>1, LastOfSome
<1> QED BY <1>1, <1>2, <1>3, FiniteFounded

\* The values that a function takes on a finite set.
LEMMA FiniteImage ==
  ASSUME NEW S, IsFiniteSet(S), NEW f, DOMAIN f = S
  PROVE  IsFiniteSet({f[x] : x \in S})
<1> DEFINE T == {f[x] : x \in S}
           g == [x \in S |-> f[x]]
<1>1. g \in Surjection(S, T)
  BY DEF Surjection
<1> HIDE DEF T, g
<1>2. IsFiniteSet(T)
  BY <1>1, FS_Surjection
<1> QED BY <1>2 DEF T
=============================================================================
