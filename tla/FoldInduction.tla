---------------------------- MODULE FoldInduction ----------------------------
(***************************************************************************)
(* Induction along the folds of the community modules, for a step and a    *)
(* property that are parameters of this module: a module that folds some   *)
(* operator instantiates it with that operator.  The step may depend on    *)
(* five values that stay the same; the property may also speak of where    *)
(* the fold began.  As little as possible is extended here, for every      *)
(* instance repeats it: that finite sets are founded is in SumsOverSets.   *)
(***************************************************************************)
EXTENDS Integers, Folds

CONSTANTS
    Step(_, _, _, _, _, _, _),          \* of what was accumulated and the next element
    Final(_),                           \* which element of a set comes last
    Holds(_, _, _, _, _, _, _, _)       \* of the base, how far the fold is and what was
                                        \* accumulated

\* FoldLeft over a sequence, where Final is Max.
OverSeq(a, b, c, d, e, base, seq) ==
    MapThenFoldSet(LAMBDA x, acc : Step(a, b, c, d, e, acc, x), base, LAMBDA i : seq[i],
                   Final, DOMAIN seq)
Over(a, b, c, d, e, base, S) ==
    MapThenFoldSet(LAMBDA x, acc : Step(a, b, c, d, e, acc, x), base, LAMBDA x : x, Final, S)

\* Among some of the subsets of S there is a smallest one.
Founded(S) ==
    \A Bad \in SUBSET SUBSET S :
        Bad # {} => \E T \in Bad : \A U \in SUBSET T : U # T => U \notin Bad

\* g is the recursive function under a fold over S, whose elements are taken in
\* the order that pick says.
IsFold(g, a, b, c, d, e, base, pick, elem, S) ==
    g = [s \in SUBSET S |-> IF s = {} THEN base
                            ELSE Step(a, b, c, d, e, g[s \ {pick[s]}], elem[pick[s]])]

Picks(pick, S) == \A s \in SUBSET S : s # {} => pick[s] \in s

LEMMA IsFoldUnique ==
  ASSUME NEW a, NEW b, NEW c, NEW d, NEW e, NEW base, NEW pick, NEW elem, NEW S, Founded(S), Picks(pick, S),
         NEW U \in SUBSET S, NEW V \in SUBSET S,
         NEW g, IsFold(g, a, b, c, d, e, base, pick, elem, U), NEW h, IsFold(h, a, b, c, d, e, base, pick, elem, V)
  PROVE  \A s \in SUBSET (U \cap V) : g[s] = h[s]
<1> DEFINE Bad == {s \in SUBSET (U \cap V) : g[s] # h[s]}
<1> SUFFICES ASSUME Bad # {} PROVE FALSE
  OBVIOUS
<1>1. PICK T \in Bad : \A W \in SUBSET T : W # T => W \notin Bad
  <2>1. Bad \subseteq SUBSET S
    OBVIOUS
  <2> HIDE DEF Bad
  <2> QED BY <2>1 DEF Founded
<1>2. T # {} /\ T \in SUBSET S /\ T \in SUBSET U /\ T \in SUBSET V /\ g[T] # h[T]
  BY <1>1 DEF IsFold
<1>3. pick[T] \in T
  BY <1>2 DEF Picks
<1>4. T \ {pick[T]} \in SUBSET T /\ T \ {pick[T]} # T
  BY <1>3
<1>5. g[T \ {pick[T]}] = h[T \ {pick[T]}]
  BY <1>1, <1>4
<1>6. /\ g[T] = Step(a, b, c, d, e, g[T \ {pick[T]}], elem[pick[T]])
      /\ h[T] = Step(a, b, c, d, e, h[T \ {pick[T]}], elem[pick[T]])
  BY <1>2 DEF IsFold
<1> QED BY <1>2, <1>5, <1>6

LEMMA IsFoldExists ==
  ASSUME NEW a, NEW b, NEW c, NEW d, NEW e, NEW base, NEW pick, NEW elem, NEW S, Founded(S), Picks(pick, S)
  PROVE  \E g : IsFold(g, a, b, c, d, e, base, pick, elem, S)
<1> DEFINE Bad == {T \in SUBSET S : ~ \E g : IsFold(g, a, b, c, d, e, base, pick, elem, T)}
<1> SUFFICES ASSUME Bad # {} PROVE FALSE
  OBVIOUS
<1>1. PICK T \in Bad : \A W \in SUBSET T : W # T => W \notin Bad
  <2>1. Bad \subseteq SUBSET S
    OBVIOUS
  <2> HIDE DEF Bad
  <2> QED BY <2>1 DEF Founded
<1> DEFINE Of(W) == CHOOSE g : IsFold(g, a, b, c, d, e, base, pick, elem, W)
           Less(s) == s \ {pick[s]}
           Least(s) == IF s = {} THEN base
                       ELSE Step(a, b, c, d, e, Of(Less(s))[Less(s)], elem[pick[s]])
           G == [s \in SUBSET T |-> Least(s)]
<1>2. ASSUME NEW W \in SUBSET T, W # T PROVE IsFold(Of(W), a, b, c, d, e, base, pick, elem, W)
  BY <1>1, <1>2
<1>3. ASSUME NEW s \in SUBSET T, s # {}
      PROVE  Of(Less(s))[Less(s)] = G[Less(s)]
  <2> DEFINE r == Less(s)
             q == Less(r)
  <2>1. pick[s] \in s
    BY <1>3 DEF Picks
  <2>2. r \in SUBSET T /\ r # T /\ IsFold(Of(r), a, b, c, d, e, base, pick, elem, r)
    BY <2>1, <1>2
  <2>3. CASE r = {}
    BY <2>2, <2>3 DEF IsFold
  <2>4. CASE r # {}
    <3>1. pick[r] \in r
      BY <2>2, <2>4 DEF Picks
    <3>2. q \in SUBSET T /\ q # T /\ IsFold(Of(q), a, b, c, d, e, base, pick, elem, q) /\ q \subseteq r
      BY <2>2, <3>1, <1>2
    <3>3. Of(r)[r] = Step(a, b, c, d, e, Of(r)[q], elem[pick[r]])
      BY <2>2, <2>4 DEF IsFold
    <3>4. Of(r)[q] = Of(q)[q]
      <4> HIDE DEF Of, r, q
      <4> QED BY <2>2, <3>2, IsFoldUnique
    <3>5. G[r] = Step(a, b, c, d, e, Of(q)[q], elem[pick[r]])
      BY <2>2, <2>4
    <3> QED BY <3>3, <3>4, <3>5
  <2> QED BY <2>3, <2>4
<1>4. IsFold(G, a, b, c, d, e, base, pick, elem, T)
  <2>1. ASSUME NEW s \in SUBSET T
        PROVE  Least(s) = IF s = {} THEN base ELSE Step(a, b, c, d, e, G[Less(s)], elem[pick[s]])
    <3>1. CASE s = {}
      BY <3>1
    <3>2. CASE s # {}
      <4>1. Least(s) = Step(a, b, c, d, e, Of(Less(s))[Less(s)], elem[pick[s]])
        BY <3>2
      <4> HIDE DEF Least, Of, Less, G
      <4> QED BY <4>1, <1>3, <3>2
    <3> QED BY <3>1, <3>2
  <2> HIDE DEF Least
  <2> QED BY <2>1 DEF IsFold
<1> QED BY <1>1, <1>4

-----------------------------------------------------------------------------
(* Sequences.                                                              *)

\* Final chooses the last of some positions.
Latest(n) == \A s \in SUBSET (1..n) : s # {} => Final(s) \in s /\ \A i \in s : i <= Final(s)

\* f has the values that the fold goes through.
IsChain(f, a, b, c, d, e, base, n, seq) ==
    /\ f[0] = base
    /\ \A k \in 1..n : f[k] = Step(a, b, c, d, e, f[k - 1], seq[k])
    /\ OverSeq(a, b, c, d, e, base, seq) = f[n]

LEMMA SeqChain ==
  ASSUME NEW a, NEW b, NEW c, NEW d, NEW e, NEW base, NEW n \in Nat, NEW seq, DOMAIN seq = 1..n,
         Founded(1..n), Latest(n)
  PROVE  \E f : IsChain(f, a, b, c, d, e, base, n, seq)
<1> DEFINE pick == [s \in SUBSET (1..n) |-> Final(s)]
           Rec(g) == g = [s \in SUBSET DOMAIN seq |->
                            IF s = {} THEN base
                            ELSE Step(a, b, c, d, e, g[s \ {Final(s)}], seq[Final(s)])]
           G == CHOOSE g : Rec(g)
<1>1. OverSeq(a, b, c, d, e, base, seq) = G[DOMAIN seq]
  BY DEF OverSeq, MapThenFoldSet
<1>2. Rec(G)
  <2>1. Picks(pick, 1..n)
    BY DEF Picks, Latest
  <2>2. PICK g : IsFold(g, a, b, c, d, e, base, pick, seq, 1..n)
    <3> HIDE DEF pick
    <3> QED BY <2>1, IsFoldExists
  <2>3. Rec(g)
    BY <2>2 DEF IsFold
  <2> HIDE DEF Rec
  <2> QED BY <2>3
<1> HIDE DEF G
<1> DEFINE f == [k \in 0..n |-> G[1..k]]
<1>3. f[0] = base
  BY <1>2
<1>4. ASSUME NEW k \in 1..n PROVE f[k] = Step(a, b, c, d, e, f[k - 1], seq[k])
  <2>1. 1..k \in SUBSET (1..n) /\ 1..k # {}
    <3>1. 1 \in 1..k /\ \A i \in 1..k : i \in 1..n
      OBVIOUS
    <3> QED BY <3>1
  <2>2. Final(1..k) = k
    <3>1. Final(1..k) \in 1..k /\ \A i \in 1..k : i <= Final(1..k)
      BY <2>1 DEF Latest
    <3> QED BY <3>1
  <2>3. G[1..k] = Step(a, b, c, d, e, G[(1..k) \ {k}], seq[k])
    BY <1>2, <2>1, <2>2
  <2>4. (1..k) \ {k} = 1..(k - 1)
    OBVIOUS
  <2>5. k \in 0..n /\ k - 1 \in 0..n
    OBVIOUS
  <2>6. f[k] = G[1..k] /\ f[k - 1] = G[1..(k - 1)]
    BY <2>5
  <2> HIDE DEF f
  <2> QED BY <2>3, <2>4, <2>6
<1>5. OverSeq(a, b, c, d, e, base, seq) = f[n]
  BY <1>1
<1> HIDE DEF f
<1> QED BY <1>3, <1>4, <1>5 DEF IsChain

\* A fold over a sequence keeps what its step keeps, from one position to the next:
\* the loops over the lines of a form.
LEMMA SeqInduction ==
  ASSUME NEW a, NEW b, NEW c, NEW d, NEW e, NEW base, NEW n \in Nat, NEW seq, DOMAIN seq = 1..n,
         Founded(1..n), Latest(n), Holds(a, b, c, d, e, base, 0, base),
         \A k \in 1..n : \A acc :
             Holds(a, b, c, d, e, base, k - 1, acc) => Holds(a, b, c, d, e, base, k, Step(a, b, c, d, e, acc, seq[k]))
  PROVE  Holds(a, b, c, d, e, base, n, OverSeq(a, b, c, d, e, base, seq))
<1>1. PICK f : IsChain(f, a, b, c, d, e, base, n, seq)
  BY SeqChain
<1> DEFINE Bad == {k \in 0..n : ~Holds(a, b, c, d, e, base, k, f[k])}
<1>2. Bad = {}
  <2> SUFFICES ASSUME Bad # {} PROVE FALSE
    OBVIOUS
  <2>1. PICK k \in Bad : k - 1 \notin Bad
    <3> DEFINE Upto == {1..m : m \in Bad}
    <3>1. Upto \in SUBSET SUBSET (1..n) /\ Upto # {}
      OBVIOUS
    <3>2. PICK T \in Upto : \A U \in SUBSET T : U # T => U \notin Upto
      <4> HIDE DEF Upto
      <4> QED BY <3>1 DEF Founded
    <3>3. PICK k \in Bad : T = 1..k
      OBVIOUS
    <3>4. ASSUME k - 1 \in Bad PROVE FALSE
      <4>1. 1..(k - 1) \in Upto /\ 1..(k - 1) \subseteq 1..k
        BY <3>4
      <4>2. k \in 1..k /\ k \notin 1..(k - 1)
        BY <3>4
      <4> QED BY <3>2, <3>3, <4>1, <4>2
    <3> QED BY <3>4
  <2>2. k # 0 /\ k \in 1..n /\ k - 1 \in 0..n
    BY <1>1, <2>1 DEF IsChain
  <2>3. Holds(a, b, c, d, e, base, k - 1, f[k - 1])
    BY <2>1, <2>2
  <2> QED BY <1>1, <2>1, <2>2, <2>3 DEF IsChain
<1> QED BY <1>1, <1>2 DEF IsChain

-----------------------------------------------------------------------------
(* Sets.                                                                   *)

LEMMA FoldChain ==
  ASSUME NEW a, NEW b, NEW c, NEW d, NEW e, NEW base, NEW S, Founded(S),
         NEW pick, Picks(pick, S), NEW g, g[{}] = base,
         \A T \in SUBSET S :
             T # {} => g[T] = Step(a, b, c, d, e, g[T \ {pick[T]}], pick[T]),
         Holds(a, b, c, d, e, base, {}, base),
         \A T \in SUBSET S : \A acc :
             T # {} /\ Holds(a, b, c, d, e, base, T \ {pick[T]}, acc)
                => Holds(a, b, c, d, e, base, T, Step(a, b, c, d, e, acc, pick[T]))
  PROVE  Holds(a, b, c, d, e, base, S, g[S])
<1> DEFINE Bad == {T \in SUBSET S : ~Holds(a, b, c, d, e, base, T, g[T])}
<1>1. Bad = {}
  <2> SUFFICES ASSUME Bad # {} PROVE FALSE
    OBVIOUS
  <2>1. PICK T \in Bad : \A W \in SUBSET T : W # T => W \notin Bad
    <3>1. Bad \subseteq SUBSET S
      OBVIOUS
    <3> HIDE DEF Bad
    <3> QED BY <3>1 DEF Founded
  <2>2. T # {} /\ T \in SUBSET S
    BY <2>1
  <2>3. pick[T] \in T
    BY <2>2 DEF Picks
  <2>4. g[T] = Step(a, b, c, d, e, g[T \ {pick[T]}], pick[T])
    BY <2>2
  <2>5. Holds(a, b, c, d, e, base, T \ {pick[T]}, g[T \ {pick[T]}])
    BY <2>1, <2>2, <2>3
  <2> QED BY <2>1, <2>2, <2>4, <2>5
<1> QED BY <1>1

\* A fold over a finite set keeps what its step keeps, whatever the order of the
\* elements: the loops over the ids of logs, lines and layers.
LEMMA Induction ==
  ASSUME NEW a, NEW b, NEW c, NEW d, NEW e, NEW base, NEW S, Founded(S),
         \A T \in SUBSET S : T # {} => Final(T) \in T,
         Holds(a, b, c, d, e, base, {}, base),
         \A T \in SUBSET S : \A acc :
             T # {} /\ Holds(a, b, c, d, e, base, T \ {Final(T)}, acc)
                => Holds(a, b, c, d, e, base, T, Step(a, b, c, d, e, acc, Final(T)))
  PROVE  Holds(a, b, c, d, e, base, S, Over(a, b, c, d, e, base, S))
<1> DEFINE pick == [s \in SUBSET S |-> Final(s)]
           elem == [x \in S |-> x]
           Rec(g) == g = [s \in SUBSET S |->
                            IF s = {} THEN base
                            ELSE Step(a, b, c, d, e, g[s \ {Final(s)}], Final(s))]
           G == CHOOSE g : Rec(g)
<1>1. Over(a, b, c, d, e, base, S) = G[S]
  BY DEF Over, MapThenFoldSet
<1>2. Picks(pick, S) /\ \A x \in S : elem[x] = x
  BY DEF Picks
<1>3. \A s \in SUBSET S : s # {} => elem[pick[s]] = pick[s] /\ pick[s] = Final(s)
  OBVIOUS
<1>4. Rec(G)
  <2>1. PICK g : IsFold(g, a, b, c, d, e, base, pick, elem, S)
    <3> HIDE DEF pick, elem
    <3> QED BY <1>2, IsFoldExists
  <2>2. Rec(g)
    <3> HIDE DEF pick, elem
    <3>1. g = [s \in SUBSET S |-> g[s]]
      BY <2>1 DEF IsFold
    <3>2. \A s \in SUBSET S :
              g[s] = IF s = {} THEN base
                     ELSE Step(a, b, c, d, e, g[s \ {Final(s)}], Final(s))
      <4> TAKE s \in SUBSET S
      <4>1. g[s] = IF s = {} THEN base
                   ELSE Step(a, b, c, d, e, g[s \ {pick[s]}], elem[pick[s]])
        BY <2>1 DEF IsFold
      <4>2. CASE s = {}
        BY <4>1, <4>2
      <4>3. CASE s # {}
        <5>1. elem[pick[s]] = pick[s] /\ pick[s] = Final(s)
          BY <1>3, <4>3
        <5>2. g[s] = Step(a, b, c, d, e, g[s \ {pick[s]}], elem[pick[s]])
          BY <4>1, <4>3
        <5> QED BY <4>3, <5>1, <5>2
      <4> QED BY <4>2, <4>3
    <3> QED BY <3>1, <3>2
  <2> HIDE DEF Rec
  <2> QED BY <2>2
<1>5. \A T \in SUBSET S : \A acc :
             T # {} /\ Holds(a, b, c, d, e, base, T \ {pick[T]}, acc)
                => Holds(a, b, c, d, e, base, T, Step(a, b, c, d, e, acc, pick[T]))
  <2> HIDE DEF pick
  <2> QED BY <1>3
<1> HIDE DEF G, pick, elem
<1>6. Holds(a, b, c, d, e, base, S, G[S])
  <2>1. G[{}] = base
    BY <1>4
  <2>2. \A T \in SUBSET S :
            T # {} => G[T] = Step(a, b, c, d, e, G[T \ {pick[T]}], pick[T])
    BY <1>3, <1>4
  <2> QED BY <2>1, <2>2, <1>2, <1>5, FoldChain
<1> QED BY <1>1, <1>6
=============================================================================
