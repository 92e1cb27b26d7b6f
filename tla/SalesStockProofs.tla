--------------------------- MODULE SalesStockProofs ---------------------------
(***************************************************************************)
(* The documents of SalesStock, for any receipts, orders, returns, forms   *)
(* and processes: approvals follow documents and the factory numbers that  *)
(* are held are those of the lines in force.  Each body of a transaction   *)
(* is followed through its loops over lines; the rest of the argument is   *)
(* that no two requests write one document.                                *)
(***************************************************************************)
EXTENDS SalesStock, DocumentProofs

Columns == {"status", "audit", "appr", "rev", "lines", "lastLine", "entry", "numbers"}

\* The document rows of a store.
Papers(st) ==
    /\ Columns \subseteq DOMAIN st
    /\ DOMAIN st.status = Docs /\ DOMAIN st.audit = Docs /\ DOMAIN st.appr = Docs
    /\ IsFiniteSet(st.lines) /\ st.lastLine \in Nat
    /\ \A l \in st.lines : l.id \in 1..st.lastLine /\ l.doc \in Outbounds
    /\ \A l, m \in st.lines : l.id = m.id => l = m
    /\ \A f \in st.numbers : DOMAIN f = {"doc", "line", "range", "held"}

\* Whose number it is.
Owns(l, f) == f.doc = l.doc /\ f.line = l.id /\ f.range = l.range

\* The numbers that are held and the lines in force that have numbers.
Numbered(st) ==
    /\ \A f \in st.numbers : f.held =>
          \E l \in st.lines : Owns(l, f) /\ st.status[l.doc] = "effective" /\ l.range # NoRange
    /\ \A l \in st.lines : st.status[l.doc] = "effective" /\ l.range # NoRange =>
          \E f \in st.numbers : f.held /\ Owns(l, f)

SamePapers(a, b) == \A x \in Columns : a[x] = b[x]

\* What the lines of one order may change to while the documents stay.
Rewritten(o, a, b) ==
    /\ b.status = a.status /\ b.audit = a.audit /\ b.appr = a.appr
    /\ \A l : l.doc # o => (l \in b.lines <=> l \in a.lines)

\* A line more, a line less, a line replaced; the other lines stay.
Extended(o, a, b) == Rewritten(o, a, b) /\ a.lines \subseteq b.lines
Lessened(o, line, a, b) == Rewritten(o, a, b) /\ b.lines = a.lines \ {line}
Replaced(o, line, a, b) == Rewritten(o, a, b) /\ a.lines \ {line} \subseteq b.lines

Fit(st) == Papers(st) /\ Numbered(st)

\* The document is in force, and has the line.
InForce(o, st) == st.status[o] = "effective"
HasLine(o, line, st) == line \in st.lines /\ line.doc = o

LEMMA SamePapersFit ==
  ASSUME NEW a, NEW b, SamePapers(a, b), Columns \subseteq DOMAIN b
  PROVE  /\ Papers(a) => Papers(b)
         /\ Numbered(a) => Numbered(b)
         /\ b.status = a.status /\ b.audit = a.audit /\ b.appr = a.appr
         /\ b.lines = a.lines /\ b.lastLine = a.lastLine /\ b.numbers = a.numbers
<1>1. /\ b.status = a.status /\ b.audit = a.audit /\ b.appr = a.appr
      /\ b.lines = a.lines /\ b.lastLine = a.lastLine /\ b.numbers = a.numbers
  BY DEF SamePapers, Columns
<1> QED BY <1>1 DEF Papers, Numbered

LEMMA AfterSamePapers ==
  ASSUME NEW t, NEW u, After(t, u), Columns \subseteq DOMAIN t.c
  PROVE  SamePapers(t.c, u.c) /\ Columns \subseteq DOMAIN u.c
BY DEF After, SameRest, SamePapers, Columns, StockFields

\* The row of a number that is held.
Held(o, line, range) == [doc |-> o, line |-> line, range |-> range, held |-> TRUE]

\* A line that is added with its number.
LEMMA AddFits ==
  ASSUME NEW a, Fit(a), NEW o \in Outbounds, a.status[o] = "effective",
         NEW line, line.id = a.lastLine + 1, line.doc = o,
         NEW row, row = Held(o, line.id, line.range),
         NEW b, Columns \subseteq DOMAIN b,
         b.status = a.status, b.audit = a.audit, b.appr = a.appr,
         b.lines = a.lines \cup {line}, b.lastLine = line.id,
         b.numbers = IF line.range = NoRange THEN a.numbers ELSE a.numbers \cup {row}
  PROVE  Fit(b) /\ Extended(o, a, b)
<1>1. Papers(a) /\ Numbered(a)
  BY DEF Fit
<1>2. IsFiniteSet(b.lines)
  BY <1>1, FS_AddElement DEF Papers
<1>3. \A l \in a.lines : l.id # line.id
  BY <1>1 DEF Papers
<1>4. DOMAIN row = {"doc", "line", "range", "held"} /\ row.held /\ Owns(line, row)
  BY DEF Owns, Held
<1>5. Papers(b)
  BY <1>1, <1>2, <1>3, <1>4 DEF Papers
<1>6. Numbered(b)
  <2>1. ASSUME NEW f \in b.numbers, f.held
        PROVE  \E l \in b.lines : Owns(l, f) /\ b.status[l.doc] = "effective" /\ l.range # NoRange
    BY <1>1, <1>4, <2>1 DEF Numbered
  <2>2. ASSUME NEW l \in b.lines, b.status[l.doc] = "effective", l.range # NoRange
        PROVE  \E f \in b.numbers : f.held /\ Owns(l, f)
    BY <1>1, <1>4, <2>2 DEF Numbered
  <2> QED BY <2>1, <2>2 DEF Numbered
<1>7. Extended(o, a, b)
  BY DEF Extended, Rewritten
<1> QED BY <1>5, <1>6, <1>7 DEF Fit

\* The rows of some numbers once those of a document and of some lines are released.
Freed(numbers, o, ids) ==
    {IF f.doc = o /\ f.line \in ids THEN [f EXCEPT !.held = FALSE] ELSE f : f \in numbers}

LEMMA FreedRows ==
  ASSUME NEW numbers, \A f \in numbers : DOMAIN f = {"doc", "line", "range", "held"},
         NEW o, NEW ids
  PROVE  /\ \A f \in Freed(numbers, o, ids) : DOMAIN f = {"doc", "line", "range", "held"}
         /\ \A f \in Freed(numbers, o, ids) :
               f.held => f \in numbers /\ ~(f.doc = o /\ f.line \in ids)
         /\ \A f \in numbers : ~(f.doc = o /\ f.line \in ids) => f \in Freed(numbers, o, ids)
BY DEF Freed

\* A line that is taken away with its number.
LEMMA DropFits ==
  ASSUME NEW a, Fit(a), NEW o, NEW line \in a.lines, line.doc = o,
         NEW b, Columns \subseteq DOMAIN b,
         b.status = a.status, b.audit = a.audit, b.appr = a.appr,
         b.lines = {l \in a.lines : l.id # line.id}, b.lastLine = a.lastLine,
         b.numbers = IF line.range = NoRange THEN a.numbers ELSE Freed(a.numbers, o, {line.id})
  PROVE  Fit(b) /\ Lessened(o, line, a, b)
<1>1. Papers(a) /\ Numbered(a)
  BY DEF Fit
<1>2. IsFiniteSet(b.lines)
  BY <1>1, FS_Subset DEF Papers
<1>3. b.lines = a.lines \ {line}
  BY <1>1 DEF Papers
<1>4. /\ \A f \in b.numbers : DOMAIN f = {"doc", "line", "range", "held"}
      /\ \A f \in b.numbers : f.held => f \in a.numbers
      /\ line.range # NoRange => \A f \in b.numbers : f.held => ~(f.doc = o /\ f.line = line.id)
      /\ \A f \in a.numbers : ~(f.doc = o /\ f.line = line.id) => f \in b.numbers
  BY <1>1, FreedRows DEF Papers
<1>5. Papers(b)
  BY <1>1, <1>2, <1>3, <1>4 DEF Papers
<1>6. Numbered(b)
  <2>1. ASSUME NEW f \in b.numbers, f.held
        PROVE  \E l \in b.lines : Owns(l, f) /\ b.status[l.doc] = "effective" /\ l.range # NoRange
    <3>1. PICK l \in a.lines : Owns(l, f) /\ a.status[l.doc] = "effective" /\ l.range # NoRange
      BY <1>1, <1>4, <2>1 DEF Numbered
    <3>2. l # line
      BY <1>4, <2>1, <3>1 DEF Owns
    <3> QED BY <1>3, <3>1, <3>2
  <2>2. ASSUME NEW l \in b.lines, b.status[l.doc] = "effective", l.range # NoRange
        PROVE  \E f \in b.numbers : f.held /\ Owns(l, f)
    <3>1. PICK f \in a.numbers : f.held /\ Owns(l, f)
      BY <1>1, <1>3, <2>2 DEF Numbered
    <3>2. l.id # line.id
      BY <2>2
    <3>3. f.line # line.id
      BY <3>1, <3>2 DEF Owns
    <3> QED BY <1>4, <3>1, <3>3
  <2> QED BY <2>1, <2>2 DEF Numbered
<1>7. Lessened(o, line, a, b)
  BY <1>3 DEF Lessened, Rewritten
<1> QED BY <1>3, <1>5, <1>6, <1>7 DEF Fit

\* A line that is replaced, its number exchanged when it has another one.
NumbersFreed(numbers, o, line, new) ==
    IF line.range # new.range /\ line.range # NoRange
    THEN Freed(numbers, o, {line.id}) ELSE numbers
NumbersKept(numbers, o, line, new) ==
    IF line.range # new.range /\ new.range # NoRange
    THEN NumbersFreed(numbers, o, line, new) \cup {Held(o, line.id, new.range)}
    ELSE NumbersFreed(numbers, o, line, new)
LinesKept(lines, line, new) == {l \in lines : l.id # line.id} \cup {new}

LEMMA KeepFits ==
  ASSUME NEW a, Fit(a), NEW o, NEW line, HasLine(o, line, a), InForce(o, a),
         NEW new, new.id = line.id, new.doc = o,
         NEW b, Columns \subseteq DOMAIN b,
         b.status = a.status, b.audit = a.audit, b.appr = a.appr,
         b.lines = LinesKept(a.lines, line, new), b.lastLine = a.lastLine,
         b.numbers = NumbersKept(a.numbers, o, line, new)
  PROVE  Fit(b) /\ Replaced(o, line, a, b)
<1> USE DEF HasLine, InForce
<1> DEFINE freed == NumbersFreed(a.numbers, o, line, new)
           row == Held(o, line.id, new.range)
<1>0. /\ freed = IF line.range # new.range /\ line.range # NoRange
                 THEN Freed(a.numbers, o, {line.id}) ELSE a.numbers
      /\ b.numbers = IF line.range # new.range /\ new.range # NoRange
                     THEN freed \cup {row} ELSE freed
      /\ b.lines = {l \in a.lines : l.id # line.id} \cup {new}
  BY DEF NumbersFreed, NumbersKept, LinesKept
<1> HIDE DEF freed, row
<1>1. Papers(a) /\ Numbered(a)
  BY DEF Fit
<1>2. b.lines = (a.lines \ {line}) \cup {new}
  BY <1>0, <1>1 DEF Papers
<1>3. IsFiniteSet(b.lines)
  <2>1. IsFiniteSet(a.lines \ {line})
    BY <1>1, FS_Subset DEF Papers
  <2> QED BY <1>2, <2>1, FS_AddElement
<1>4. /\ \A f \in freed : DOMAIN f = {"doc", "line", "range", "held"}
      /\ \A f \in freed : f.held => f \in a.numbers
      /\ line.range # new.range /\ line.range # NoRange =>
            \A f \in freed : f.held => ~(f.doc = o /\ f.line = line.id)
      /\ \A f \in a.numbers : ~(f.doc = o /\ f.line = line.id) => f \in freed
      /\ line.range = new.range => freed = a.numbers
  BY <1>0, <1>1, FreedRows DEF Papers
<1>5. DOMAIN row = {"doc", "line", "range", "held"} /\ row.held /\ Owns(new, row)
  BY DEF Owns, Held, row
<1>6. Papers(b)
  <2>1. \A l, m \in b.lines : l.id = m.id => l = m
    BY <1>1, <1>2 DEF Papers
  <2>2. \A l \in b.lines : l.id \in 1..b.lastLine /\ l.doc \in Outbounds
    BY <1>1, <1>2 DEF Papers
  <2>3. \A f \in b.numbers : DOMAIN f = {"doc", "line", "range", "held"}
    BY <1>0, <1>4, <1>5
  <2> QED BY <1>1, <1>3, <2>1, <2>2, <2>3 DEF Papers
<1>7. Numbered(b)
  <2>1. ASSUME NEW f \in freed, f.held
        PROVE  \E l \in b.lines : Owns(l, f) /\ b.status[l.doc] = "effective" /\ l.range # NoRange
    <3>1. PICK l \in a.lines : Owns(l, f) /\ a.status[l.doc] = "effective" /\ l.range # NoRange
      BY <1>1, <1>4, <2>1 DEF Numbered
    <3>2. CASE l # line
      BY <1>2, <3>1, <3>2
    <3>3. CASE l = line
      <4>1. line.range = new.range
        BY <1>4, <2>1, <3>1, <3>3 DEF Owns
      <4>2. new \in b.lines /\ Owns(new, f)
        BY <1>2, <3>1, <3>3, <4>1 DEF Owns
      <4> QED BY <3>1, <3>3, <4>1, <4>2
    <3> QED BY <3>2, <3>3
  <2>2. ASSUME NEW f \in b.numbers, f.held
        PROVE  \E l \in b.lines : Owns(l, f) /\ b.status[l.doc] = "effective" /\ l.range # NoRange
    <3>1. CASE f \in freed
      BY <2>1, <2>2, <3>1
    <3>2. CASE f \notin freed
      <4>1. f = row /\ new.range # NoRange
        BY <1>0, <2>2, <3>2
      <4> QED BY <1>2, <1>5, <4>1
    <3> QED BY <3>1, <3>2
  <2>3. ASSUME NEW l \in b.lines, b.status[l.doc] = "effective", l.range # NoRange
        PROVE  \E f \in b.numbers : f.held /\ Owns(l, f)
    <3>1. CASE l.id # line.id
      <4>1. PICK f \in a.numbers : f.held /\ Owns(l, f)
        BY <1>1, <1>2, <2>3, <3>1 DEF Numbered
      <4>2. f \in freed
        BY <1>4, <3>1, <4>1 DEF Owns
      <4>3. f \in b.numbers
        BY <1>0, <4>2
      <4> QED BY <4>1, <4>3
    <3>2. CASE l.id = line.id
      <4>1. l = new
        BY <1>0, <2>3, <3>2
      <4>2. CASE line.range # new.range
        <5>1. row \in b.numbers
          BY <1>0, <2>3, <4>1, <4>2
        <5> QED BY <1>5, <4>1, <5>1
      <4>3. CASE line.range = new.range
        <5>1. PICK f \in a.numbers : f.held /\ Owns(line, f)
          BY <1>1, <2>3, <4>1, <4>3 DEF Numbered
        <5>2. f \in b.numbers /\ Owns(new, f)
          BY <1>0, <1>4, <4>3, <5>1 DEF Owns
        <5> QED BY <4>1, <5>1, <5>2
      <4> QED BY <4>2, <4>3
    <3> QED BY <3>1, <3>2
  <2> QED BY <2>2, <2>3 DEF Numbered
<1>8. Replaced(o, line, a, b)
  BY <1>2 DEF Replaced, Rewritten
<1> QED BY <1>6, <1>7, <1>8 DEF Fit

-----------------------------------------------------------------------------
(* What each write of a document does to a transaction.                    *)

\* A stock command leaves the rows of the documents as they are.
LEMMA StockKeepsPapers ==
  ASSUME NEW t, Columns \subseteq DOMAIN t.c, NEW u, After(t, u)
  PROVE  /\ IsTxn(u) /\ (u.ok => t.ok)
         /\ Columns \subseteq DOMAIN u.c
         /\ u.c.status = t.c.status /\ u.c.audit = t.c.audit /\ u.c.appr = t.c.appr
         /\ u.c.lines = t.c.lines /\ u.c.lastLine = t.c.lastLine /\ u.c.numbers = t.c.numbers
         /\ Fit(t.c) => Fit(u.c)
<1>2. SamePapers(t.c, u.c) /\ Columns \subseteq DOMAIN u.c
  BY AfterSamePapers
<1> QED BY <1>2, SamePapersFit DEF Fit, After

\* A store with other numbers, one with other lines, and one with a new line too.
Renumbered(st, numbers) == [st EXCEPT !.numbers = numbers]
Relisted(st, lines) == [st EXCEPT !.lines = lines]
Relined(st, lines, id) == [st EXCEPT !.lines = lines, !.lastLine = id]

LEMMA NumbersForm ==
  ASSUME NEW t, IsTxn(t), NEW f, NEW g, NEW u,
         u = Having(t, Renumbered(t.v, f), Renumbered(t.c, g))
  PROVE  /\ Wrote({"numbers"}, t, u)
         /\ "numbers" \in DOMAIN t.c => u.c.numbers = g
<1>1. PICK v, c : v = [t.v EXCEPT !.numbers = f] /\ c = [t.c EXCEPT !.numbers = g]
  OBVIOUS
<1>2. SameExcept({"numbers"}, t.v, v) /\ SameExcept({"numbers"}, t.c, c)
  BY <1>1 DEF SameExcept
<1>3. {"numbers"} \cap StockFields = {}
  BY DEF StockFields
<1>4. u = Having(t, v, c)
  BY <1>1 DEF Renumbered
<1>5. u.c = c /\ Wrote({"numbers"}, t, u)
  <2>1. PICK F : F = {"numbers"}
    OBVIOUS
  <2>2. u.c = c /\ Wrote(F, t, u)
    <3>1. SameExcept(F, t.v, v) /\ SameExcept(F, t.c, c) /\ F \cap StockFields = {}
      BY <1>2, <1>3, <2>1
    <3> QED BY <1>4, <3>1, WriteForms
  <2> QED BY <2>1, <2>2
<1> QED BY <1>1, <1>5

LEMMA ReleaseNumbersForm ==
  ASSUME NEW t, IsTxn(t), NEW o, NEW ids, NEW u, u = ReleaseNumbers(t, o, ids)
  PROVE  /\ Wrote({"numbers"}, t, u)
         /\ "numbers" \in DOMAIN t.c => u.c.numbers = Freed(t.c.numbers, o, ids)
<1>1. u = Having(t, Renumbered(t.v, Freed(t.v.numbers, o, ids)),
                 Renumbered(t.c, Freed(t.c.numbers, o, ids)))
  BY DEF ReleaseNumbers, Both, Freed, Having, Renumbered
<1>2. PICK f, g : f = Freed(t.v.numbers, o, ids) /\ g = Freed(t.c.numbers, o, ids)
  OBVIOUS
<1>3. /\ Wrote({"numbers"}, t, u)
      /\ "numbers" \in DOMAIN t.c => u.c.numbers = g
  <2>1. u = Having(t, Renumbered(t.v, f), Renumbered(t.c, g))
    BY <1>1, <1>2
  <2> QED BY <2>1, NumbersForm, Zenon
<1> QED BY <1>2, <1>3

LEMMA ReserveNumbersForm ==
  ASSUME NEW t, IsTxn(t), NEW o, NEW line, NEW range, NEW row,
         row = Held(o, line, range),
         NEW u, u = ReserveNumbers(t, o, line, range)
  PROVE  /\ IsTxn(u) /\ (u.ok => t.ok)
         /\ u.ok /\ range = NoRange => u = t
         /\ u.ok /\ range # NoRange =>
               /\ Wrote({"numbers"}, t, u)
               /\ "numbers" \in DOMAIN t.c => u.c.numbers = t.c.numbers \cup {row}
<1>1. PICK w : w = Having(t, Renumbered(t.v, t.v.numbers \cup {row}),
                          Renumbered(t.c, t.c.numbers \cup {row}))
  OBVIOUS
<1>2. /\ Wrote({"numbers"}, t, w)
      /\ "numbers" \in DOMAIN t.c => w.c.numbers = t.c.numbers \cup {row}
  <2>1. PICK f, g : f = t.v.numbers \cup {row} /\ g = t.c.numbers \cup {row}
    OBVIOUS
  <2>2. w = Having(t, Renumbered(t.v, f), Renumbered(t.c, g))
    BY <1>1, <2>1
  <2>3. /\ Wrote({"numbers"}, t, w)
        /\ "numbers" \in DOMAIN t.c => w.c.numbers = g
    BY <2>2, NumbersForm
  <2> QED BY <2>1, <2>3
<1>3. u = IF ~t.ok \/ range = NoRange THEN t
          ELSE IF \E f \in t.c.numbers : f.line = line /\ f.range = range THEN Fail(t) ELSE w
  BY <1>1 DEF ReserveNumbers, Both, Having, Held, Renumbered
<1>4. IsTxn(Fail(t)) /\ ~Fail(t).ok
  BY TxnForms DEF After
<1> QED BY <1>2, <1>3, <1>4 DEF Wrote

LEMMA LinesForm ==
  ASSUME NEW t, IsTxn(t), NEW f, NEW g, NEW u,
         u = Having(t, Relisted(t.v, f), Relisted(t.c, g))
  PROVE  /\ Wrote({"lines"}, t, u)
         /\ "lines" \in DOMAIN t.c => u.c.lines = g
<1>1. PICK v, c : v = [t.v EXCEPT !.lines = f] /\ c = [t.c EXCEPT !.lines = g]
  OBVIOUS
<1>2. SameExcept({"lines"}, t.v, v) /\ SameExcept({"lines"}, t.c, c)
  BY <1>1 DEF SameExcept
<1>3. {"lines"} \cap StockFields = {}
  BY DEF StockFields
<1>4. u = Having(t, v, c)
  BY <1>1 DEF Relisted
<1>5. u.c = c /\ Wrote({"lines"}, t, u)
  <2>1. PICK F : F = {"lines"}
    OBVIOUS
  <2>2. u.c = c /\ Wrote(F, t, u)
    <3>1. SameExcept(F, t.v, v) /\ SameExcept(F, t.c, c) /\ F \cap StockFields = {}
      BY <1>2, <1>3, <2>1
    <3> QED BY <1>4, <3>1, WriteForms
  <2> QED BY <2>1, <2>2
<1> QED BY <1>1, <1>5

LEMMA NewLineForm ==
  ASSUME NEW t, IsTxn(t), NEW f, NEW g, NEW id, NEW u,
         u = Having(t, Relined(t.v, f, id), Relined(t.c, g, id))
  PROVE  /\ Wrote({"lines", "lastLine"}, t, u)
         /\ "lines" \in DOMAIN t.c /\ "lastLine" \in DOMAIN t.c =>
               u.c.lines = g /\ u.c.lastLine = id
<1>1. PICK v, c : /\ v = [t.v EXCEPT !.lines = f, !.lastLine = id]
                  /\ c = [t.c EXCEPT !.lines = g, !.lastLine = id]
  OBVIOUS
<1>2. SameExcept({"lines", "lastLine"}, t.v, v) /\ SameExcept({"lines", "lastLine"}, t.c, c)
  BY <1>1 DEF SameExcept
<1>3. {"lines", "lastLine"} \cap StockFields = {}
  BY DEF StockFields
<1>4. u = Having(t, v, c)
  BY <1>1 DEF Relined
<1>5. u.c = c /\ Wrote({"lines", "lastLine"}, t, u)
  <2>1. PICK F : F = {"lines", "lastLine"}
    OBVIOUS
  <2>2. u.c = c /\ Wrote(F, t, u)
    <3>1. SameExcept(F, t.v, v) /\ SameExcept(F, t.c, c) /\ F \cap StockFields = {}
      BY <1>2, <1>3, <2>1
    <3> QED BY <1>4, <3>1, WriteForms
  <2> QED BY <2>1, <2>2
<1> QED BY <1>1, <1>5

\* What was written in other columns, and nowhere else.
LEMMA WroteColumns ==
  ASSUME NEW t, NEW F, NEW u, Wrote(F, t, u), Columns \subseteq DOMAIN t.c
  PROVE  /\ IsTxn(u) /\ u.ok = t.ok /\ Columns \subseteq DOMAIN u.c
         /\ "status" \notin F => u.c.status = t.c.status
         /\ "audit" \notin F => u.c.audit = t.c.audit
         /\ "appr" \notin F => u.c.appr = t.c.appr
         /\ "lines" \notin F => u.c.lines = t.c.lines
         /\ "lastLine" \notin F => u.c.lastLine = t.c.lastLine
         /\ "numbers" \notin F => u.c.numbers = t.c.numbers
BY DEF Wrote, SameExcept, Columns

-----------------------------------------------------------------------------
(* The lines of an order.                                                  *)

LEMMA AddLineFits ==
  ASSUME NEW t, IsTxn(t), NEW o \in Outbounds, t.ok => Fit(t.c) /\ InForce(o, t.c),
         NEW no, NEW form, NEW kind, NEW n, NEW u, u = AddLine(t, o, no, form, kind, n)
  PROVE  /\ IsTxn(u) /\ (u.ok => t.ok)
         /\ u.ok => Fit(u.c) /\ Extended(o, t.c, u.c)
<1>1. PICK id, line : id = t.c.lastLine + 1 /\ line = OrderLine(id, o, no, form)
  OBVIOUS
<1>2. line.id = id /\ line.doc = o /\ line.range = form.range
  BY <1>1 DEF OrderLine
<1>3. PICK f, g : f = t.v.lines \cup {line} /\ g = t.c.lines \cup {line}
  OBVIOUS
<1>4. PICK w : w = Having(t, Relined(t.v, f, id), Relined(t.c, g, id))
  OBVIOUS
<1>5. /\ Wrote({"lines", "lastLine"}, t, w)
      /\ "lines" \in DOMAIN t.c /\ "lastLine" \in DOMAIN t.c => w.c.lines = g /\ w.c.lastLine = id
  BY <1>4, NewLineForm
<1>6. PICK s : s = SettleConsumerOut(w, Key(kind, o, n, id), o, id, form.qty, form.price)
  OBVIOUS
<1>7. After(w, s)
  BY <1>5, <1>6, SettleAfter DEF SettleConsumerOut, Wrote
<1>8. u = ReserveNumbers(s, o, id, form.range)
  BY <1>1, <1>3, <1>4, <1>6 DEF AddLine, Both, Having, Relined
<1>9. PICK row : row = Held(o, id, form.range)
  OBVIOUS
<1>10. IsTxn(s)
  BY <1>7 DEF After
<1>11. /\ IsTxn(u) /\ (u.ok => s.ok)
       /\ u.ok /\ form.range = NoRange => u = s
       /\ u.ok /\ form.range # NoRange =>
             /\ Wrote({"numbers"}, s, u)
             /\ "numbers" \in DOMAIN s.c => u.c.numbers = s.c.numbers \cup {row}
  BY <1>8, <1>9, <1>10, ReserveNumbersForm
<1>12. u.ok => t.ok
  BY <1>5, <1>7, <1>11 DEF After, Wrote
<1>13. ASSUME u.ok
       PROVE  Fit(u.c) /\ Extended(o, t.c, u.c)
  <2>1. Fit(t.c) /\ t.c.status[o] = "effective" /\ Columns \subseteq DOMAIN t.c
    BY <1>12, <1>13 DEF Fit, Papers, InForce
  <2>2. /\ Columns \subseteq DOMAIN w.c
        /\ w.c.status = t.c.status /\ w.c.audit = t.c.audit /\ w.c.appr = t.c.appr
        /\ w.c.lines = g /\ w.c.lastLine = id /\ w.c.numbers = t.c.numbers
    <3>1. PICK F : F = {"lines", "lastLine"}
      OBVIOUS
    <3>2. Wrote(F, t, w)
      BY <1>5, <3>1
    <3>3. /\ "status" \notin F /\ "audit" \notin F /\ "appr" \notin F /\ "numbers" \notin F
          /\ "lines" \in DOMAIN t.c /\ "lastLine" \in DOMAIN t.c
      BY <2>1, <3>1 DEF Columns
    <3> QED BY <1>5, <2>1, <3>2, <3>3, WroteColumns
  <2>3. /\ Columns \subseteq DOMAIN s.c
        /\ s.c.status = w.c.status /\ s.c.audit = w.c.audit /\ s.c.appr = w.c.appr
        /\ s.c.lines = w.c.lines /\ s.c.lastLine = w.c.lastLine /\ s.c.numbers = w.c.numbers
    BY <1>7, <2>2, StockKeepsPapers
  <2>4. /\ Columns \subseteq DOMAIN u.c
        /\ u.c.status = s.c.status /\ u.c.audit = s.c.audit /\ u.c.appr = s.c.appr
        /\ u.c.lines = s.c.lines /\ u.c.lastLine = s.c.lastLine
        /\ u.c.numbers = IF form.range = NoRange THEN s.c.numbers ELSE s.c.numbers \cup {row}
    <3>1. CASE form.range = NoRange
      BY <1>11, <1>13, <2>3, <3>1
    <3>2. CASE form.range # NoRange
      <4>1. PICK F : F = {"numbers"}
        OBVIOUS
      <4>2. /\ "status" \notin F /\ "audit" \notin F /\ "appr" \notin F /\ "lines" \notin F
            /\ "lastLine" \notin F /\ "numbers" \in DOMAIN s.c
        BY <2>3, <4>1 DEF Columns
      <4>3. Wrote(F, s, u)
        BY <1>11, <1>13, <3>2, <4>1
      <4> QED BY <1>11, <1>13, <2>3, <3>2, <4>2, <4>3, WroteColumns
    <3> QED BY <3>1, <3>2
  <2>5. /\ u.c.status = t.c.status /\ u.c.audit = t.c.audit /\ u.c.appr = t.c.appr
        /\ u.c.lines = t.c.lines \cup {line} /\ u.c.lastLine = line.id
        /\ u.c.numbers = IF line.range = NoRange THEN t.c.numbers ELSE t.c.numbers \cup {row}
    BY <1>2, <1>3, <2>2, <2>3, <2>4
  <2>6. line.id = t.c.lastLine + 1
        /\ row = Held(o, line.id, line.range)
    BY <1>1, <1>2, <1>9
  <2> QED BY <1>2, <2>1, <2>4, <2>5, <2>6, AddFits
<1> QED BY <1>11, <1>12, <1>13

\* Numbers are released and lines are written without touching anything else.
LEMMA FreeForm ==
  ASSUME NEW t, IsTxn(t), NEW o, NEW ids, NEW asked, NEW u,
         u = IF asked THEN ReleaseNumbers(t, o, ids) ELSE t
  PROVE  /\ IsTxn(u) /\ u.ok = t.ok
         /\ Columns \subseteq DOMAIN t.c =>
               /\ Columns \subseteq DOMAIN u.c
               /\ u.c.status = t.c.status /\ u.c.audit = t.c.audit /\ u.c.appr = t.c.appr
               /\ u.c.lines = t.c.lines /\ u.c.lastLine = t.c.lastLine
               /\ u.c.numbers = IF asked THEN Freed(t.c.numbers, o, ids) ELSE t.c.numbers
<1>1. CASE ~asked
  BY <1>1
<1>2. CASE asked
  <2>1. PICK F : F = {"numbers"}
    OBVIOUS
  <2>2. /\ Wrote(F, t, u)
        /\ "numbers" \in DOMAIN t.c => u.c.numbers = Freed(t.c.numbers, o, ids)
    BY <1>2, <2>1, ReleaseNumbersForm
  <2>3. /\ "status" \notin F /\ "audit" \notin F /\ "appr" \notin F /\ "lines" \notin F
        /\ "lastLine" \notin F
        /\ Columns \subseteq DOMAIN t.c => "numbers" \in DOMAIN t.c
    BY <2>1 DEF Columns
  <2>4. IsTxn(u) /\ u.ok = t.ok
    BY <2>2 DEF Wrote
  <2> QED BY <1>2, <2>2, <2>3, <2>4, WroteColumns
<1> QED BY <1>1, <1>2

WithLines(t, f, g) == Having(t, Relisted(t.v, f), Relisted(t.c, g))

LEMMA RelistForm ==
  ASSUME NEW t, IsTxn(t), NEW f, NEW g, NEW u, u = WithLines(t, f, g)
  PROVE  /\ IsTxn(u) /\ u.ok = t.ok
         /\ Columns \subseteq DOMAIN t.c =>
               /\ Columns \subseteq DOMAIN u.c
               /\ u.c.status = t.c.status /\ u.c.audit = t.c.audit /\ u.c.appr = t.c.appr
               /\ u.c.lines = g /\ u.c.lastLine = t.c.lastLine /\ u.c.numbers = t.c.numbers
<1>1. PICK F : F = {"lines"}
  OBVIOUS
<1>2. /\ Wrote(F, t, u)
      /\ "lines" \in DOMAIN t.c => u.c.lines = g
  <2>1. /\ Wrote({"lines"}, t, u)
        /\ "lines" \in DOMAIN t.c => u.c.lines = g
    BY LinesForm DEF WithLines
  <2> QED BY <1>1, <2>1
<1>3. /\ "status" \notin F /\ "audit" \notin F /\ "appr" \notin F /\ "numbers" \notin F
      /\ "lastLine" \notin F
      /\ Columns \subseteq DOMAIN t.c => "lines" \in DOMAIN t.c
  BY <1>1 DEF Columns
<1>4. IsTxn(u) /\ u.ok = t.ok
  BY <1>2 DEF Wrote
<1> QED BY <1>2, <1>3, <1>4, WroteColumns

LEMMA DropLineFits ==
  ASSUME NEW t, IsTxn(t), NEW o, NEW line, t.ok => Fit(t.c) /\ HasLine(o, line, t.c),
         NEW n
  PROVE  LET u == DropLine(t, o, line, n)
         IN  /\ IsTxn(u) /\ (u.ok => t.ok)
             /\ u.ok => Fit(u.c) /\ Lessened(o, line, t.c, u.c)
<1>0. PICK u : u = DropLine(t, o, line, n)
  OBVIOUS
<1>1. PICK s : s = UndoLine(t, o, line.id, "delete", n)
  OBVIOUS
<1>2. After(t, s) /\ IsTxn(s)
  BY <1>1, UndoLineAfter DEF After
<1>3. PICK w : w = IF line.range # NoRange THEN ReleaseNumbers(s, o, {line.id}) ELSE s
  OBVIOUS
<1>4. IsTxn(w) /\ w.ok = s.ok
  BY <1>2, <1>3, FreeForm
<1>5. PICK f, g : f = {l \in w.v.lines : l.id # line.id} /\ g = {l \in w.c.lines : l.id # line.id}
  OBVIOUS
<1>6. PICK x : x = WithLines(w, f, g)
  OBVIOUS
<1>7. IsTxn(x) /\ x.ok = w.ok
  BY <1>4, <1>6, RelistForm
<1>8. u = IF \A l \in t.c.lines : l.id # line.id THEN Fail(t) ELSE x
  BY <1>0, <1>1, <1>3, <1>5, <1>6 DEF DropLine, Both, Having, Relisted, WithLines
<1>9. IsTxn(Fail(t)) /\ ~Fail(t).ok
  BY TxnForms DEF After
<1>10. IsTxn(u) /\ (u.ok => t.ok)
  BY <1>2, <1>4, <1>7, <1>8, <1>9 DEF After
<1>11. ASSUME u.ok
       PROVE  Fit(u.c) /\ Lessened(o, line, t.c, u.c)
  <2>1. u = x /\ Fit(t.c) /\ line \in t.c.lines /\ line.doc = o /\ Columns \subseteq DOMAIN t.c
    BY <1>8, <1>9, <1>10, <1>11 DEF Fit, Papers, HasLine
  <2>2. /\ Columns \subseteq DOMAIN s.c
        /\ s.c.status = t.c.status /\ s.c.audit = t.c.audit /\ s.c.appr = t.c.appr
        /\ s.c.lines = t.c.lines /\ s.c.lastLine = t.c.lastLine /\ s.c.numbers = t.c.numbers
    BY <1>2, <2>1, StockKeepsPapers
  <2>3. /\ Columns \subseteq DOMAIN w.c
        /\ w.c.status = s.c.status /\ w.c.audit = s.c.audit /\ w.c.appr = s.c.appr
        /\ w.c.lines = s.c.lines /\ w.c.lastLine = s.c.lastLine
        /\ w.c.numbers = IF line.range # NoRange THEN Freed(s.c.numbers, o, {line.id})
                         ELSE s.c.numbers
    BY <1>2, <1>3, <2>2, FreeForm
  <2>4. /\ Columns \subseteq DOMAIN x.c
        /\ x.c.status = w.c.status /\ x.c.audit = w.c.audit /\ x.c.appr = w.c.appr
        /\ x.c.lines = g /\ x.c.lastLine = w.c.lastLine /\ x.c.numbers = w.c.numbers
    BY <1>4, <1>6, <2>3, RelistForm
  <2>5. /\ u.c.lines = {l \in t.c.lines : l.id # line.id} /\ u.c.lastLine = t.c.lastLine
        /\ u.c.numbers = IF line.range = NoRange THEN t.c.numbers
                         ELSE Freed(t.c.numbers, o, {line.id})
        /\ Columns \subseteq DOMAIN u.c
        /\ u.c.status = t.c.status /\ u.c.audit = t.c.audit /\ u.c.appr = t.c.appr
    BY <1>5, <2>1, <2>2, <2>3, <2>4
  <2> QED BY <2>1, <2>5, DropFits
<1> QED BY <1>0, <1>10, <1>11

LEMMA KeepLineFits ==
  ASSUME NEW t, IsTxn(t), NEW o, NEW line,
         t.ok => Fit(t.c) /\ InForce(o, t.c) /\ HasLine(o, line, t.c),
         NEW no, NEW form, NEW n
  PROVE  LET u == KeepLine(t, o, no, line, form, n)
         IN  /\ IsTxn(u) /\ (u.ok => t.ok)
             /\ u.ok => Fit(u.c) /\ Replaced(o, line, t.c, u.c)
<1>0. PICK u : u = KeepLine(t, o, no, line, form, n)
  OBVIOUS
<1>1. PICK repost : repost = (line.qty # form.qty \/ line.price # form.price)
  OBVIOUS
<1>2. PICK s : s = IF repost THEN UndoLine(t, o, line.id, "replace", n) ELSE t
  OBVIOUS
<1>3. After(t, s) /\ IsTxn(s)
  <2>1. After(t, s)
    BY <1>2, UndoLineAfter, AfterItself
  <2> QED BY <2>1 DEF After
<1>4. PICK w : w = IF line.range # form.range /\ line.range # NoRange
                   THEN ReleaseNumbers(s, o, {line.id}) ELSE s
  OBVIOUS
<1>5. IsTxn(w) /\ w.ok = s.ok
  BY <1>3, <1>4, FreeForm
<1>6. PICK row : row = OrderLine(line.id, o, no, form)
  OBVIOUS
<1>7. row.id = line.id /\ row.doc = o /\ row.range = form.range
  BY <1>6 DEF OrderLine
<1>8. PICK f, g : /\ f = {l \in w.v.lines : l.id # line.id} \cup {row}
                  /\ g = {l \in w.c.lines : l.id # line.id} \cup {row}
  OBVIOUS
<1>9. PICK x : x = WithLines(w, f, g)
  OBVIOUS
<1>10. IsTxn(x) /\ x.ok = w.ok
  BY <1>5, <1>9, RelistForm
<1>11. PICK z : z = IF repost
                    THEN SettleConsumerOut(x, Key("rev", o, n, line.id), o, line.id,
                                           form.qty, form.price)
                    ELSE x
  OBVIOUS
<1>12. After(x, z) /\ IsTxn(z)
  <2>1. After(x, z)
    BY <1>10, <1>11, SettleAfter, AfterItself DEF SettleConsumerOut
  <2> QED BY <2>1 DEF After
<1>13. PICK y : y = ReserveNumbers(z, o, line.id, form.range)
  OBVIOUS
<1>14. PICK held : held = Held(o, line.id, form.range)
  OBVIOUS
<1>15. /\ IsTxn(y) /\ (y.ok => z.ok)
       /\ y.ok /\ form.range = NoRange => y = z
       /\ y.ok /\ form.range # NoRange =>
             /\ Wrote({"numbers"}, z, y)
             /\ "numbers" \in DOMAIN z.c => y.c.numbers = z.c.numbers \cup {held}
  BY <1>12, <1>13, <1>14, ReserveNumbersForm
<1>16. u = IF \A l \in t.c.lines : l.id # line.id THEN Fail(t)
           ELSE IF line.range # form.range THEN y ELSE z
  BY <1>0, <1>1, <1>2, <1>4, <1>6, <1>8, <1>9, <1>11, <1>13 DEF KeepLine, Both, Having, Relisted, WithLines
<1>17. IsTxn(Fail(t)) /\ ~Fail(t).ok
  BY TxnForms DEF After
<1>18. IsTxn(u) /\ (u.ok => t.ok)
  <2>1. (z.ok => t.ok) /\ (y.ok => t.ok)
    BY <1>3, <1>5, <1>10, <1>12, <1>15 DEF After
  <2> QED BY <1>12, <1>15, <1>16, <1>17, <2>1
<1>19. ASSUME u.ok
       PROVE  Fit(u.c) /\ Replaced(o, line, t.c, u.c)
  <2>1. /\ u = IF line.range # form.range THEN y ELSE z
        /\ Fit(t.c) /\ line \in t.c.lines /\ line.doc = o /\ t.c.status[o] = "effective"
        /\ Columns \subseteq DOMAIN t.c
    BY <1>16, <1>17, <1>18, <1>19 DEF Fit, Papers, HasLine, InForce
  <2>2. /\ Columns \subseteq DOMAIN s.c
        /\ s.c.status = t.c.status /\ s.c.audit = t.c.audit /\ s.c.appr = t.c.appr
        /\ s.c.lines = t.c.lines /\ s.c.lastLine = t.c.lastLine /\ s.c.numbers = t.c.numbers
    BY <1>3, <2>1, StockKeepsPapers
  <2>3. /\ Columns \subseteq DOMAIN w.c
        /\ w.c.status = s.c.status /\ w.c.audit = s.c.audit /\ w.c.appr = s.c.appr
        /\ w.c.lines = s.c.lines /\ w.c.lastLine = s.c.lastLine
        /\ w.c.numbers = IF line.range # form.range /\ line.range # NoRange
                         THEN Freed(s.c.numbers, o, {line.id}) ELSE s.c.numbers
    BY <1>3, <1>4, <2>2, FreeForm
  <2>4. /\ Columns \subseteq DOMAIN x.c
        /\ x.c.status = w.c.status /\ x.c.audit = w.c.audit /\ x.c.appr = w.c.appr
        /\ x.c.lines = g /\ x.c.lastLine = w.c.lastLine /\ x.c.numbers = w.c.numbers
    BY <1>5, <1>9, <2>3, RelistForm
  <2>5. /\ Columns \subseteq DOMAIN z.c
        /\ z.c.status = x.c.status /\ z.c.audit = x.c.audit /\ z.c.appr = x.c.appr
        /\ z.c.lines = x.c.lines /\ z.c.lastLine = x.c.lastLine /\ z.c.numbers = x.c.numbers
    BY <1>12, <2>4, StockKeepsPapers
  <2>6. /\ Columns \subseteq DOMAIN u.c
        /\ u.c.status = z.c.status /\ u.c.audit = z.c.audit /\ u.c.appr = z.c.appr
        /\ u.c.lines = z.c.lines /\ u.c.lastLine = z.c.lastLine
        /\ u.c.numbers = IF line.range # form.range /\ form.range # NoRange
                         THEN z.c.numbers \cup {held} ELSE z.c.numbers
    <3>1. CASE ~(line.range # form.range /\ form.range # NoRange)
      BY <1>15, <1>19, <2>1, <2>5, <3>1
    <3>2. CASE line.range # form.range /\ form.range # NoRange
      <4>1. PICK F : F = {"numbers"}
        OBVIOUS
      <4>2. /\ "status" \notin F /\ "audit" \notin F /\ "appr" \notin F /\ "lines" \notin F
            /\ "lastLine" \notin F /\ "numbers" \in DOMAIN z.c
        BY <2>5, <4>1 DEF Columns
      <4>3. Wrote(F, z, u) /\ u.c.numbers = z.c.numbers \cup {held}
        BY <1>15, <1>19, <2>1, <3>2, <4>1, <4>2
      <4> QED BY <2>5, <3>2, <4>2, <4>3, WroteColumns
    <3> QED BY <3>1, <3>2
  <2>7. /\ u.c.lines = LinesKept(t.c.lines, line, row) /\ u.c.lastLine = t.c.lastLine
        /\ u.c.numbers = NumbersKept(t.c.numbers, o, line, row)
    BY <1>7, <1>8, <1>14, <2>2, <2>3, <2>4, <2>5, <2>6 DEF LinesKept, NumbersKept, NumbersFreed
  <2>8. /\ Fit(t.c) /\ HasLine(o, line, t.c) /\ InForce(o, t.c)
        /\ u.c.status = t.c.status /\ u.c.audit = t.c.audit /\ u.c.appr = t.c.appr
    BY <2>1, <2>2, <2>3, <2>4, <2>5, <2>6 DEF HasLine, InForce
  <2> QED BY <1>7, <2>6, <2>7, <2>8, KeepFits
<1> QED BY <1>0, <1>18, <1>19

LEMMA RewrittenTwice ==
  ASSUME NEW o, NEW a, NEW b, NEW c, Rewritten(o, a, b), Rewritten(o, b, c)
  PROVE  Rewritten(o, a, c)
BY DEF Rewritten

LEMMA RewrittenItself == \A o, a : Rewritten(o, a, a)
BY DEF Rewritten

\* Lines are added one after the other.
AddStep(o, form, c, d, e, acc, i) == AddLine(acc, o, i, form[i], "line", 0)
LinesAdded(o, form, c, d, e, base, k, acc) ==
    /\ IsTxn(acc)
    /\ acc.ok => base.ok /\ Fit(acc.c) /\ Rewritten(o, base.c, acc.c)
Adds == INSTANCE FoldInduction WITH Step <- AddStep, Final <- Max, Holds <- LinesAdded

LEMMA AddsFit ==
  ASSUME NEW o \in Outbounds, NEW form, NEW n \in Nat, DOMAIN form = 1..n,
         NEW t, IsTxn(t), t.ok => Fit(t.c) /\ InForce(o, t.c),
         NEW seq, seq = [i \in 1..n |-> i], NEW u, u = Adds!OverSeq(o, form, 0, 0, 0, t, seq)
  PROVE  /\ IsTxn(u) /\ (u.ok => t.ok)
         /\ u.ok => Fit(u.c) /\ Rewritten(o, t.c, u.c)
<1>2. DOMAIN seq = 1..n /\ \A k \in 1..n : seq[k] = k
  OBVIOUS
<1>3. LinesAdded(o, form, 0, 0, 0, t, 0, t)
  BY RewrittenItself DEF LinesAdded
<1>4. ASSUME NEW k \in 1..n, NEW acc, LinesAdded(o, form, 0, 0, 0, t, k - 1, acc)
      PROVE  LinesAdded(o, form, 0, 0, 0, t, k, AddStep(o, form, 0, 0, 0, acc, seq[k]))
  <2>1. PICK w : w = AddLine(acc, o, k, form[k], "line", 0)
    OBVIOUS
  <2>2. IsTxn(acc) /\ (acc.ok => /\ t.ok /\ Fit(acc.c) /\ Rewritten(o, t.c, acc.c)
                                 /\ InForce(o, acc.c))
    BY <1>4 DEF LinesAdded, Rewritten, InForce
  <2>3. /\ IsTxn(w) /\ (w.ok => acc.ok)
        /\ w.ok => Fit(w.c) /\ Rewritten(o, acc.c, w.c)
    BY <2>1, <2>2, AddLineFits DEF Extended
  <2>4. w = AddStep(o, form, 0, 0, 0, acc, seq[k])
    BY <1>2, <2>1 DEF AddStep
  <2>5. LinesAdded(o, form, 0, 0, 0, t, k, w)
    BY <2>2, <2>3, RewrittenTwice DEF LinesAdded
  <2> QED BY <2>4, <2>5
<1>5. LinesAdded(o, form, 0, 0, 0, t, n, Adds!OverSeq(o, form, 0, 0, 0, t, seq))
  <2>1. \A k \in 1..n : \A acc :
            LinesAdded(o, form, 0, 0, 0, t, k - 1, acc)
              => LinesAdded(o, form, 0, 0, 0, t, k, AddStep(o, form, 0, 0, 0, acc, seq[k]))
    BY <1>4
  <2>2. Adds!Founded(1..n) /\ Adds!Latest(n)
    BY PositionsFounded DEF Adds!Founded, Adds!Latest
  <2> QED BY <1>2, <1>3, <2>1, <2>2, Adds!SeqInduction
<1> QED BY <1>5 DEF LinesAdded

\* The lines that an edit does not name are dropped, oldest first.
LineOf(v, o, id) == LineById(v, id) \in v.lines /\ LineById(v, id).id = id /\ LineById(v, id).doc = o

LEMMA LinesOfIds ==
  ASSUME NEW v, NEW o, NEW id \in {l.id : l \in LinesOf(v, o)},
         \A l, m \in v.lines : l.id = m.id => l = m
  PROVE  LineOf(v, o, id)
<1>1. PICK l \in v.lines : l.id = id /\ l.doc = o
  BY DEF LinesOf
<1>2. LineById(v, id) \in v.lines /\ LineById(v, id).id = id
  BY <1>1 DEF LineById
<1> QED BY <1>1, <1>2 DEF LineOf

DropStep(o, n, v, d, e, acc, id) == DropLine(acc, o, LineById(v, id), n)
LinesDropped(o, n, v, d, e, base, K, acc) ==
    /\ IsTxn(acc)
    /\ acc.ok =>
          /\ base.ok /\ Fit(acc.c) /\ Rewritten(o, base.c, acc.c)
          /\ \A l \in v.lines : l.doc = o /\ l.id \notin K => l \in acc.c.lines
Drops == INSTANCE FoldInduction WITH Step <- DropStep, Final <- Max, Holds <- LinesDropped

LEMMA DropsOne ==
  ASSUME NEW o, NEW n, NEW v, NEW base, NEW T, NEW id \in T, LineOf(v, o, id), NEW acc,
         LinesDropped(o, n, v, 0, 0, base, T \ {id}, acc)
  PROVE  LinesDropped(o, n, v, 0, 0, base, T, DropStep(o, n, v, 0, 0, acc, id))
<1>1. PICK line : line = LineById(v, id)
  OBVIOUS
<1>2. line \in v.lines /\ line.id = id /\ line.doc = o
  BY <1>1 DEF LineOf
<1>3. IsTxn(acc) /\ (acc.ok => Fit(acc.c) /\ HasLine(o, line, acc.c))
  BY <1>2 DEF LinesDropped, HasLine
<1>4. PICK w : w = DropLine(acc, o, line, n)
  OBVIOUS
<1>5. /\ IsTxn(w) /\ (w.ok => acc.ok)
      /\ w.ok => Fit(w.c) /\ Lessened(o, line, acc.c, w.c)
  BY <1>3, <1>4, DropLineFits
<1>6. w.ok => \A l \in v.lines : l.doc = o /\ l.id \notin T => l \in w.c.lines
  BY <1>2, <1>5 DEF LinesDropped, Lessened
<1>7. w.ok => base.ok /\ Rewritten(o, base.c, w.c)
  BY <1>5, RewrittenTwice DEF LinesDropped, Lessened
<1>8. LinesDropped(o, n, v, 0, 0, base, T, w)
  BY <1>5, <1>6, <1>7 DEF LinesDropped
<1> QED BY <1>1, <1>4, <1>8 DEF DropStep

LEMMA DropsFit ==
  ASSUME NEW o, NEW n, NEW v, NEW S, IsFiniteSet(S), S \subseteq Nat,
         \A id \in S : LineOf(v, o, id),
         NEW t, IsTxn(t),
         t.ok => Fit(t.c) /\ \A l \in v.lines : l.doc = o => l \in t.c.lines
  PROVE  LinesDropped(o, n, v, 0, 0, t, S, Drops!Over(o, n, v, 0, 0, t, S))
<1>1. \A T \in SUBSET S : T # {} => Max(T) \in T
  BY LastOfSome, FS_Subset
<1>2. LinesDropped(o, n, v, 0, 0, t, {}, t)
  BY RewrittenItself DEF LinesDropped
<1>3. \A T \in SUBSET S : \A acc :
          T # {} /\ LinesDropped(o, n, v, 0, 0, t, T \ {Max(T)}, acc)
            => LinesDropped(o, n, v, 0, 0, t, T, DropStep(o, n, v, 0, 0, acc, Max(T)))
  BY <1>1, DropsOne
<1>4. Drops!Founded(S)
  BY FiniteFounded DEF Drops!Founded
<1> QED BY <1>1, <1>2, <1>3, <1>4, Drops!Induction

\* Then the lines of the edit are written, each in its place.
WriteStep(o, n, v, ids, form, acc, i) ==
    IF ids[i] = 0 THEN AddLine(acc, o, i, form[i], "rev", n)
    ELSE KeepLine(acc, o, i, LineById(v, ids[i]), form[i], n)
LinesWritten(o, n, v, ids, form, base, k, acc) ==
    /\ IsTxn(acc)
    /\ acc.ok =>
          /\ base.ok /\ Fit(acc.c) /\ Rewritten(o, base.c, acc.c)
          /\ \A i \in DOMAIN ids : i > k /\ ids[i] # 0 => LineById(v, ids[i]) \in acc.c.lines
Writes == INSTANCE FoldInduction WITH Step <- WriteStep, Final <- Max, Holds <- LinesWritten

LEMMA WritesOne ==
  ASSUME NEW o \in Outbounds, NEW n, NEW v, NEW m \in Nat, NEW ids, DOMAIN ids = 1..m, NEW form,
         \A i \in 1..m : ids[i] # 0 => LineOf(v, o, ids[i]),
         \A i, j \in 1..m : ids[i] = ids[j] /\ ids[i] # 0 => i = j,
         NEW base, base.ok => InForce(o, base.c),
         NEW k \in 1..m, NEW acc, LinesWritten(o, n, v, ids, form, base, k - 1, acc)
  PROVE  LinesWritten(o, n, v, ids, form, base, k, WriteStep(o, n, v, ids, form, acc, k))
<1>1. IsTxn(acc) /\ (acc.ok => base.ok /\ Fit(acc.c) /\ InForce(o, acc.c))
  BY DEF LinesWritten, Rewritten, InForce
<1>2. PICK w : w = WriteStep(o, n, v, ids, form, acc, k)
  OBVIOUS
<1>3. acc.ok => \A i \in 1..m : i > k - 1 /\ ids[i] # 0 => LineById(v, ids[i]) \in acc.c.lines
  BY DEF LinesWritten
<1>4. \A i \in 1..m : i > k => i > k - 1
  OBVIOUS
<1>5. /\ IsTxn(w) /\ (w.ok => acc.ok)
      /\ w.ok => /\ Fit(w.c) /\ Rewritten(o, acc.c, w.c)
                 /\ \A i \in 1..m : i > k /\ ids[i] # 0 => LineById(v, ids[i]) \in w.c.lines
  <2>1. CASE ids[k] = 0
    <3>1. w = AddLine(acc, o, k, form[k], "rev", n)
      BY <1>2, <2>1 DEF WriteStep
    <3>2. /\ IsTxn(w) /\ (w.ok => acc.ok)
          /\ w.ok => Fit(w.c) /\ Extended(o, acc.c, w.c)
      BY <1>1, <3>1, AddLineFits
    <3> QED BY <1>3, <1>4, <3>2 DEF Extended
  <2>2. CASE ids[k] # 0
    <3>1. PICK line : line = LineById(v, ids[k])
      OBVIOUS
    <3>2. w = KeepLine(acc, o, k, line, form[k], n)
      BY <1>2, <2>2, <3>1 DEF WriteStep
    <3>3. line.doc = o /\ line.id = ids[k]
      BY <2>2, <3>1 DEF LineOf
    <3>4. acc.ok => line \in acc.c.lines
      <4>1. k > k - 1
        OBVIOUS
      <4> QED BY <1>3, <2>2, <3>1, <4>1
    <3>5. /\ IsTxn(w) /\ (w.ok => acc.ok)
          /\ w.ok => Fit(w.c) /\ Replaced(o, line, acc.c, w.c)
      <4>1. acc.ok => Fit(acc.c) /\ InForce(o, acc.c) /\ HasLine(o, line, acc.c)
        BY <1>1, <3>3, <3>4 DEF HasLine
      <4> QED BY <1>1, <3>2, <4>1, KeepLineFits
    <3>6. \A i \in 1..m : i > k /\ ids[i] # 0 => LineById(v, ids[i]) # line
      BY <2>2, <3>3 DEF LineOf
    <3> QED BY <1>3, <1>4, <3>5, <3>6 DEF Replaced
  <2> QED BY <2>1, <2>2
<1>6. w.ok => base.ok /\ Rewritten(o, base.c, w.c)
  BY <1>1, <1>5, RewrittenTwice DEF LinesWritten
<1>7. LinesWritten(o, n, v, ids, form, base, k, w)
  BY <1>5, <1>6 DEF LinesWritten
<1> QED BY <1>2, <1>7

LEMMA WritesFit ==
  ASSUME NEW o \in Outbounds, NEW n, NEW v, NEW m \in Nat, NEW ids, DOMAIN ids = 1..m, NEW form,
         \A i \in 1..m : ids[i] # 0 => LineOf(v, o, ids[i]),
         \A i, j \in 1..m : ids[i] = ids[j] /\ ids[i] # 0 => i = j,
         NEW t, IsTxn(t),
         t.ok => /\ Fit(t.c) /\ InForce(o, t.c)
                 /\ \A i \in 1..m : ids[i] # 0 => LineById(v, ids[i]) \in t.c.lines,
         NEW seq, seq = [i \in 1..m |-> i]
  PROVE  LinesWritten(o, n, v, ids, form, t, m, Writes!OverSeq(o, n, v, ids, form, t, seq))
<1>1. DOMAIN seq = 1..m /\ \A k \in 1..m : seq[k] = k
  OBVIOUS
<1>2. LinesWritten(o, n, v, ids, form, t, 0, t)
  BY RewrittenItself DEF LinesWritten
<1>3. \A k \in 1..m : \A acc :
          LinesWritten(o, n, v, ids, form, t, k - 1, acc)
            => LinesWritten(o, n, v, ids, form, t, k, WriteStep(o, n, v, ids, form, acc, seq[k]))
  BY <1>1, WritesOne
<1>4. Writes!Founded(1..m) /\ Writes!Latest(m)
  BY PositionsFounded DEF Writes!Founded, Writes!Latest
<1> QED BY <1>1, <1>2, <1>3, <1>4, Writes!SeqInduction

-----------------------------------------------------------------------------
(* The bodies.  Each of them writes the lifecycle, the audit snapshot and  *)
(* the lines of its own document only.                                     *)

Approved(d, st) ==
    /\ st.appr[d] = st.audit[d]
    /\ (st.appr[d] = "NOT_REQUIRED") <=> (st.status[d] = "voided")

Touches(d, a, b) ==
    /\ \A x \in Docs : x # d =>
          b.status[x] = a.status[x] /\ b.audit[x] = a.audit[x] /\ b.appr[x] = a.appr[x]
    /\ \A l : l.doc # d => (l \in b.lines <=> l \in a.lines)
    /\ Approved(d, b) /\ b.status[d] # "none"

SameLines(a, b) == b.lines = a.lines /\ b.lastLine = a.lastLine /\ b.numbers = a.numbers
SameHeads(a, b) == b.status = a.status /\ b.audit = a.audit /\ b.appr = a.appr

\* A document without lines, or one that stays in force.
LEMMA HeadFits ==
  ASSUME NEW a, Fit(a), NEW d \in Docs, NEW s, NEW x,
         \A l \in a.lines : l.doc = d => (s = "effective" /\ InForce(d, a)),
         s # "none", (x = "NOT_REQUIRED") <=> (s = "voided"),
         NEW b, Columns \subseteq DOMAIN b, Headed(d, s, x, a, b), SameLines(a, b)
  PROVE  Fit(b) /\ Touches(d, a, b)
<1>1. Papers(a) /\ Numbered(a)
  BY DEF Fit
<1>2. /\ DOMAIN b.status = Docs /\ DOMAIN b.audit = Docs /\ DOMAIN b.appr = Docs
      /\ b.status[d] = s /\ b.audit[d] = x /\ b.appr[d] = x
      /\ \A y \in Docs : y # d =>
            b.status[y] = a.status[y] /\ b.audit[y] = a.audit[y] /\ b.appr[y] = a.appr[y]
  BY <1>1 DEF Papers, Headed
<1>3. Papers(b)
  BY <1>1, <1>2 DEF Papers, SameLines
<1>4. \A l \in a.lines : b.status[l.doc] = "effective" <=> a.status[l.doc] = "effective"
  BY <1>1, <1>2 DEF Papers, InForce, Docs
<1>5. Numbered(b)
  BY <1>1, <1>4 DEF Numbered, SameLines
<1>6. Touches(d, a, b)
  BY <1>2 DEF Touches, Approved, SameLines
<1> QED BY <1>3, <1>5, <1>6 DEF Fit

\* An order that is closed with all of its numbers released.
LEMMA CloseFits ==
  ASSUME NEW a, Fit(a), NEW d \in Docs,
         NEW b, Columns \subseteq DOMAIN b, Headed(d, "voided", "NOT_REQUIRED", a, b),
         b.lines = a.lines, b.lastLine = a.lastLine,
         b.numbers = Freed(a.numbers, d, 1..a.lastLine)
  PROVE  Fit(b) /\ Touches(d, a, b)
<1>1. Papers(a) /\ Numbered(a)
  BY DEF Fit
<1>2. /\ DOMAIN b.status = Docs /\ DOMAIN b.audit = Docs /\ DOMAIN b.appr = Docs
      /\ b.status[d] = "voided" /\ b.audit[d] = "NOT_REQUIRED" /\ b.appr[d] = "NOT_REQUIRED"
      /\ \A y \in Docs : y # d =>
            b.status[y] = a.status[y] /\ b.audit[y] = a.audit[y] /\ b.appr[y] = a.appr[y]
  BY <1>1 DEF Papers, Headed
<1>3. /\ \A f \in b.numbers : DOMAIN f = {"doc", "line", "range", "held"}
      /\ \A f \in b.numbers : f.held => f \in a.numbers /\ ~(f.doc = d /\ f.line \in 1..a.lastLine)
      /\ \A f \in a.numbers : f.doc # d => f \in b.numbers
  BY <1>1, FreedRows DEF Papers
<1>4. Papers(b)
  BY <1>1, <1>2, <1>3 DEF Papers
<1>5. \A l \in a.lines : l.doc \in Docs
  BY <1>1 DEF Papers, Docs
<1>6. Numbered(b)
  <2>1. ASSUME NEW f \in b.numbers, f.held
        PROVE  \E l \in b.lines : Owns(l, f) /\ b.status[l.doc] = "effective" /\ l.range # NoRange
    <3>1. PICK l \in a.lines : Owns(l, f) /\ a.status[l.doc] = "effective" /\ l.range # NoRange
      BY <1>1, <1>3, <2>1 DEF Numbered
    <3>2. l.doc # d
      BY <1>1, <1>3, <2>1, <3>1 DEF Owns, Papers
    <3> QED BY <1>2, <1>5, <3>1, <3>2
  <2>2. ASSUME NEW l \in b.lines, b.status[l.doc] = "effective", l.range # NoRange
        PROVE  \E f \in b.numbers : f.held /\ Owns(l, f)
    <3>1. l \in a.lines /\ l.doc # d
      BY <1>2, <2>2
    <3>2. a.status[l.doc] = "effective"
      BY <1>2, <1>5, <2>2, <3>1
    <3>3. PICK f \in a.numbers : f.held /\ Owns(l, f)
      BY <1>1, <2>2, <3>1, <3>2 DEF Numbered
    <3>4. f \in b.numbers
      BY <1>3, <3>1, <3>3 DEF Owns
    <3> QED BY <3>3, <3>4
  <2> QED BY <2>1, <2>2 DEF Numbered
<1>7. Touches(d, a, b)
  BY <1>2 DEF Touches, Approved
<1> QED BY <1>4, <1>6, <1>7 DEF Fit

\* The audit of a document is opened again.
AuditOpened(d, a, b) ==
    /\ b.status = a.status
    /\ b.audit = [a.audit EXCEPT ![d] = "PENDING"]
    /\ b.appr = [a.appr EXCEPT ![d] = "PENDING"]

\* An order whose lines were rewritten, with its audit opened again.
LEMMA ReopenFits ==
  ASSUME NEW o \in Docs, NEW a, Papers(a), NEW m, Fit(m), Rewritten(o, a, m), InForce(o, m),
         NEW b, Columns \subseteq DOMAIN b, SameLines(m, b), AuditOpened(o, m, b)
  PROVE  Fit(b) /\ Touches(o, a, b)
<1>1. Papers(m) /\ Numbered(m)
  BY DEF Fit
<1>2. /\ DOMAIN b.audit = Docs /\ DOMAIN b.appr = Docs
      /\ b.audit[o] = "PENDING" /\ b.appr[o] = "PENDING"
      /\ \A y \in Docs : y # o => b.audit[y] = m.audit[y] /\ b.appr[y] = m.appr[y]
  BY <1>1 DEF Papers, AuditOpened
<1>3. Papers(b)
  BY <1>1, <1>2 DEF Papers, SameLines, AuditOpened
<1>4. Numbered(b)
  BY <1>1 DEF Numbered, SameLines, AuditOpened
<1>5. Touches(o, a, b)
  BY <1>2 DEF Touches, Approved, SameLines, Rewritten, InForce, AuditOpened
<1> QED BY <1>3, <1>4, <1>5 DEF Fit

LEMMA FileShape ==
  ASSUME NEW t, IsTxn(t), Columns \subseteq DOMAIN t.c, NEW d, NEW s, NEW x
  PROVE  LET u == File(t, d, s, x)
         IN  /\ IsTxn(u) /\ u.ok = t.ok /\ Columns \subseteq DOMAIN u.c
             /\ Headed(d, s, x, t.c, u.c) /\ SameLines(t.c, u.c)
<1>1. PICK u : u = File(t, d, s, x)
  OBVIOUS
<1>2. Filed \subseteq DOMAIN t.c
  BY DEF Filed, Columns
<1>3. Wrote(Filed, t, u) /\ Headed(d, s, x, t.c, u.c)
  BY <1>1, <1>2, FileForm
<1>4. "lines" \notin Filed /\ "lastLine" \notin Filed /\ "numbers" \notin Filed
  BY DEF Filed
<1> QED BY <1>1, <1>3, <1>4, WroteColumns DEF SameLines

LEMMA EnterShape ==
  ASSUME NEW t, IsTxn(t), Columns \subseteq DOMAIN t.c, NEW d, NEW order, NEW line, NEW qty
  PROVE  LET u == Enter(t, d, order, line, qty)
         IN  /\ IsTxn(u) /\ u.ok = t.ok /\ Columns \subseteq DOMAIN u.c
             /\ SameHeads(t.c, u.c) /\ SameLines(t.c, u.c)
<1>1. PICK u : u = Enter(t, d, order, line, qty)
  OBVIOUS
<1>2. PICK row : row = [order |-> order, line |-> line, qty |-> qty]
  OBVIOUS
<1>3. PICK v, c : v = [t.v EXCEPT !.entry[d] = row] /\ c = [t.c EXCEPT !.entry[d] = row]
  OBVIOUS
<1>4. PICK F : F = {"entry"}
  OBVIOUS
<1>5. SameExcept(F, t.v, v) /\ SameExcept(F, t.c, c)
  BY <1>3, <1>4 DEF SameExcept
<1>6. F \cap StockFields = {}
  BY <1>4 DEF StockFields
<1>7. u = Having(t, v, c)
  BY <1>1, <1>2, <1>3 DEF Enter, Both, Having
<1>8. Wrote(F, t, u)
  BY <1>5, <1>6, <1>7, WriteForms
<1>9. /\ "status" \notin F /\ "audit" \notin F /\ "appr" \notin F
      /\ "lines" \notin F /\ "lastLine" \notin F /\ "numbers" \notin F
  BY <1>4
<1> QED BY <1>1, <1>8, <1>9, WroteColumns DEF SameHeads, SameLines

LEMMA StockShape ==
  ASSUME NEW t, NEW u, After(t, u), Columns \subseteq DOMAIN t.c
  PROVE  /\ IsTxn(u) /\ (u.ok => t.ok) /\ Columns \subseteq DOMAIN u.c
         /\ SameHeads(t.c, u.c) /\ SameLines(t.c, u.c)
BY StockKeepsPapers DEF SameHeads, SameLines

LEMMA HeadedThenSame ==
  ASSUME NEW d, NEW s, NEW x, NEW a, NEW b, NEW c
  PROVE  /\ Headed(d, s, x, a, b) /\ SameHeads(b, c) => Headed(d, s, x, a, c)
         /\ SameHeads(a, b) /\ Headed(d, s, x, b, c) => Headed(d, s, x, a, c)
         /\ SameHeads(a, b) /\ SameHeads(b, c) => SameHeads(a, c)
         /\ SameLines(a, b) /\ SameLines(b, c) => SameLines(a, c)
BY DEF Headed, SameHeads, SameLines

\* What a body leaves when it returns.
Done(d, t, u) == IsTxn(u) /\ Fit(u.c) /\ Touches(d, t.c, u.c)

LEMMA ReceiptCreateDone ==
  ASSUME NEW t, IsTxn(t), Fit(t.c), NEW q, q.doc \in Docs, q.doc \notin Outbounds
  PROVE  ReceiptCreate(t, q).ok => Done(q.doc, t, ReceiptCreate(t, q))
<1>1. PICK x : x = Posting(Key("line", q.doc, 0, 0), q.doc, 0, q.qty, q.price, TRUE, <<>>)
  OBVIOUS
<1>2. "id" \in DOMAIN x
  BY <1>1 DEF Posting
<1>3. Columns \subseteq DOMAIN t.c /\ \A l \in t.c.lines : l.doc # q.doc
  BY DEF Fit, Papers
<1>4. PICK f : f = File(t, q.doc, "effective", "PENDING")
  OBVIOUS
<1>5. /\ IsTxn(f) /\ Columns \subseteq DOMAIN f.c
      /\ Headed(q.doc, "effective", "PENDING", t.c, f.c) /\ SameLines(t.c, f.c)
  BY <1>3, <1>4, FileShape
<1>6. PICK e : e = Enter(f, q.doc, NoOrder, 0, q.qty)
  OBVIOUS
<1>7. IsTxn(e) /\ Columns \subseteq DOMAIN e.c /\ SameHeads(f.c, e.c) /\ SameLines(f.c, e.c)
  BY <1>5, <1>6, EnterShape
<1>8. PICK u : u = IncreaseStock(e, x)
  OBVIOUS
<1>9. After(e, u)
  BY <1>2, <1>7, <1>8, IncreaseStockAfter
<1>10. IsTxn(u) /\ Columns \subseteq DOMAIN u.c /\ SameHeads(e.c, u.c) /\ SameLines(e.c, u.c)
  BY <1>7, <1>9, StockShape
<1>11. Headed(q.doc, "effective", "PENDING", t.c, u.c) /\ SameLines(t.c, u.c)
  BY <1>5, <1>7, <1>10, HeadedThenSame
<1>12. Fit(u.c) /\ Touches(q.doc, t.c, u.c)
  BY <1>3, <1>10, <1>11, HeadFits
<1> QED BY <1>1, <1>4, <1>6, <1>8, <1>10, <1>12 DEF Done, ReceiptCreate

\* A document without lines is closed after some stock commands.
LEMMA ClosedDone ==
  ASSUME NEW t, Fit(t.c), NEW d \in Docs, d \notin Outbounds, NEW w, After(t, w)
  PROVE  Done(d, t, Close(w, d))
<1>1. Columns \subseteq DOMAIN t.c /\ \A l \in t.c.lines : l.doc # d
  BY DEF Fit, Papers
<1>2. IsTxn(w) /\ Columns \subseteq DOMAIN w.c /\ SameHeads(t.c, w.c) /\ SameLines(t.c, w.c)
  BY <1>1, StockShape
<1>3. PICK u : u = Close(w, d)
  OBVIOUS
<1>4. /\ IsTxn(u) /\ Columns \subseteq DOMAIN u.c
      /\ Headed(d, "voided", "NOT_REQUIRED", w.c, u.c) /\ SameLines(w.c, u.c)
  BY <1>2, <1>3, FileShape DEF Close
<1>5. Headed(d, "voided", "NOT_REQUIRED", t.c, u.c) /\ SameLines(t.c, u.c)
  BY <1>2, <1>4, HeadedThenSame
<1>6. Fit(u.c) /\ Touches(d, t.c, u.c)
  BY <1>1, <1>4, <1>5, HeadFits
<1> QED BY <1>3, <1>4, <1>6 DEF Done

LEMMA NotOk == ASSUME NEW t, IsTxn(t) PROVE ~Fail(t).ok
BY TxnForms

LEMMA ReceiptVoidDone ==
  ASSUME NEW t, IsTxn(t), Fit(t.c), NEW q, q.doc \in Docs, q.doc \notin Outbounds
  PROVE  ReceiptVoid(t, q).ok => Done(q.doc, t, ReceiptVoid(t, q))
<1>1. Done(q.doc, t, Close(ReverseDocument(t, q.doc), q.doc))
  BY ReverseDocumentAfter, ClosedDone
<1> QED BY <1>1, NotOk DEF ReceiptVoid

LEMMA OrderCreateDone ==
  ASSUME NEW t, IsTxn(t), Fit(t.c), NEW q, q.doc \in Outbounds,
         \A l \in t.c.lines : l.doc # q.doc, NEW n \in Nat, DOMAIN q.form = 1..n
  PROVE  OrderCreate(t, q).ok => Done(q.doc, t, OrderCreate(t, q))
<1>1. PICK o, form : o = q.doc /\ form = q.form
  OBVIOUS
<1>2. Columns \subseteq DOMAIN t.c /\ o \in Docs
  BY <1>1 DEF Fit, Papers, Docs
<1>3. PICK f : f = File(t, o, "effective", "PENDING")
  OBVIOUS
<1>4. /\ IsTxn(f) /\ Columns \subseteq DOMAIN f.c
      /\ Headed(o, "effective", "PENDING", t.c, f.c) /\ SameLines(t.c, f.c)
  BY <1>2, <1>3, FileShape
<1>5. Fit(f.c) /\ Touches(o, t.c, f.c)
  BY <1>1, <1>2, <1>4, HeadFits
<1>6. f.c.status[o] = "effective" /\ f.c.audit[o] = "PENDING"
  BY <1>2, <1>4 DEF Headed, Fit, Papers
<1>7. PICK seq : seq = [i \in 1..n |-> i]
  OBVIOUS
<1>8. PICK u : u = Adds!OverSeq(o, form, 0, 0, 0, f, seq)
  OBVIOUS
<1>9. /\ IsTxn(u)
      /\ u.ok => Fit(u.c) /\ Rewritten(o, f.c, u.c)
  BY <1>1, <1>4, <1>5, <1>6, <1>7, <1>8, AddsFit DEF InForce
<1>10. u.ok => Touches(o, t.c, u.c)
  BY <1>5, <1>9 DEF Touches, Rewritten, Approved
<1>11. u = OrderCreate(t, q)
  BY <1>1, <1>3, <1>7, <1>8 DEF OrderCreate, Adds!OverSeq, AddStep, FoldLeft,
         MapThenFoldSet, Adds!MapThenFoldSet
<1> QED BY <1>1, <1>9, <1>10, <1>11 DEF Done

LEMMA OrderVoidDone ==
  ASSUME NEW t, IsTxn(t), Fit(t.c), NEW q, q.doc \in Docs
  PROVE  OrderVoid(t, q).ok => Done(q.doc, t, OrderVoid(t, q))
<1>1. PICK o : o = q.doc
  OBVIOUS
<1>2. Columns \subseteq DOMAIN t.c
  BY DEF Fit, Papers
<1>3. PICK w : w = ReverseDocument(ReleaseAllSourceUsages(t, o), o)
  OBVIOUS
<1>4. After(t, w)
  <2>1. PICK x : x = ReleaseAllSourceUsages(t, o)
    OBVIOUS
  <2>2. After(t, x) /\ IsTxn(x)
    BY <2>1, ReleaseAllSourceUsagesAfter DEF After
  <2> QED BY <1>3, <2>1, <2>2, ReverseDocumentAfter, AfterAfter
<1>5. IsTxn(w) /\ Columns \subseteq DOMAIN w.c /\ SameHeads(t.c, w.c) /\ SameLines(t.c, w.c)
  BY <1>2, <1>4, StockShape
<1>6. PICK ids : ids = 1..t.c.lastLine
  OBVIOUS
<1>7. PICK f : f = ReleaseNumbers(w, o, ids)
  OBVIOUS
<1>8. /\ IsTxn(f) /\ Columns \subseteq DOMAIN f.c
      /\ f.c.status = w.c.status /\ f.c.audit = w.c.audit /\ f.c.appr = w.c.appr
      /\ f.c.lines = w.c.lines /\ f.c.lastLine = w.c.lastLine
      /\ f.c.numbers = Freed(w.c.numbers, o, ids)
  <2>1. PICK yes : yes = TRUE
    OBVIOUS
  <2>2. f = IF yes THEN ReleaseNumbers(w, o, ids) ELSE w
    BY <1>7, <2>1
  <2> QED BY <1>5, <2>1, <2>2, FreeForm
<1>9. PICK u : u = Close(f, o)
  OBVIOUS
<1>10. /\ IsTxn(u) /\ Columns \subseteq DOMAIN u.c
       /\ Headed(o, "voided", "NOT_REQUIRED", f.c, u.c) /\ SameLines(f.c, u.c)
  BY <1>8, <1>9, FileShape DEF Close
<1>11. /\ Headed(o, "voided", "NOT_REQUIRED", t.c, u.c)
       /\ u.c.lines = t.c.lines /\ u.c.lastLine = t.c.lastLine
       /\ u.c.numbers = Freed(t.c.numbers, o, 1..t.c.lastLine)
  BY <1>5, <1>6, <1>8, <1>10 DEF Headed, SameHeads, SameLines
<1>12. Fit(u.c) /\ Touches(o, t.c, u.c)
  BY <1>1, <1>10, <1>11, CloseFits
<1>13. OrderVoid(t, q) = Fail(t) \/ OrderVoid(t, q) = u
  BY <1>1, <1>3, <1>6, <1>7, <1>9 DEF OrderVoid
<1> QED BY <1>1, <1>10, <1>12, <1>13, NotOk DEF Done

\* What an edit knows of the lines that its request names.
Editable(o, v, c) ==
    Papers(v) /\ LinesOf(v, o) = LinesOf(c, o)
NamedOnce(ids, n) ==
    /\ DOMAIN ids = 1..n
    /\ \A i, j \in 1..n : ids[i] = ids[j] /\ ids[i] # 0 => i = j

Reopened(st, o) ==
    [st EXCEPT !.rev[o] = @ + 1, !.audit[o] = "PENDING", !.appr[o] = "PENDING"]

LEMMA ReopenShape ==
  ASSUME NEW t, IsTxn(t), NEW o
  PROVE  LET u == Having(t, Reopened(t.v, o), Reopened(t.c, o))
         IN  /\ IsTxn(u) /\ u.ok = t.ok
             /\ Columns \subseteq DOMAIN t.c =>
                   Columns \subseteq DOMAIN u.c /\ SameLines(t.c, u.c) /\ AuditOpened(o, t.c, u.c)
<1>0. PICK u : u = Having(t, Reopened(t.v, o), Reopened(t.c, o))
  OBVIOUS
<1>1. PICK v, c : v = Reopened(t.v, o) /\ c = Reopened(t.c, o)
  OBVIOUS
<1>2. PICK F : F = {"rev", "audit", "appr"}
  OBVIOUS
<1>3. SameExcept(F, t.v, v) /\ SameExcept(F, t.c, c)
  BY <1>1, <1>2 DEF SameExcept, Reopened
<1>4. F \cap StockFields = {}
  BY <1>2 DEF StockFields
<1>5. u.c = c /\ Wrote(F, t, u)
  BY <1>0, <1>1, <1>3, <1>4, WriteForms
<1>6. "status" \notin F /\ "lines" \notin F /\ "lastLine" \notin F /\ "numbers" \notin F
  BY <1>2
<1>7. Columns \subseteq DOMAIN t.c =>
          /\ u.c.audit = [t.c.audit EXCEPT ![o] = "PENDING"]
          /\ u.c.appr = [t.c.appr EXCEPT ![o] = "PENDING"]
  BY <1>1, <1>5 DEF Reopened, Columns
<1>8. IsTxn(u) /\ u.ok = t.ok
  BY <1>5 DEF Wrote
<1> QED BY <1>0, <1>5, <1>6, <1>7, <1>8, WroteColumns DEF SameLines, AuditOpened

LEMMA UpdateUnfolds ==
  ASSUME NEW t, NEW q
  PROVE  LET own == {l.id : l \in LinesOf(t.v, q.doc)}
             named == Range(q.ids) \ {0}
             x == Drops!Over(q.doc, NextRevision(q), t.v, 0, 0, t, own \ named)
             w == Writes!OverSeq(q.doc, NextRevision(q), t.v, q.ids, q.form, x,
                                 [i \in DOMAIN q.form |-> i])
         IN  OrderUpdate(t, q) = IF ~(named \subseteq own) THEN Fail(t)
                                 ELSE Having(w, Reopened(w.v, q.doc), Reopened(w.c, q.doc))
BY DEF OrderUpdate, Both, Having, Reopened, Drops!Over, DropStep, OldestFirst, InOrder, MapThenFoldSet,
         Drops!MapThenFoldSet, Writes!OverSeq, WriteStep, FoldLeft, Writes!MapThenFoldSet

LEMMA OrderUpdateDone ==
  ASSUME NEW t, IsTxn(t), Fit(t.c), NEW q, q.doc \in Outbounds, InForce(q.doc, t.c),
         Editable(q.doc, t.v, t.c), NEW m \in Nat, NamedOnce(q.ids, m), DOMAIN q.form = 1..m
  PROVE  OrderUpdate(t, q).ok => Done(q.doc, t, OrderUpdate(t, q))
<1>1. PICK o, form, ids, n, v : /\ o = q.doc /\ form = q.form /\ ids = q.ids
                                /\ n = NextRevision(q) /\ v = t.v
  OBVIOUS
<1>2. PICK named, own : /\ named = Range(ids) \ {0}
                        /\ own = {l.id : l \in LinesOf(v, o)}
  OBVIOUS
<1>3. PICK S : S = own \ named
  OBVIOUS
<1>4. PICK x : x = Drops!Over(o, n, v, 0, 0, t, S)
  OBVIOUS
<1>5. PICK seq : seq = [i \in DOMAIN form |-> i]
  OBVIOUS
<1>6. PICK w : w = Writes!OverSeq(o, n, v, ids, form, x, seq)
  OBVIOUS
<1>7. PICK u : u = Having(w, Reopened(w.v, o), Reopened(w.c, o))
  OBVIOUS
<1>8. OrderUpdate(t, q) = IF ~(named \subseteq own) THEN Fail(t) ELSE u
  BY <1>1, <1>2, <1>3, <1>4, <1>5, <1>6, <1>7, UpdateUnfolds
<1>9. Papers(v) /\ \A l : l.doc = o => (l \in v.lines <=> l \in t.c.lines)
  BY <1>1 DEF Editable, LinesOf
<1>10. \A id \in own : LineOf(v, o, id)
  BY <1>2, <1>9, LinesOfIds DEF Papers
<1>11. IsFiniteSet(S) /\ S \subseteq Nat
  <2>1. IsFiniteSet(LinesOf(v, o))
    BY <1>9, FS_Subset DEF Papers, LinesOf
  <2>2. PICK f : f = [l \in LinesOf(v, o) |-> l.id]
    OBVIOUS
  <2>3. IsFiniteSet({f[l] : l \in LinesOf(v, o)})
    BY <2>1, <2>2, FiniteImage
  <2>4. {f[l] : l \in LinesOf(v, o)} = own
    BY <1>2, <2>2
  <2>5. own \subseteq Nat
    BY <1>2, <1>9 DEF Papers, LinesOf
  <2> QED BY <1>3, <2>3, <2>4, <2>5, FS_Subset
<1>12. LinesDropped(o, n, v, 0, 0, t, S, x)
  BY <1>3, <1>4, <1>9, <1>10, <1>11, DropsFit
<1>13. CASE named \subseteq own
  <2>1. o \in Outbounds /\ DOMAIN ids = 1..m /\ DOMAIN form = 1..m
        /\ \A i, j \in 1..m : ids[i] = ids[j] /\ ids[i] # 0 => i = j
    BY <1>1 DEF NamedOnce
  <2>2. \A i \in 1..m : ids[i] # 0 => ids[i] \in named
    BY <1>2, <2>1 DEF Range
  <2>3. \A i \in 1..m : ids[i] # 0 => LineOf(v, o, ids[i])
    BY <1>10, <1>13, <2>2
  <2>4. IsTxn(x) /\ (x.ok => Fit(x.c) /\ Rewritten(o, t.c, x.c))
    BY <1>12 DEF LinesDropped
  <2>5. x.ok => \A i \in 1..m : ids[i] # 0 => LineById(v, ids[i]) \in x.c.lines
    BY <1>3, <1>12, <2>2, <2>3 DEF LinesDropped, LineOf
  <2>6. InForce(o, t.c)
    BY <1>1
  <2>7. x.ok => InForce(o, x.c)
    BY <2>4, <2>6 DEF Rewritten, InForce
  <2>8. seq = [i \in 1..m |-> i]
    BY <1>5, <2>1
  <2>9. LinesWritten(o, n, v, ids, form, x, m, w)
    BY <1>6, <2>1, <2>3, <2>4, <2>5, <2>7, <2>8, WritesFit
  <2>10. /\ IsTxn(w)
         /\ w.ok => Fit(w.c) /\ Rewritten(o, t.c, w.c) /\ InForce(o, w.c)
    <3>1. w.ok => x.ok /\ Fit(w.c) /\ Rewritten(o, x.c, w.c)
      BY <2>9 DEF LinesWritten
    <3>2. w.ok => Rewritten(o, t.c, w.c)
      BY <2>4, <3>1, RewrittenTwice
    <3>3. w.ok => InForce(o, w.c)
      BY <2>6, <3>2 DEF Rewritten, InForce
    <3>4. IsTxn(w)
      BY <2>9 DEF LinesWritten
    <3> QED BY <3>1, <3>2, <3>3, <3>4
  <2>11. w.ok => Columns \subseteq DOMAIN w.c
    BY <2>10 DEF Fit, Papers
  <2>12. /\ u.ok = w.ok /\ IsTxn(u)
         /\ w.ok => Columns \subseteq DOMAIN u.c /\ SameLines(w.c, u.c) /\ AuditOpened(o, w.c, u.c)
    BY <1>7, <2>10, <2>11, ReopenShape
  <2>13. o \in Docs /\ Papers(t.c)
    BY <2>1 DEF Docs, Fit
  <2>14. u.ok => Fit(u.c) /\ Touches(o, t.c, u.c)
    BY <2>10, <2>12, <2>13, ReopenFits
  <2> QED BY <1>1, <1>8, <1>13, <2>12, <2>14 DEF Done
<1>14. CASE ~(named \subseteq own)
  BY <1>8, <1>14, NotOk
<1> QED BY <1>13, <1>14

\* What a return gives back, layer by layer, and what its void takes again.
GiveStep(o, line, c, d, e, acc, id) ==
    LET row == acc.t.v.usage[<<o, line, id>>]
        give == Min({acc.left, row.alloc - row.rel})
    IN  IF acc.left = 0 THEN acc
        ELSE [t |-> ReleaseInventorySource(acc.t, <<o, line, id>>, row.rel + give),
              left |-> acc.left - give,
              pieces |-> Put(acc.pieces, id, give)]
Gives == INSTANCE FoldInduction WITH Step <- GiveStep, Final <- Max, Holds <- StaysAfterT

LEMMA GivesAfter ==
  ASSUME NEW o, NEW line, NEW base, IsTxn(base.t), NEW S, IsFiniteSet(S), S \subseteq Nat
  PROVE  After(base.t, Gives!Over(o, line, 0, 0, 0, base, S).t)
<1>1. \A T \in SUBSET S : T # {} => Max(T) \in T
  BY LastOfSome, FS_Subset
<1>2. StaysAfterT(o, line, 0, 0, 0, base, {}, base)
  BY AfterItself DEF StaysAfterT
<1>3. ASSUME NEW acc, NEW id, After(base.t, acc.t)
      PROVE  After(base.t, GiveStep(o, line, 0, 0, 0, acc, id).t)
  <2>1. IsTxn(acc.t)
    BY <1>3 DEF After
  <2>2. PICK key, row, give : /\ key = <<o, line, id>>
                              /\ row = acc.t.v.usage[key]
                              /\ give = Min({acc.left, row.alloc - row.rel})
    OBVIOUS
  <2>3. After(base.t, ReleaseInventorySource(acc.t, key, row.rel + give))
    BY <1>3, <2>1, ReleaseAfter, AfterAfter
  <2>4. \/ GiveStep(o, line, 0, 0, 0, acc, id) = acc
        \/ GiveStep(o, line, 0, 0, 0, acc, id).t = ReleaseInventorySource(acc.t, key, row.rel + give)
    BY <2>2 DEF GiveStep
  <2> QED BY <1>3, <2>3, <2>4
<1>4. \A T \in SUBSET S : \A acc :
          T # {} /\ StaysAfterT(o, line, 0, 0, 0, base, T \ {Max(T)}, acc)
            => StaysAfterT(o, line, 0, 0, 0, base, T, GiveStep(o, line, 0, 0, 0, acc, Max(T)))
  BY <1>3 DEF StaysAfterT
<1>5. Gives!Founded(S)
  BY FiniteFounded DEF Gives!Founded
<1>6. StaysAfterT(o, line, 0, 0, 0, base, S, Gives!Over(o, line, 0, 0, 0, base, S))
  BY <1>1, <1>2, <1>4, <1>5, Gives!Induction
<1> QED BY <1>6 DEF StaysAfterT

LEMMA ReleaseForReturnAfter ==
  ASSUME NEW t, IsTxn(t), NEW o, NEW line, NEW qty
  PROVE  After(t, ReleaseForReturn(t, o, line, qty).t)
<1>1. PICK S : S = {k[3] : k \in LineUsages(t.v, o, line)}
  OBVIOUS
<1>2. IsFiniteSet(S) /\ S \subseteq Nat
  <2>1. LineUsages(t.v, o, line) \subseteq DOMAIN t.v.usage /\ IsStore(t.v)
    BY DEF LineUsages, IsTxn
  <2> QED BY <1>1, <2>1, LayersOfKeys
<1>3. PICK base : base = [t |-> t, left |-> qty, pieces |-> <<>>]
  OBVIOUS
<1>4. base.t = t
  BY <1>3
<1>5. After(t, Gives!Over(o, line, 0, 0, 0, base, S).t)
  BY <1>2, <1>4, GivesAfter
<1>6. ReleaseForReturn(t, o, line, qty) = Gives!Over(o, line, 0, 0, 0, base, S)
  BY <1>1, <1>3 DEF ReleaseForReturn, Gives!Over, GiveStep, OldestFirst, InOrder,
                    MapThenFoldSet, Gives!MapThenFoldSet
<1> QED BY <1>5, <1>6

RestoreStep(from, pieces, usage, d, e, acc, id) ==
    ReleaseInventorySource(acc, <<from.order, from.line, id>>,
                           usage[<<from.order, from.line, id>>].rel - pieces[id])
Restores == INSTANCE FoldInduction WITH Step <- RestoreStep, Final <- Pick, Holds <- StaysAfter

LEMMA RestoresAfter ==
  ASSUME NEW t, IsTxn(t), NEW from, NEW pieces, NEW usage, NEW K, IsFiniteSet(K)
  PROVE  After(t, Restores!Over(from, pieces, usage, 0, 0, t, K))
<1>1. \A T \in SUBSET K : T # {} => Pick(T) \in T
  BY DEF Pick
<1>2. StaysAfter(from, pieces, usage, 0, 0, t, {}, t)
  BY AfterItself DEF StaysAfter
<1>3. ASSUME NEW acc, NEW id, After(t, acc)
      PROVE  After(t, RestoreStep(from, pieces, usage, 0, 0, acc, id))
  <2>1. PICK key, target : /\ key = <<from.order, from.line, id>>
                           /\ target = usage[key].rel - pieces[id]
    OBVIOUS
  <2>2. After(acc, ReleaseInventorySource(acc, key, target))
    BY <1>3, ReleaseAfter DEF After
  <2> QED BY <1>3, <2>1, <2>2, AfterAfter DEF RestoreStep
<1>4. \A T \in SUBSET K : \A acc :
          T # {} /\ StaysAfter(from, pieces, usage, 0, 0, t, T \ {Pick(T)}, acc)
            => StaysAfter(from, pieces, usage, 0, 0, t, T,
                          RestoreStep(from, pieces, usage, 0, 0, acc, Pick(T)))
  BY <1>3 DEF StaysAfter
<1>5. Restores!Founded(K)
  BY FiniteFounded DEF Restores!Founded
<1>6. StaysAfter(from, pieces, usage, 0, 0, t, K, Restores!Over(from, pieces, usage, 0, 0, t, K))
  BY <1>1, <1>2, <1>4, <1>5, Restores!Induction
<1> QED BY <1>6 DEF StaysAfter

LEMMA RestoreForReturnVoidAfter ==
  ASSUME NEW t, IsTxn(t), NEW from, NEW pieces
  PROVE  After(t, RestoreForReturnVoid(t, from, pieces))
<1>1. CASE \A id \in DOMAIN pieces : <<from.order, from.line, id>> \in DOMAIN t.v.usage
  <2>1. PICK K : K = {k[3] : k \in DOMAIN t.v.usage}
    OBVIOUS
  <2>2. IsFiniteSet(K)
    BY <2>1, LayersOfKeys DEF IsTxn
  <2>3. ASSUME NEW id \in DOMAIN pieces
        PROVE  id \in K
    <3>1. PICK key : key = <<from.order, from.line, id>>
      OBVIOUS
    <3>2. key \in DOMAIN t.v.usage
      BY <1>1, <2>3, <3>1
    <3>3. key[3] = id
      BY <3>1
    <3> QED BY <2>1, <3>2, <3>3
  <2>4. IsFiniteSet(DOMAIN pieces)
    BY <2>2, <2>3, FS_Subset
  <2>5. After(t, Restores!Over(from, pieces, t.v.usage, 0, 0, t, DOMAIN pieces))
    BY <2>4, RestoresAfter
  <2>6. \/ RestoreForReturnVoid(t, from, pieces) = Fail(t)
        \/ RestoreForReturnVoid(t, from, pieces)
              = Restores!Over(from, pieces, t.v.usage, 0, 0, t, DOMAIN pieces)
    BY DEF RestoreForReturnVoid, Restores!Over, RestoreStep, FoldSet, MapThenFoldSet,
           Restores!MapThenFoldSet, Pick
  <2> QED BY <2>5, <2>6, TxnForms
<1>2. CASE ~\A id \in DOMAIN pieces : <<from.order, from.line, id>> \in DOMAIN t.v.usage
  <2>1. RestoreForReturnVoid(t, from, pieces) = Fail(t)
    BY <1>2 DEF RestoreForReturnVoid
  <2> QED BY <2>1, TxnForms
<1> QED BY <1>1, <1>2

LEMMA ReturnCreateDone ==
  ASSUME NEW t, IsTxn(t), Fit(t.c), NEW q, q.doc \in Docs, q.doc \notin Outbounds
  PROVE  ReturnCreate(t, q).ok => Done(q.doc, t, ReturnCreate(t, q))
<1>1. Columns \subseteq DOMAIN t.c /\ \A l \in t.c.lines : l.doc # q.doc
  BY DEF Fit, Papers
<1>2. PICK f : f = File(t, q.doc, "effective", "PENDING")
  OBVIOUS
<1>3. /\ IsTxn(f) /\ Columns \subseteq DOMAIN f.c
      /\ Headed(q.doc, "effective", "PENDING", t.c, f.c) /\ SameLines(t.c, f.c)
  BY <1>1, <1>2, FileShape
<1>4. PICK e : e = Enter(f, q.doc, q.order, q.line, q.qty)
  OBVIOUS
<1>5. IsTxn(e) /\ Columns \subseteq DOMAIN e.c /\ SameHeads(f.c, e.c) /\ SameLines(f.c, e.c)
  BY <1>3, <1>4, EnterShape
<1>6. ASSUME NEW u, After(e, u)
      PROVE  Done(q.doc, t, u)
  <2>1. IsTxn(u) /\ Columns \subseteq DOMAIN u.c /\ SameHeads(e.c, u.c) /\ SameLines(e.c, u.c)
    BY <1>5, <1>6, StockShape
  <2>2. Headed(q.doc, "effective", "PENDING", t.c, u.c) /\ SameLines(t.c, u.c)
    BY <1>3, <1>5, <2>1, HeadedThenSame
  <2>3. Fit(u.c) /\ Touches(q.doc, t.c, u.c)
    BY <1>1, <2>1, <2>2, HeadFits
  <2> QED BY <2>1, <2>3 DEF Done
<1>7. PICK given : given = ReleaseForReturn(e, q.order, q.line, q.qty)
  OBVIOUS
<1>8. After(e, given.t) /\ IsTxn(given.t)
  <2>1. After(e, given.t)
    BY <1>5, <1>7, ReleaseForReturnAfter
  <2> QED BY <2>1 DEF After
<1>9. PICK x, y :
          /\ x = Posting(Key("line", q.doc, 0, 0), q.doc, 0, q.qty, q.price, TRUE, <<>>)
          /\ y = Posting(Key("line", q.doc, 0, 0), q.doc, 0, q.qty, q.price, FALSE, given.pieces)
  OBVIOUS
<1>10. "id" \in DOMAIN x /\ "id" \in DOMAIN y
  BY <1>9 DEF Posting
<1>11. After(e, IncreaseStock(e, x))
  BY <1>5, <1>10, IncreaseStockAfter
<1>12. After(e, IncreaseStock(given.t, y))
  BY <1>8, <1>10, IncreaseStockAfter, AfterAfter
<1>13. \/ ReturnCreate(t, q) = Fail(t)
       \/ ReturnCreate(t, q) = IncreaseStock(e, x)
       \/ ReturnCreate(t, q) = IncreaseStock(given.t, y)
  BY <1>2, <1>4, <1>7, <1>9 DEF ReturnCreate
<1> QED BY <1>6, <1>11, <1>12, <1>13, NotOk

LEMMA ReturnVoidDone ==
  ASSUME NEW t, IsTxn(t), Fit(t.c), NEW q, q.doc \in Docs, q.doc \notin Outbounds
  PROVE  ReturnVoid(t, q).ok => Done(q.doc, t, ReturnVoid(t, q))
<1>1. PICK from, logs : from = t.v.entry[q.doc] /\ logs = OriginalLogs(t.v, q.doc)
  OBVIOUS
<1>2. PICK pieces : pieces = (CHOOSE l \in logs : TRUE).pieces
  OBVIOUS
<1>3. PICK w : w = IF from.order = NoOrder THEN t ELSE RestoreForReturnVoid(t, from, pieces)
  OBVIOUS
<1>4. After(t, w) /\ IsTxn(w)
  <2>1. After(t, w)
    BY <1>3, RestoreForReturnVoidAfter, AfterItself
  <2> QED BY <2>1 DEF After
<1>5. After(t, ReverseDocument(w, q.doc))
  BY <1>4, ReverseDocumentAfter, AfterAfter
<1>6. Done(q.doc, t, Close(ReverseDocument(w, q.doc), q.doc))
  BY <1>5, ClosedDone
<1>7. \/ ReturnVoid(t, q) = Fail(t)
      \/ ReturnVoid(t, q) = Close(ReverseDocument(w, q.doc), q.doc)
  BY <1>1, <1>2, <1>3 DEF ReturnVoid
<1> QED BY <1>6, <1>7, NotOk

-----------------------------------------------------------------------------
(* The inductive invariant.                                                *)

\* The documents of a store, with their lines, numbers and approvals.
Kept(st) ==
    /\ IsStore(st) /\ Fit(st)
    /\ \A d \in Docs : Approved(d, st)
    /\ \A l \in st.lines : st.status[l.doc] # "none"

\* A request is for a document of its kind, in the state that it needs.
Placed(q, st) ==
    /\ q.op \in {"receipt", "unreceipt"} => q.doc \in Receipts
    /\ q.op \in {"return", "unreturn"} => q.doc \in Returns
    /\ q.op \in {"order", "edit", "unorder"} => q.doc \in Outbounds
    /\ q.op = "order" => q.form \in OrderForms /\ st.status[q.doc] = "none"
    /\ q.op = "edit" => /\ q.form \in OrderForms /\ NamedOnce(q.ids, Len(q.form))
                        /\ InForce(q.doc, st)

\* No two requests are for one document, and the snapshot of each has the lines
\* of its document as they are.
Requests ==
    /\ \A p \in Procs : req[p] # Idle => Placed(req[p], db)
    /\ \A p, r \in Procs : p # r /\ req[p] # Idle /\ req[r] # Idle => req[p].doc # req[r].doc
    /\ \A p \in Procs : view[p] # Idle =>
          req[p] # Idle /\ IsStore(view[p]) /\ Editable(req[p].doc, view[p], db)

Known ==
    /\ Kept(db) /\ Requests
    /\ DOMAIN req = Procs /\ DOMAIN view = Procs

LEMMA InitKnown == Init => Known
<1> SUFFICES ASSUME Init PROVE Known
  OBVIOUS
<1>1. /\ Columns \subseteq DOMAIN db /\ StockFields \subseteq DOMAIN db
      /\ db.logs = {} /\ db.usage = <<>> /\ db.lines = {} /\ db.numbers = {} /\ db.lastLine = 0
      /\ db.status = [d \in Docs |-> "none"]
      /\ db.audit = [d \in Docs |-> "NONE"] /\ db.appr = [d \in Docs |-> "NONE"]
  BY DEF Init, Columns, StockFields
<1>2. IsFiniteSet({}) /\ DOMAIN <<>> = {}
  BY FS_EmptySet
<1>3. IsStore(db)
  BY <1>1, <1>2 DEF IsStore
<1>4. Papers(db)
  BY <1>1, <1>2 DEF Papers
<1>5. Numbered(db)
  BY <1>1 DEF Numbered
<1>6. \A d \in Docs : Approved(d, db)
  BY <1>1 DEF Approved
<1>7. Kept(db)
  BY <1>1, <1>3, <1>4, <1>5, <1>6 DEF Kept, Fit
<1>8. /\ DOMAIN req = Procs /\ DOMAIN view = Procs
      /\ \A p \in Procs : req[p] = Idle /\ view[p] = Idle
  BY DEF Init
<1> QED BY <1>7, <1>8 DEF Known, Requests

LEMMA OpenKeeps ==
  ASSUME Known, NEW p \in Procs, NEW q, Placed(q, db),
         \A other \in InFlight : q.doc # other.doc, Open(p, q)
  PROVE  Known'
<1>1. /\ req[p] = Idle /\ db' = db /\ view' = view /\ DOMAIN req' = Procs
      /\ req'[p] = q /\ \A r \in Procs : r # p => req'[r] = req[r]
  BY DEF Open, Known
<1>2. \A r \in Procs : req[r] # Idle => q.doc # req[r].doc
  BY DEF InFlight
<1>3. view[p] = Idle
  BY <1>1 DEF Known, Requests
<1>4. \A r \in Procs : req'[r] # Idle => Placed(req'[r], db)
  BY <1>1 DEF Known, Requests
<1>5. \A x, r \in Procs : x # r /\ req'[x] # Idle /\ req'[r] # Idle => req'[x].doc # req'[r].doc
  BY <1>1, <1>2 DEF Known, Requests
<1>6. \A r \in Procs : view[r] # Idle =>
          req'[r] # Idle /\ IsStore(view[r]) /\ Editable(req'[r].doc, view[r], db)
  BY <1>1, <1>3 DEF Known, Requests
<1> QED BY <1>1, <1>4, <1>5, <1>6 DEF Known, Requests

LEMMA BeginKeeps ==
  ASSUME Known, NEW p \in Procs, Begin(p)
  PROVE  Known'
<1>1. /\ req[p] # Idle /\ db' = db /\ req' = req /\ DOMAIN view' = Procs
      /\ view'[p] = db /\ \A r \in Procs : r # p => view'[r] = view[r]
  BY DEF Begin, Known
<1>2. IsStore(db) /\ Editable(req[p].doc, db, db)
  BY DEF Known, Kept, Fit, Editable
<1>3. \A r \in Procs : view'[r] # Idle =>
          req[r] # Idle /\ IsStore(view'[r]) /\ Editable(req[r].doc, view'[r], db)
  BY <1>1, <1>2 DEF Known, Requests
<1> QED BY <1>1, <1>3 DEF Known, Requests

\* What a request needs of other documents than the one that is written.
LEMMA TouchesOthers ==
  ASSUME NEW d, NEW a, NEW b, Touches(d, a, b), NEW q, q.doc # d
  PROVE  /\ Placed(q, a) => Placed(q, b)
         /\ \A v : Editable(q.doc, v, a) => Editable(q.doc, v, b)
<1>1. Outbounds \subseteq Docs
  BY DEF Docs
<1>2. q.doc \in Docs => b.status[q.doc] = a.status[q.doc]
  BY DEF Touches
<1>3. LinesOf(b, q.doc) = LinesOf(a, q.doc)
  BY DEF Touches, LinesOf
<1>4. Placed(q, a) => Placed(q, b)
  BY <1>1, <1>2 DEF Placed, InForce
<1> QED BY <1>3, <1>4 DEF Editable

LEMMA LeaveKeeps ==
  ASSUME Known, NEW p \in Procs, Leave(p), Kept(db'),
         \A q : q.doc # req[p].doc =>
             /\ Placed(q, db) => Placed(q, db')
             /\ \A v : Editable(q.doc, v, db) => Editable(q.doc, v, db'),
         req[p] # Idle
  PROVE  Known'
<1>1. /\ DOMAIN req' = Procs /\ DOMAIN view' = Procs
      /\ req'[p] = Idle /\ view'[p] = Idle
      /\ \A r \in Procs : r # p => req'[r] = req[r] /\ view'[r] = view[r]
  BY DEF Leave, Known
<1>2. \A r \in Procs : r # p /\ req[r] # Idle => req[r].doc # req[p].doc
  BY DEF Known, Requests
<1>3. \A r \in Procs : req'[r] # Idle => Placed(req'[r], db')
  BY <1>1, <1>2 DEF Known, Requests
<1>4. \A x, r \in Procs : x # r /\ req'[x] # Idle /\ req'[r] # Idle => req'[x].doc # req'[r].doc
  BY <1>1 DEF Known, Requests
<1>5. \A r \in Procs : view'[r] # Idle =>
          req'[r] # Idle /\ IsStore(view'[r]) /\ Editable(req'[r].doc, view'[r], db')
  BY <1>1, <1>2 DEF Known, Requests
<1> QED BY <1>1, <1>3, <1>4, <1>5 DEF Known, Requests

LEMMA RollbackKeeps ==
  ASSUME Known, NEW p \in Procs, Rollback(p)
  PROVE  Known'
BY LeaveKeeps DEF Rollback, Known

\* The transaction that a request works on.
Opened(p) == [v |-> view[p], c |-> db, ok |-> TRUE, dup |-> FALSE]

LEMMA OpenedIsTxn ==
  ASSUME Known, NEW p \in Procs, view[p] # Idle
  PROVE  /\ IsTxn(Opened(p)) /\ Fit(Opened(p).c)
         /\ Opened(p).v = view[p] /\ Opened(p).c = db
BY DEF Known, Requests, Kept, IsTxn, Opened

LEMMA CommitKeeps ==
  ASSUME Known, NEW p \in Procs, view[p] # Idle, Leave(p), NEW u,
         Done(req[p].doc, Opened(p), u), db' = u.c
  PROVE  Known'
<1>1. PICK d : d = req[p].doc
  OBVIOUS
<1>2. IsStore(u.c) /\ Fit(u.c) /\ Touches(d, db, u.c)
  BY <1>1, OpenedIsTxn DEF Done, IsTxn
<1>3. \A x \in Docs : Approved(x, u.c)
  BY <1>2 DEF Known, Kept, Touches, Approved
<1>4. \A l \in u.c.lines : u.c.status[l.doc] # "none"
  <2>1. \A l \in u.c.lines : l.doc \in Docs
    BY <1>2 DEF Fit, Papers, Docs
  <2>2. \A l \in u.c.lines : l.doc # d => l \in db.lines
    BY <1>2 DEF Touches
  <2> QED BY <1>2, <2>1, <2>2 DEF Known, Kept, Touches
<1>5. Kept(db')
  BY <1>2, <1>3, <1>4 DEF Kept
<1>6. \A q : q.doc # req[p].doc =>
             /\ Placed(q, db) => Placed(q, db')
             /\ \A v : Editable(q.doc, v, db) => Editable(q.doc, v, db')
  BY <1>1, <1>2, TouchesOthers
<1>7. req[p] # Idle
  BY DEF Known, Requests
<1> QED BY <1>5, <1>6, <1>7, LeaveKeeps

LEMMA FormLength ==
  ASSUME SalesAssumption, NEW form \in OrderForms
  PROVE  Len(form) \in Nat /\ DOMAIN form = 1..Len(form)
BY DEF SalesAssumption

LEMMA BodiesDone ==
  ASSUME Known, SalesAssumption, NEW p \in Procs, view[p] # Idle,
         NEW t, t = Opened(p), NEW q, q = req[p]
  PROVE  /\ q.op = "receipt" /\ ReceiptCreate(t, q).ok => Done(q.doc, t, ReceiptCreate(t, q))
         /\ q.op = "unreceipt" /\ ReceiptVoid(t, q).ok => Done(q.doc, t, ReceiptVoid(t, q))
         /\ q.op = "order" /\ OrderCreate(t, q).ok => Done(q.doc, t, OrderCreate(t, q))
         /\ q.op = "edit" /\ OrderUpdate(t, q).ok => Done(q.doc, t, OrderUpdate(t, q))
         /\ q.op = "unorder" /\ OrderVoid(t, q).ok => Done(q.doc, t, OrderVoid(t, q))
         /\ q.op = "return" /\ ReturnCreate(t, q).ok => Done(q.doc, t, ReturnCreate(t, q))
         /\ q.op = "unreturn" /\ ReturnVoid(t, q).ok => Done(q.doc, t, ReturnVoid(t, q))
<1>1. IsTxn(t) /\ Fit(t.c) /\ t.v = view[p] /\ t.c = db
  BY OpenedIsTxn
<1>2. q # Idle /\ Placed(q, db) /\ Editable(q.doc, view[p], db)
  BY DEF Known, Requests
<1>3. /\ q.op \in {"receipt", "unreceipt", "return", "unreturn"} =>
             q.doc \in Docs /\ q.doc \notin Outbounds
      /\ q.op \in {"order", "edit", "unorder"} => q.doc \in Docs /\ q.doc \in Outbounds
  BY <1>2 DEF Placed, Docs, SalesAssumption
<1>4. q.op = "receipt" /\ ReceiptCreate(t, q).ok => Done(q.doc, t, ReceiptCreate(t, q))
  BY <1>1, <1>3, ReceiptCreateDone
<1>5. q.op = "unreceipt" /\ ReceiptVoid(t, q).ok => Done(q.doc, t, ReceiptVoid(t, q))
  BY <1>1, <1>3, ReceiptVoidDone
<1>6. q.op = "order" /\ OrderCreate(t, q).ok => Done(q.doc, t, OrderCreate(t, q))
  <2>1. SUFFICES ASSUME q.op = "order"
                 PROVE  OrderCreate(t, q).ok => Done(q.doc, t, OrderCreate(t, q))
    OBVIOUS
  <2>2. q.form \in OrderForms /\ db.status[q.doc] = "none"
    BY <1>2, <2>1 DEF Placed
  <2>3. PICK n \in Nat : DOMAIN q.form = 1..n
    BY <2>2, FormLength
  <2>4. \A l \in t.c.lines : l.doc # q.doc
    BY <1>1, <2>2 DEF Known, Kept
  <2> QED BY <1>1, <1>3, <2>1, <2>3, <2>4, OrderCreateDone
<1>7. q.op = "edit" /\ OrderUpdate(t, q).ok => Done(q.doc, t, OrderUpdate(t, q))
  <2>1. SUFFICES ASSUME q.op = "edit"
                 PROVE  OrderUpdate(t, q).ok => Done(q.doc, t, OrderUpdate(t, q))
    OBVIOUS
  <2>2. q.form \in OrderForms /\ NamedOnce(q.ids, Len(q.form)) /\ InForce(q.doc, db)
    BY <1>2, <2>1 DEF Placed
  <2>3. PICK n \in Nat : n = Len(q.form) /\ DOMAIN q.form = 1..n
    BY <2>2, FormLength
  <2>4. NamedOnce(q.ids, n)
    BY <2>2, <2>3
  <2>5. Editable(q.doc, t.v, t.c) /\ InForce(q.doc, t.c)
    BY <1>1, <1>2, <2>2
  <2> QED BY <1>1, <1>3, <2>1, <2>3, <2>4, <2>5, OrderUpdateDone
<1>8. q.op = "unorder" /\ OrderVoid(t, q).ok => Done(q.doc, t, OrderVoid(t, q))
  BY <1>1, <1>3, OrderVoidDone
<1>9. q.op = "return" /\ ReturnCreate(t, q).ok => Done(q.doc, t, ReturnCreate(t, q))
  BY <1>1, <1>3, ReturnCreateDone
<1>10. q.op = "unreturn" /\ ReturnVoid(t, q).ok => Done(q.doc, t, ReturnVoid(t, q))
  BY <1>1, <1>3, ReturnVoidDone
<1> QED BY <1>4, <1>5, <1>6, <1>7, <1>8, <1>9, <1>10

LEMMA CommitsKeep ==
  ASSUME Known, SalesAssumption, NEW p \in Procs,
         \/ Commit(p, "receipt", ReceiptCreate)
         \/ Commit(p, "unreceipt", ReceiptVoid)
         \/ Commit(p, "order", OrderCreate)
         \/ Commit(p, "edit", OrderUpdate)
         \/ Commit(p, "unorder", OrderVoid)
         \/ Commit(p, "return", ReturnCreate)
         \/ Commit(p, "unreturn", ReturnVoid)
  PROVE  Known'
<1>1. PICK t, q : t = Opened(p) /\ q = req[p]
  OBVIOUS
<1>2. view[p] # Idle /\ Leave(p)
  BY DEF Commit
<1>3. \/ q.op = "receipt" /\ ReceiptCreate(t, q).ok /\ db' = ReceiptCreate(t, q).c
      \/ q.op = "unreceipt" /\ ReceiptVoid(t, q).ok /\ db' = ReceiptVoid(t, q).c
      \/ q.op = "order" /\ OrderCreate(t, q).ok /\ db' = OrderCreate(t, q).c
      \/ q.op = "edit" /\ OrderUpdate(t, q).ok /\ db' = OrderUpdate(t, q).c
      \/ q.op = "unorder" /\ OrderVoid(t, q).ok /\ db' = OrderVoid(t, q).c
      \/ q.op = "return" /\ ReturnCreate(t, q).ok /\ db' = ReturnCreate(t, q).c
      \/ q.op = "unreturn" /\ ReturnVoid(t, q).ok /\ db' = ReturnVoid(t, q).c
  BY <1>1 DEF Commit, Opened
<1>4. PICK u : Done(q.doc, t, u) /\ db' = u.c
  BY <1>1, <1>2, <1>3, BodiesDone
<1> QED BY <1>1, <1>2, <1>4, CommitKeeps

\* Only the users keep two requests for one document apart.
LEMMA ApartFromOthers ==
  ASSUME "oneRequestPerDocument" \in Discipline, NEW q, Disciplined(q)
  PROVE  \A other \in InFlight : q.doc # other.doc
BY DEF Disciplined, Apart

LEMMA SubmitKeeps ==
  ASSUME Known, "oneRequestPerDocument" \in Discipline, NEW p \in Procs, NEW q,
         Placed(q, db), Submit(p, q)
  PROVE  Known'
BY ApartFromOthers, OpenKeeps DEF Submit

LEMMA FreshOnes ==
  ASSUME NEW D, NEW d \in Fresh(D)
  PROVE  d \in D /\ db.status[d] = "none"
<1>1. PICK free : free = {x \in D : db.status[x] = "none" /\ \A q \in InFlight : q.doc # x}
  OBVIOUS
<1>2. free # {} /\ d = CHOOSE x \in free : TRUE
  BY <1>1 DEF Fresh
<1>3. d \in free
  BY <1>2
<1> QED BY <1>1, <1>3

LEMMA SubmitReceiptKeeps ==
  ASSUME Known, "oneRequestPerDocument" \in Discipline, NEW p \in Procs, SubmitReceipt(p)
  PROVE  Known'
<1>1. PICK d \in Fresh(Receipts), f \in ReceiptForms :
          Submit(p, [op |-> "receipt", doc |-> d, qty |-> f.qty, price |-> f.price])
  BY DEF SubmitReceipt
<1>2. PICK q : q = [op |-> "receipt", doc |-> d, qty |-> f.qty, price |-> f.price]
  OBVIOUS
<1>3. Placed(q, db)
  BY <1>2, FreshOnes DEF Placed
<1>4. Submit(p, q)
  BY <1>1, <1>2
<1> QED BY <1>3, <1>4, SubmitKeeps

LEMMA SubmitOrderKeeps ==
  ASSUME Known, "oneRequestPerDocument" \in Discipline, NEW p \in Procs, SubmitOrder(p)
  PROVE  Known'
<1>1. PICK o \in Fresh(Outbounds), f \in OrderForms :
          Submit(p, [op |-> "order", doc |-> o, form |-> f])
  BY DEF SubmitOrder
<1>2. PICK q : q = [op |-> "order", doc |-> o, form |-> f]
  OBVIOUS
<1>3. Placed(q, db)
  BY <1>2, FreshOnes DEF Placed
<1>4. Submit(p, q)
  BY <1>1, <1>2
<1> QED BY <1>3, <1>4, SubmitKeeps

LEMMA SubmitReturnKeeps ==
  ASSUME Known, "oneRequestPerDocument" \in Discipline, NEW p \in Procs,
         SubmitReturn(p) \/ SubmitStandaloneReturn(p)
  PROVE  Known'
<1>1. PICK q : q.op = "return" /\ q.doc \in Fresh(Returns) /\ Submit(p, q)
  <2>1. CASE SubmitReturn(p)
    <3>1. PICK r \in Fresh(Returns), l \in db.lines, f \in ReturnForms :
              Submit(p, [op |-> "return", doc |-> r, order |-> l.doc, line |-> l.id,
                         qty |-> f.qty, price |-> f.price])
      BY <2>1 DEF SubmitReturn
    <3>2. PICK q : q = [op |-> "return", doc |-> r, order |-> l.doc, line |-> l.id,
                        qty |-> f.qty, price |-> f.price]
      OBVIOUS
    <3>3. q.op = "return" /\ q.doc = r
      BY <3>2
    <3>4. Submit(p, q)
      BY <3>1, <3>2
    <3> QED BY <3>3, <3>4
  <2>2. CASE SubmitStandaloneReturn(p)
    <3>1. PICK r \in Fresh(Returns), f \in ReturnForms :
              Submit(p, [op |-> "return", doc |-> r, order |-> NoOrder, line |-> 0,
                         qty |-> f.qty, price |-> f.price])
      BY <2>2 DEF SubmitStandaloneReturn
    <3>2. PICK q : q = [op |-> "return", doc |-> r, order |-> NoOrder, line |-> 0,
                        qty |-> f.qty, price |-> f.price]
      OBVIOUS
    <3>3. q.op = "return" /\ q.doc = r
      BY <3>2
    <3>4. Submit(p, q)
      BY <3>1, <3>2
    <3> QED BY <3>3, <3>4
  <2> QED BY <2>1, <2>2
<1>2. Placed(q, db)
  BY <1>1, FreshOnes DEF Placed
<1> QED BY <1>1, <1>2, SubmitKeeps

LEMMA SubmitVoidKeeps ==
  ASSUME Known, "oneRequestPerDocument" \in Discipline, NEW p \in Procs,
         \/ SubmitVoid(p, "unreceipt", Receipts)
         \/ SubmitVoid(p, "unorder", Outbounds)
         \/ SubmitVoid(p, "unreturn", Returns)
  PROVE  Known'
<1>1. PICK op, d : /\ Submit(p, [op |-> op, doc |-> d])
                   /\ \/ op = "unreceipt" /\ d \in Receipts
                      \/ op = "unorder" /\ d \in Outbounds
                      \/ op = "unreturn" /\ d \in Returns
  BY DEF SubmitVoid
<1>2. PICK q : q = [op |-> op, doc |-> d]
  OBVIOUS
<1>3. Placed(q, db)
  BY <1>1, <1>2 DEF Placed
<1>4. Submit(p, q)
  BY <1>1, <1>2
<1> QED BY <1>3, <1>4, SubmitKeeps

Places(st, o, n) == [i \in 1..n |-> {l.id : l \in {m \in LinesOf(st, o) : m.no = i}}]
NamedByPlace(at, keep, n) == [i \in 1..n |-> IF keep /\ at[i] # {} THEN Max(at[i]) ELSE 0]

\* The lines that an edit names by their places are lines of the order, each of
\* them once.
LEMMA PlacesNameOnce ==
  ASSUME NEW st, Papers(st), NEW o, NEW n, NEW keep
  PROVE  NamedOnce(NamedByPlace(Places(st, o, n), keep, n), n)
<1>0. PICK at, ids : at = Places(st, o, n) /\ ids = NamedByPlace(at, keep, n)
  OBVIOUS
<1>1. ASSUME NEW i \in 1..n, at[i] # {}
      PROVE  Max(at[i]) \in at[i]
  <2>1. PICK L : L = {m \in LinesOf(st, o) : m.no = i}
    OBVIOUS
  <2>2. L \subseteq st.lines
    BY <2>1 DEF LinesOf
  <2>3. IsFiniteSet(L)
    BY <2>2, FS_Subset DEF Papers
  <2>4. PICK f : f = [l \in L |-> l.id]
    OBVIOUS
  <2>5. IsFiniteSet({f[l] : l \in L})
    BY <2>3, <2>4, FiniteImage
  <2>6. {f[l] : l \in L} = at[i]
    BY <1>0, <2>1, <2>4 DEF Places
  <2>7. at[i] \subseteq Nat
    BY <1>0, <2>1, <2>2 DEF Papers, Places
  <2> QED BY <1>1, <2>5, <2>6, <2>7, LastOfSome
<1>2. ASSUME NEW i \in 1..n, NEW j \in 1..n, ids[i] = ids[j], ids[i] # 0
      PROVE  i = j
  <2>1. ids[i] \in at[i] /\ ids[j] \in at[j]
    BY <1>0, <1>1, <1>2 DEF NamedByPlace
  <2>2. PICK l \in LinesOf(st, o) : l.no = i /\ l.id = ids[i]
    BY <1>0, <2>1 DEF Places
  <2>3. PICK m \in LinesOf(st, o) : m.no = j /\ m.id = ids[j]
    BY <1>0, <2>1 DEF Places
  <2>4. l = m
    BY <1>2, <2>2, <2>3 DEF Papers, LinesOf
  <2> QED BY <2>2, <2>3, <2>4
<1>3. DOMAIN ids = 1..n
  BY <1>0 DEF NamedByPlace
<1> QED BY <1>0, <1>2, <1>3 DEF NamedOnce

LEMMA SubmitEditKeeps ==
  ASSUME Known, SalesAssumption, "oneRequestPerDocument" \in Discipline,
         NEW p \in Procs, SubmitEdit(p)
  PROVE  Known'
<1>1. PICK o, f, keep, ids :
          /\ o \in Outbounds /\ f \in OrderForms /\ keep \in BOOLEAN
          /\ ids = [i \in DOMAIN f |->
                       IF keep /\ {l.id : l \in {m \in LinesOf(db, o) : m.no = i}} # {}
                       THEN Max({l.id : l \in {m \in LinesOf(db, o) : m.no = i}}) ELSE 0]
          /\ db.status[o] = "effective"
          /\ Submit(p, [op |-> "edit", doc |-> o, form |-> f, ids |-> ids, rev |-> db.rev[o]])
  BY DEF SubmitEdit
<1>2. PICK n \in Nat : n = Len(f) /\ DOMAIN f = 1..n
  BY <1>1, FormLength
<1>3. ids = NamedByPlace(Places(db, o, n), keep, n)
  BY <1>1, <1>2 DEF NamedByPlace, Places
<1>4. Papers(db)
  BY DEF Known, Kept, Fit
<1>5. NamedOnce(ids, n)
  BY <1>3, <1>4, PlacesNameOnce
<1>6. PICK q : q = [op |-> "edit", doc |-> o, form |-> f, ids |-> ids, rev |-> db.rev[o]]
  OBVIOUS
<1>7. q.op = "edit" /\ q.doc = o /\ q.form = f /\ q.ids = ids
  BY <1>6
<1>8. Placed(q, db)
  BY <1>1, <1>2, <1>5, <1>7 DEF Placed, InForce
<1>9. Submit(p, q)
  BY <1>1, <1>6
<1> QED BY <1>8, <1>9, SubmitKeeps

LEMMA StepKeeps ==
  ASSUME SalesAssumption, "oneRequestPerDocument" \in Discipline, Known, [Next]_vars
  PROVE  Known'
<1>1. CASE UNCHANGED vars
  BY <1>1 DEF vars, Known, Requests, InFlight
<1>2. ASSUME NEW p \in Procs,
             \/ SubmitReceipt(p)
             \/ SubmitVoid(p, "unreceipt", Receipts)
             \/ SubmitOrder(p)
             \/ SubmitEdit(p)
             \/ SubmitVoid(p, "unorder", Outbounds)
             \/ SubmitReturn(p)
             \/ SubmitStandaloneReturn(p)
             \/ SubmitVoid(p, "unreturn", Returns)
      PROVE  Known'
  BY <1>2, SubmitReceiptKeeps, SubmitVoidKeeps, SubmitOrderKeeps, SubmitEditKeeps,
     SubmitReturnKeeps
<1>3. ASSUME NEW p \in Procs,
             \/ Commit(p, "receipt", ReceiptCreate)
             \/ Commit(p, "unreceipt", ReceiptVoid)
             \/ Commit(p, "order", OrderCreate)
             \/ Commit(p, "edit", OrderUpdate)
             \/ Commit(p, "unorder", OrderVoid)
             \/ Commit(p, "return", ReturnCreate)
             \/ Commit(p, "unreturn", ReturnVoid)
      PROVE  Known'
  BY <1>3, CommitsKeep
<1>4. ASSUME NEW p \in Procs, Begin(p) \/ Rollback(p)
      PROVE  Known'
  BY <1>4, BeginKeeps, RollbackKeeps
<1> QED BY <1>1, <1>2, <1>3, <1>4 DEF Next

LEMMA AlwaysKnown ==
  ASSUME "oneRequestPerDocument" \in Discipline
  PROVE  Spec => []Known
<1>1. Known /\ [Next]_vars => Known'
  BY SalesAssumption, StepKeeps
<1> QED BY InitKnown, <1>1, PTL DEF Spec

-----------------------------------------------------------------------------
(* What follows.                                                           *)

\* The approval document of every document says what its audit snapshot says and
\* is closed exactly when the document is voided: after each of the creates, the
\* edits and the voids, in any interleaving of requests for different documents.
THEOREM ApprovalHolds ==
  ASSUME "oneRequestPerDocument" \in Discipline
  PROVE  Spec => []ApprovalFollowsDocument
<1>1. Known => ApprovalFollowsDocument
  BY DEF Known, Kept, Approved, ApprovalFollowsDocument
<1> QED BY <1>1, AlwaysKnown, PTL

LEMMA NumbersMatch ==
  ASSUME Numbered(db)
  PROVE  FactoryNumbersMatchLines
<1>1. ASSUME NEW f \in db.numbers, f.held
      PROVE  \E l \in db.lines : /\ db.status[l.doc] = "effective" /\ l.range # NoRange
                                 /\ f.line = l.id /\ f.range = l.range
  BY <1>1 DEF Numbered, Owns
<1>2. ASSUME NEW l \in db.lines, db.status[l.doc] = "effective", l.range # NoRange
      PROVE  \E f \in db.numbers : f.held /\ f.line = l.id /\ f.range = l.range
  BY <1>2 DEF Numbered, Owns
<1> QED BY <1>1, <1>2 DEF FactoryNumbersMatchLines

\* The factory numbers that are held are those of the lines of orders in force,
\* whatever edits exchange ranges, drop lines and add them, and whatever fails on
\* the way: a number that was reserved and lost, or released and still shown, does
\* not occur.
THEOREM FactoryNumbersHold ==
  ASSUME "oneRequestPerDocument" \in Discipline
  PROVE  Spec => []FactoryNumbersMatchLines
<1>1. Known => FactoryNumbersMatchLines
  BY NumbersMatch DEF Known, Kept, Fit
<1> QED BY <1>1, AlwaysKnown, PTL
=============================================================================
