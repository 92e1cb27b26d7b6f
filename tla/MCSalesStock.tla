----------------------------- MODULE MCSalesStock -----------------------------
(***************************************************************************)
(* SalesStock on few documents and small quantities.                       *)
(***************************************************************************)
EXTENDS SalesStock

CONSTANTS p1, p2, i1, i2, o1, o2, r1, r2

Line(qty, price, range) == [qty |-> qty, price |-> price, range |-> range]

\* Races: one price layer, an order line with and one without factory numbers.
RaceReceiptForms == {[qty |-> 2, price |-> 1]}
RaceOrderForms == {<<Line(1, 1, NoRange)>>, <<Line(2, 1, <<1, 2>>)>>}
RaceReturnForms == {[qty |-> 1, price |-> 1]}

\* Long histories: two price layers, so orders of two lines as well.
LongReceiptForms == {[qty |-> 2, price |-> 1], [qty |-> 1, price |-> 2]}
LongOrderForms ==
    {<<Line(1, 1, <<1, 1>>)>>, <<Line(2, 1, NoRange)>>,
     <<Line(1, 2, <<1, 1>>), Line(1, 1, NoRange)>>}
LongReturnForms == {[qty |-> 1, price |-> 1]}

Symmetry == Permutations(Procs)

\* The documents in force add up to the stock on hand.
Said(d) ==
    CASE db.status[d] # "effective" -> 0
      [] db.status[d] = "effective" /\ d \in Outbounds ->
            0 - MapThenSumSet(LAMBDA l : l.qty, LinesOf(db, d))
      [] OTHER -> db.entry[d].qty
Books == INSTANCE StockBooks WITH
    stock <- db.qty,
    net <- [d \in Docs |-> Said(d)],
    closed <- {d \in Docs : db.status[d] = "voided"}
ImplementsStockBooks == Books!Spec
=============================================================================
