------------------------------ MODULE StockBooks ------------------------------
(***************************************************************************)
(* What the document families promise about the stock of a material: it is *)
(* the sum of what the documents in force say, one document changes at a   *)
(* time, the stock never runs below zero and a closed document never       *)
(* counts again.                                                           *)
(***************************************************************************)
EXTENDS Integers

CONSTANT Docs

VARIABLES
    stock,      \* quantity on hand
    net,        \* what each document brings in (or, negative, takes out)
    closed      \* the voided documents
vars == <<stock, net, closed>>

Init ==
    /\ stock = 0
    /\ net = [d \in Docs |-> 0]
    /\ closed = {}

\* A document is posted or edited: from now on it counts for what it says.
Record(d) ==
    /\ d \notin closed
    /\ net' = [net EXCEPT ![d] = net'[d]]
    /\ stock' = stock + net'[d] - net[d]
    /\ stock' >= 0
    /\ UNCHANGED closed

\* A document is voided.
Close(d) ==
    /\ d \notin closed
    /\ stock - net[d] >= 0
    /\ stock' = stock - net[d]
    /\ net' = [net EXCEPT ![d] = 0]
    /\ closed' = closed \cup {d}

Next == \E d \in Docs : Record(d) \/ Close(d)

Spec == Init /\ [][Next]_vars
=============================================================================
