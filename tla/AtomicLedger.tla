---------------------------- MODULE AtomicLedger ----------------------------
(***************************************************************************)
(* What inventory-core promises its callers: a transaction posts its stock *)
(* commands at once or not at all, each posting is what a command asked    *)
(* for, no key is posted twice, no posting is reversed twice and none but  *)
(* by its exact opposite, the stock on hand is the sum of all postings,    *)
(* and it never falls below zero.                                          *)
(***************************************************************************)
EXTENDS Integers, Functions

CONSTANTS Balances, Commands, NoKey

VARIABLES
    onHand,     \* the quantity of each balance
    posted      \* the postings: records with key, bal, change and rev

IsReversal(s) == s.rev # NoKey

\* What a command asks for.
Signed(c) == IF c.op = "increase" THEN c.qty ELSE 0 - c.qty
Asks(c, s) ==
    /\ c.key = s.key
    /\ c.op = "reverse" => s.rev = c.of
    /\ c.op # "reverse" => s.rev = NoKey /\ s.bal = c.bal /\ s.change = Signed(c)

Opposes(s, d) == s.rev = d.key /\ s.bal = d.bal /\ s.change = 0 - d.change

Total(S, b) == SumFunction([s \in {r \in S : r.bal = b} |-> s.change])

Init ==
    /\ onHand = [b \in Balances |-> 0]
    /\ posted = {}

\* One transaction posts posted' \ posted together.
Post ==
    /\ posted \subseteq posted' /\ posted # posted'
    /\ \A s \in posted' \ posted : \E c \in Commands : Asks(c, s)
    /\ \A s, d \in posted' : s.key = d.key => s = d
    /\ \A s \in posted' : IsReversal(s) =>
          /\ \E d \in posted' : Opposes(s, d)
          /\ \A e \in posted' : e.rev = s.rev => e = s
    /\ onHand' = [b \in Balances |-> Total(posted', b)]
    /\ \A b \in Balances : onHand'[b] >= 0

Spec == Init /\ [][Post]_<<onHand, posted>>
=============================================================================
