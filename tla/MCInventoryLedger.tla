-------------------------- MODULE MCInventoryLedger --------------------------
(***************************************************************************)
(* InventoryLedger on small workloads.  Every handler may be submitted any *)
(* number of times, so repeated and raced submissions are all there.       *)
(***************************************************************************)
EXTENDS InventoryLedger, TLC

CONSTANTS p1, p2, b1, b2,
          kIn, kOther, kMore, kOut, kUnout, kZero, kVoid, kVoidOther, kEdit, kNew

MCKeys == {kIn, kOther, kMore, kOut, kUnout, kZero, kVoid, kVoidOther, kEdit, kNew}

In(k, b, n) == [key |-> k, op |-> "increase", bal |-> b, qty |-> n, of |-> NoKey]
Out(k, b, n) == [key |-> k, op |-> "decrease", bal |-> b, qty |-> n, of |-> NoKey]
Undo(k, src) == [key |-> k, op |-> "reverse", bal |-> b1, qty |-> 0, of |-> src]

CommandsOf(H) == UNION {{h[i] : i \in DOMAIN h} : h \in H}

\* A two-line receipt, its void (the lines in the other order, so that two
\* transactions may wait for each other), its edit, a second receipt, an
\* issue with its void, and a command with a zero quantity.
MCHandlers ==
    {<<In(kIn, b1, 2), In(kOther, b2, 1)>>,
     <<Undo(kVoidOther, kOther), Undo(kVoid, kIn)>>,
     <<Undo(kEdit, kIn), In(kNew, b1, 3)>>,
     <<In(kMore, b1, 1)>>,
     <<Out(kOut, b1, 2)>>,
     <<Undo(kUnout, kOut)>>,
     <<In(kZero, b2, 0)>>}
MCCommands == CommandsOf(MCHandlers)

\* The workload respects KeysDetermineCommand.
ASSUME WorkloadKeys ==
    \A c, d \in MCCommands : c.key = d.key => c = d

\* A receipt and two edits of it prepared from the same revision: both undo
\* the original posting and post the line under the same key, but each gave
\* the line another material, so another balance.
RekeyHandlers ==
    {<<In(kIn, b1, 1)>>,
     <<Undo(kEdit, kIn), In(kNew, b1, 1)>>,
     <<Undo(kEdit, kIn), In(kNew, b2, 1)>>}
RekeyCommands == CommandsOf(RekeyHandlers)

Symmetry == Permutations({p1, p2})
=============================================================================
