------------------------------ MODULE MCMaterials ------------------------------
(***************************************************************************)
(* Materials on few documents.  A setup is a group of requests with the    *)
(* forms they may have; each is a question about operations that meet on   *)
(* the same layers.                                                        *)
(***************************************************************************)
EXTENDS Materials

CONSTANTS p1, p2, i1, i2, s1, k1, b1, b2, x1

One(qty, price) == <<[qty |-> qty, price |-> price]>>
Two == One(1, 1) \o One(1, 2)

\* Two requests at a time around one receipt: it is edited and voided while
\* its layers are picked, and decided on.
EditedReceipt ==
    [ops |-> {"receipt", "reedit", "unreceipt", "take", "untake", "decide"},
     docs |-> {i1, k1}, receipts |-> {One(2, 1), Two}, takes |-> {One(1, 1)},
     backs |-> {}, standalone |-> {}, manual |-> FALSE, requests |-> 2, postings |-> 5]

\* Supplier returns against picks and edits of the receipt.
ToSupplier ==
    [ops |-> {"receipt", "reedit", "unreceipt", "take", "untake"},
     docs |-> {i1, s1, k1}, receipts |-> {One(2, 1), One(1, 1)}, takes |-> {One(1, 1)},
     backs |-> {1}, standalone |-> {}, manual |-> FALSE, requests |-> 2, postings |-> 5]

\* Returns of a pick against its edit and its void.
ReturnedPick ==
    [ops |-> {"receipt", "take", "pickedit", "untake", "back", "unback"},
     docs |-> {i1, k1, b1, b2}, receipts |-> {One(2, 1)}, takes |-> {One(1, 1), One(2, 1)},
     backs |-> {1}, standalone |-> {}, manual |-> FALSE, requests |-> 2, postings |-> 6]

\* Longer histories, one request at a time, over two layers.
EditedReturn ==
    [ops |-> {"receipt", "take", "pickedit", "untake", "back", "backedit", "unback"},
     docs |-> {i1, i2, k1, b1, b2}, receipts |-> {One(1, 1), One(2, 1)}, takes |-> {One(2, 1)},
     backs |-> {1, 2}, standalone |-> {1}, manual |-> FALSE, requests |-> 1, postings |-> 7]

NamedSource ==
    [ops |-> {"receipt", "take", "pickedit", "scrapedit", "untake", "reedit", "unreceipt"},
     docs |-> {i1, i2, k1, x1}, receipts |-> {One(1, 1), Two}, takes |-> {One(1, 1), One(2, 1)},
     backs |-> {}, standalone |-> {}, manual |-> TRUE, requests |-> 1, postings |-> 4]

EditedLines ==
    [ops |-> {"receipt", "reedit", "take", "pickedit", "untake", "unreceipt"},
     docs |-> {i1, k1}, receipts |-> {One(2, 1), Two, One(1, 2)}, takes |-> {One(1, 1), Two, One(1, 2)},
     backs |-> {}, standalone |-> {}, manual |-> FALSE, requests |-> 1, postings |-> 9]

MaterialSetups == {EditedReceipt, ToSupplier, ReturnedPick, EditedReturn,
                   NamedSource, EditedLines}

Symmetry == Permutations(Procs)
=============================================================================
