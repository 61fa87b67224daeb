---------------------------- MODULE MCReceivables ----------------------------
(* Small instances of Receivables.                                         *)
EXTENDS Receivables, TLC

CONSTANTS i, j         \* model values: two invoices of the customer
CONSTANTS p, q, r      \* model values: three calls

OneTotal == i :> 2
TwoTotals == (i :> 2) @@ (j :> 1)

Calls == Permutations(Requests)
=============================================================================
