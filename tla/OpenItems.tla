------------------------------ MODULE OpenItems ------------------------------
(***************************************************************************)
(* What settling a customer's invoices promises: every invoice has an open *)
(* amount, the customer may hold credits, and each posting takes exactly   *)
(* what it says from an open amount that covers it.  Nothing is clamped,   *)
(* and a credit is spent at most once.                                     *)
(***************************************************************************)
EXTENDS Naturals

CONSTANTS
  Invoices,
  Sources,    \* what a credit can come from: receipts and credit notes
  Total,      \* Total[i]: the amount invoice i is issued for
  MaxCredit   \* bound: the largest credit of one source

VARIABLES
  open,       \* open[i]: what remains to be settled on i
  credit      \* credit[s]: what remains of the credit that s left

ItemsInit == /\ open = [i \in Invoices |-> Total[i]]
             /\ credit = [s \in Sources |-> 0]

(* A receipt or a credit note settles n of i and leaves m as a credit.     *)
Post(s, i, n, m) ==
  /\ credit[s] = 0
  /\ open' = [open EXCEPT ![i] = @ - n]
  /\ credit' = [credit EXCEPT ![s] = m]

(* n of the credit that s left settles n of i.                             *)
Spend(s, i, n) ==
  /\ n <= credit[s]
  /\ open' = [open EXCEPT ![i] = @ - n]
  /\ credit' = [credit EXCEPT ![s] = @ - n]

ItemsNext ==
  \E s \in Sources, i \in Invoices : \E n \in 0 .. open[i] :
    Spend(s, i, n) \/ \E m \in 0 .. MaxCredit : Post(s, i, n, m)

ItemsSpec == ItemsInit /\ [][ItemsNext]_<<open, credit>>
=============================================================================
