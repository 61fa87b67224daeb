----------------------------- MODULE MCInventory -----------------------------
(* Small instances of Inventory.                                           *)
EXTENDS Inventory, TLC

CONSTANTS p, q, r, w     \* model values: four calls
CONSTANTS y              \* a model value: the financial year

Calls == Permutations(Requests)
=============================================================================
