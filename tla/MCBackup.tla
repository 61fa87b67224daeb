------------------------------ MODULE MCBackup ------------------------------
(* Small instances of Backup.                                              *)
EXTENDS Backup, TLC

CONSTANTS r1, r2, png, jpg   \* model values: two documents, two logo files

(* A document of each of two years, or all of the first.                   *)
TwoYears  == (r1 :> 1) @@ (r2 :> 2)
FirstYear == [r \in Rows |-> 1]

(* The paths are interchangeable.                                          *)
Symmetric == Permutations({png, jpg})
=============================================================================
