-------------------------- MODULE MCFinancialYears --------------------------
(* Small instances of FinancialYears.                                      *)
EXTENDS FinancialYears, TLC

CONSTANTS c, d        \* model values: calls

Callers == Permutations(Calls)
=============================================================================
