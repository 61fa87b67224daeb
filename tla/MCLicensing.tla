----------------------------- MODULE MCLicensing -----------------------------
(* Small instances of Licensing.                                           *)
EXTENDS Licensing

CONSTANTS u, v   \* model values: two callers
=============================================================================
