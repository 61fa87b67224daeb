------------------------------ MODULE MCAppLock ------------------------------
(* Small instances of AppLock.                                             *)
EXTENDS AppLock

CONSTANTS m    \* a model value: the licence of the device

\* The device's clock, when it is not the server's.
Behind == -2
Ahead  == 1
=============================================================================
