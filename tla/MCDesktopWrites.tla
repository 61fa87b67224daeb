--------------------------- MODULE MCDesktopWrites ---------------------------
(* Small instances of DesktopWrites.                                       *)
EXTENDS DesktopWrites, TLC

CONSTANTS a, b, d      \* model values: two queued calls and a direct one

(* Two queued batches, one of several statements, and a direct write that  *)
(* competes with them for the write lock.                                  *)
AllCalls == {a, b, d}
AllBatch == (a :> 2) @@ (b :> 1) @@ (d :> 1)

(* A queued batch that turns out empty, one behind it, and a direct write. *)
LiveCalls == {a, b, d}
LiveBatch == (a :> 0) @@ (b :> 1) @@ (d :> 1)
=============================================================================
