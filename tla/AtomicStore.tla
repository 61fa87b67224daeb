----------------------------- MODULE AtomicStore -----------------------------
(***************************************************************************)
(* What the local database promises to the code that calls it: a write     *)
(* transaction is applied as a whole, at most once, and the answer the     *)
(* caller gets is the truth.  DesktopWrites is the detailed protocol that  *)
(* implements this specification.                                          *)
(***************************************************************************)
EXTENDS Naturals, Sequences

CONSTANTS
  Calls,             \* the write transactions issued during a behaviour
  Trivial            \* those of them that have nothing to write

VARIABLES
  outcome,           \* what the caller of each transaction knows about it
  history            \* the transactions applied to the database, in order

storeVars == <<outcome, history>>

Outcomes == {"new", "pending", "ok", "failed", "abandoned"}

Applied == {history[i] : i \in DOMAIN history}

StoreInit == /\ outcome = [c \in Calls |-> "new"]
             /\ history = <<>>

(* The caller hands its batch to the store.                                *)
Submit(c) == /\ outcome[c] = "new"
             /\ outcome' = [outcome EXCEPT ![c] = "pending"]
             /\ UNCHANGED history

(* The batch takes effect: all of it, and only once.  A transaction whose  *)
(* caller went away may still take effect.                                 *)
Apply(c) == /\ outcome[c] \in {"pending", "abandoned"}
            /\ c \notin Applied
            /\ history' = Append(history, c)
            /\ UNCHANGED outcome

Confirm(c) == /\ outcome[c] = "pending"
              /\ c \in Applied \cup Trivial
              /\ outcome' = [outcome EXCEPT ![c] = "ok"]
              /\ UNCHANGED history

(* A transaction reported as failed has had no effect, and never will.     *)
Reject(c) == /\ outcome[c] = "pending"
             /\ c \notin Applied
             /\ outcome' = [outcome EXCEPT ![c] = "failed"]
             /\ UNCHANGED history

(* The page or the process goes away: nobody is left to be answered.       *)
Abandon == /\ outcome' = [c \in Calls |->
                 IF outcome[c] = "pending" THEN "abandoned" ELSE outcome[c]]
           /\ UNCHANGED history

StoreNext == \/ \E c \in Calls : Submit(c) \/ Apply(c) \/ Confirm(c) \/ Reject(c)
             \/ Abandon

StoreSpec == StoreInit /\ [][StoreNext]_storeVars
=============================================================================
