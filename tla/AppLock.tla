------------------------------- MODULE AppLock -------------------------------
(***************************************************************************)
(* The app lock of the desktop application (lib/app-lock, AppLockGate.tsx).*)
(* A credential in the operating system's store guards the workspace.  It  *)
(* comes with a signed licence, possibly as a reset that the administrator *)
(* authorized, or is chosen on the device.  A watermark in SQLite remembers*)
(* the installed credential, so that an older licence, delivered late or   *)
(* twice, does not bring an older password back.                           *)
(*                                                                         *)
(* Passwords are left out: a credential is the moment at which it was made,*)
(* and knowing a password is knowing which credential it belongs to.       *)
(***************************************************************************)
EXTENDS Integers, Sequences

CONSTANTS
  Licences,   \* the licences of this device
  Lifetime,   \* how long a reset is fresh: 30 minutes in the code
  Skew,       \* the device's clock less the server's
  MaxTime,    \* bound: moments
  MaxFaults   \* bound: crashes, lost credentials and restored databases

ASSUME LockAssumption ==
  /\ Lifetime \in Nat /\ Skew \in Int /\ MaxTime \in Nat /\ MaxFaults \in Nat
  /\ "local" \notin Licences /\ "none" \notin Licences

VARIABLES
  now,       \* the moment; each credential is made at one of its own
  issued,    \* the app-lock parts of the licences that the server has signed
  cred,      \* the credential in the store
  mark,      \* the watermark in SQLite
  backup,    \* the watermark in a backup of the database
  writing,   \* what is left to do of the credential change under way
  gate,      \* what AppLockGate shows
  seen,      \* what the gate's refresh has read and not yet shown
  trying,    \* the credential an entered password is being verified against
  opened,    \* history: the credential that opened the workspace
  faults

lockVars == <<cred, mark, writing>>
gateVars == <<gate, seen, trying, opened>>
vars == <<now, issued, lockVars, backup, gateVars, faults>>

(* A signed app lock is for a licence; "made" is when, by the true order,  *)
(* "at" its issued_at.  A credential also has the reset it came with.      *)
Moments  == 0 .. MaxTime
Signed   == [of : Licences, made : Moments, at : Int, reset : BOOLEAN]
None     == [of |-> "none", made |-> 0, at |-> 0, applied |-> 0]
Credential == [of : Licences \cup {"local"}, made : Moments, at : Int, applied : Moments]
NoTry    == 0

TypeOK ==
  /\ now \in Moments /\ issued \subseteq Signed
  /\ cred \in Credential \cup {None} /\ mark \in Credential \cup {None}
  /\ backup \in Credential \cup {None}
  /\ writing \in {<<>>, <<"mark">>, <<"event">>, <<"event", "mark">>, <<"mark", "event">>}
  /\ gate \in {"checking", "setup", "locked", "unlocked"}
  /\ seen \in {"nothing", "setup", "locked"}
  /\ trying \in Moments /\ opened \in Moments
  /\ faults \in Nat

Init ==
  /\ now = 0 /\ issued = {} /\ cred = None /\ mark = None /\ backup = None
  /\ writing = <<>> /\ gate = "checking" /\ seen = "nothing" /\ trying = NoTry /\ opened = 0
  /\ faults = 0

DeviceTime == now + Skew
-----------------------------------------------------------------------------
(* The server signs a licence with an app lock, or authorizes a reset.     *)

Pass == now < MaxTime /\ now' = now + 1

Sign(n, reset) ==
  /\ Pass
  /\ issued' = issued \cup {[of |-> n, made |-> now', at |-> now', reset |-> reset]}
  /\ UNCHANGED <<lockVars, backup, gateVars, faults>>

Tick == Pass /\ UNCHANGED <<issued, lockVars, backup, gateVars, faults>>
-----------------------------------------------------------------------------
(* appLockProvisioningDecision.                                            *)

Same(x, l) == x.of = l.of
Fresh(l) == l.reset /\ l.at + Lifetime > DeviceTime
AlreadyApplied(l) == \E x \in {cred, mark} : Same(x, l) /\ l.reset /\ x.applied = l.made

Older_Unchecked(l) == FALSE
Older(l) == l.reset /\ \E x \in {cred, mark} : Same(x, l) /\ l.at <= x.at

(* The watermark names another credential than this licence: the password  *)
(* was changed on the device.                                              *)
Unrecoverable(l) == cred = None /\ Same(mark, l) /\ mark.made # l.made /\ ~Fresh(l)

Decision(l) ==
  IF AlreadyApplied(l) \/ Older(l) THEN "ignore"
  ELSE IF (l.reset /\ ~Fresh(l)) \/ Unrecoverable(l) THEN "refuse"
  ELSE IF Same(cred, l) /\ ~Fresh(l) THEN "ignore"
  ELSE "apply"
-----------------------------------------------------------------------------
(* Changes of the credential; serializeCredentialMutation runs one at a    *)
(* time.  Each writes the store, tells the gate and writes the watermark.  *)

Install(c, steps) == writing = <<>> /\ cred' = c /\ writing' = steps /\ UNCHANGED mark

(* provisionAppLockFromLicense, for a licence just received, imported or   *)
(* read from the store again.                                              *)
Provision(l) ==
  /\ Decision(l) = "apply"
  /\ Install([of |-> l.of, made |-> l.made, at |-> l.at,
              applied |-> IF l.reset THEN l.made ELSE 0], <<"event", "mark">>)
  /\ UNCHANGED <<now, issued, backup, gateVars, faults>>

(* What it ignores it takes as an occasion to repair the watermark.        *)
Repair_Skipped(l) ==
  /\ writing = <<>> /\ Decision(l) = "ignore" /\ cred # None
  /\ UNCHANGED vars
Repair(l) ==
  /\ writing = <<>> /\ Decision(l) = "ignore" /\ cred # None
  /\ mark' = cred
  /\ UNCHANGED <<now, issued, cred, writing, backup, gateVars, faults>>

(* changeAppPassword, by someone who knows the current one.                *)
ChangePassword ==
  /\ gate = "unlocked" /\ cred # None /\ opened = cred.made
  /\ Pass
  /\ Install([cred EXCEPT !.made = now', !.at = now' + Skew], <<"event", "mark">>)
  /\ UNCHANGED <<issued, backup, gateVars, faults>>

(* createLocalAppPassword, under the licence in force, if there is one.    *)
CreatePassword(n) ==
  /\ gate = "setup" /\ cred = None
  /\ Pass
  /\ Install([of |-> n, made |-> now', at |-> now' + Skew, applied |-> 0], <<"mark", "event">>)
  /\ UNCHANGED <<issued, backup, gateVars, faults>>

WriteMark ==
  /\ writing # <<>> /\ Head(writing) = "mark"
  /\ mark' = cred /\ writing' = Tail(writing)
  /\ UNCHANGED <<now, issued, cred, backup, gateVars, faults>>

(* APP_LOCK_CREDENTIAL_CHANGED_EVENT: the gate locks, and an answer to a   *)
(* password entered before no longer counts.                               *)
Announce_StaysOpen ==
  /\ writing # <<>> /\ Head(writing) = "event"
  /\ writing' = Tail(writing)
  /\ gate' = IF gate \in {"checking", "unlocked"} THEN gate ELSE "locked"
  /\ trying' = NoTry
  /\ UNCHANGED <<now, issued, cred, mark, backup, seen, opened, faults>>
Announce ==
  /\ writing # <<>> /\ Head(writing) = "event"
  /\ writing' = Tail(writing)
  /\ gate' = IF gate = "checking" THEN gate ELSE "locked"
  /\ trying' = NoTry
  /\ UNCHANGED <<now, issued, cred, mark, backup, seen, opened, faults>>
-----------------------------------------------------------------------------
(* AppLockGate.                                                            *)

Shown == IF cred = None THEN "setup" ELSE "locked"

(* loadCredentialState, which starts again when the credential changes.    *)
Load ==
  /\ gate = "checking"
  /\ gate' = Shown
  /\ UNCHANGED <<now, issued, lockVars, backup, seen, trying, opened, faults>>

(* The end of refreshAppLock: what it read may be stale when it is shown.  *)
Look ==
  /\ gate # "checking" /\ seen = "nothing"
  /\ seen' = Shown
  /\ UNCHANGED <<now, issued, lockVars, backup, gate, trying, opened, faults>>
Refresh ==
  /\ seen # "nothing"
  /\ gate' = IF gate = "unlocked" /\ seen = "locked" THEN gate ELSE seen
  /\ seen' = "nothing"
  /\ UNCHANGED <<now, issued, lockVars, backup, trying, opened, faults>>

(* unlock: the right password for the credential that is there now ...     *)
Enter ==
  /\ gate = "locked" /\ cred # None /\ trying = NoTry
  /\ trying' = cred.made
  /\ UNCHANGED <<now, issued, lockVars, backup, gate, seen, opened, faults>>

(* ... opens the workspace if the credential is still that one.            *)
Open ==
  /\ trying # NoTry
  /\ gate' = IF gate = "locked" /\ cred.made = trying THEN "unlocked" ELSE gate
  /\ opened' = IF gate = "locked" /\ cred.made = trying THEN trying ELSE opened
  /\ trying' = NoTry
  /\ UNCHANGED <<now, issued, lockVars, backup, seen, faults>>

Lock ==
  /\ gate = "unlocked"
  /\ gate' = "locked"
  /\ UNCHANGED <<now, issued, lockVars, backup, seen, trying, opened, faults>>
-----------------------------------------------------------------------------
(* Faults.                                                                 *)

Fault == faults < MaxFaults /\ faults' = faults + 1

(* The page or the process goes away, or a write of the watermark fails.   *)
Stop ==
  /\ Fault
  /\ writing' = <<>> /\ gate' = "checking" /\ seen' = "nothing" /\ trying' = NoTry
  /\ UNCHANGED <<now, issued, cred, mark, backup, opened>>

(* The entry disappears from the operating system's store.                 *)
Lose ==
  /\ cred # None /\ writing = <<>> /\ Fault
  /\ cred' = None
  /\ UNCHANGED <<now, issued, mark, backup, writing, gateVars>>

(* A backup holds the watermark of its time, and a restore puts it back.   *)
BackUp ==
  /\ backup # mark
  /\ backup' = mark
  /\ UNCHANGED <<now, issued, lockVars, gateVars, faults>>
Restore ==
  /\ backup # mark /\ Fault
  /\ mark' = backup
  /\ UNCHANGED <<now, issued, cred, backup, writing, gateVars>>
-----------------------------------------------------------------------------
Server == Tick \/ \E n \in Licences, reset \in BOOLEAN : Sign(n, reset)
Finish == WriteMark \/ Announce
Gate   == Load \/ Look \/ Refresh \/ Enter \/ Open \/ Lock
Next ==
  \/ Server \/ Finish \/ Gate
  \/ \E l \in issued : Provision(l) \/ Repair(l)
  \/ ChangePassword
  \/ \E n \in {"local"} \cup {l.of : l \in issued} : CreatePassword(n)
  \/ Stop \/ Lose \/ BackUp \/ Restore

Spec == Init /\ [][Next]_vars

(* The licence in force is the last one signed: it comes with every check- *)
(* in, and is provisioned again whenever the gate refreshes.               *)
Latest(l) == \A k \in issued : k.made <= l.made
Renewed == \E l \in issued : Latest(l) /\ (Provision(l) \/ Repair(l))

(* A change that has begun goes on, and the device keeps checking in.      *)
FairSpec == Spec /\ WF_vars(Finish) /\ WF_vars(Renewed)
-----------------------------------------------------------------------------
(* Properties.                                                             *)

(* A licence that is delivered late, again, or out of order never replaces *)
(* a newer credential of its own licence, nor, when the store has lost the *)
(* credential, brings back one older than the watermark remembers.         *)
NeverOlder ==
  [][\A x \in {cred, mark} :
       cred' \notin {cred, None} /\ x.of = cred'.of /\ (x = cred \/ cred = None)
         => x.made <= cred'.made]_vars

(* A workspace is open only for the password of the credential in force:   *)
(* a reset or a change locks it, also while an older password is being     *)
(* verified.                                                               *)
OpenForCurrent ==
  gate = "unlocked" /\ cred # None /\ (writing = <<>> \/ Head(writing) # "event")
    => opened = cred.made

(* A reset that the device receives while it is fresh takes effect: in the  *)
(* end the watermark names it, or a newer password, and the store has that *)
(* credential, unless it has lost it, whatever stopped in between.         *)
ResetTakesEffect ==
  <>[]\A l \in issued :
        Latest(l) /\ l.reset /\ Fresh(l) => l.made <= mark.made /\ cred \in {None, mark}

=============================================================================
