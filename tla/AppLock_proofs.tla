---------------------------- MODULE AppLock_proofs ----------------------------
(***************************************************************************)
(* Theorems about AppLock, for any set of licences, any lifetime of a      *)
(* reset and any number of faults: the types, that the workspace is open   *)
(* for the current password only, and, when the device's clock is not      *)
(* behind the server's, that no older credential comes back.               *)
(*                                                                         *)
(* Older compares issued_at, which the server writes for a licence and the *)
(* device for a password of its own; StampsInv is what makes that order    *)
(* the true one.                                                           *)
(***************************************************************************)
EXTENDS AppLock, TLAPS

Steps == {<<>>, <<"mark">>, <<"event">>, <<"event", "mark">>, <<"mark", "event">>}

LEMMA StepsShape ==
  ASSUME NEW w \in Steps, w # <<>>
  PROVE  /\ Tail(w) \in Steps /\ Head(w) \in {"mark", "event"}
         /\ Head(w) = "mark" => w \in {<<"mark">>, <<"mark", "event">>}
         /\ Head(w) = "event" => w \in {<<"event">>, <<"event", "mark">>}
<1>1. CASE w = <<"mark">>
  BY <1>1 DEF Steps
<1>2. CASE w = <<"event">>
  BY <1>2 DEF Steps
<1>3. CASE w = <<"event", "mark">>
  BY <1>3 DEF Steps
<1>4. CASE w = <<"mark", "event">>
  BY <1>4 DEF Steps
<1> QED
  BY <1>1, <1>2, <1>3, <1>4 DEF Steps

(* The parts of the type invariant.                                        *)
StoresTyped ==
  /\ cred \in Credential \cup {None} /\ mark \in Credential \cup {None}
  /\ backup \in Credential \cup {None}

GateTyped ==
  /\ writing \in Steps
  /\ gate \in {"checking", "setup", "locked", "unlocked"}
  /\ seen \in {"nothing", "setup", "locked"}
  /\ trying \in Moments /\ opened \in Moments

LEMMA TypeParts ==
  TypeOK <=> /\ now \in Moments /\ issued \subseteq Signed /\ faults \in Nat
             /\ StoresTyped /\ GateTyped
BY DEF TypeOK, StoresTyped, GateTyped, Steps

LEMMA TypePartsNext ==
  ASSUME now' \in Moments, issued' \subseteq Signed, faults' \in Nat, StoresTyped', GateTyped'
  PROVE  TypeOK'
BY DEF TypeOK, StoresTyped, GateTyped, Steps

(* A licence is stamped with the server's time, a password made on the     *)
(* device with a time that is not before it; nothing is from the future.   *)
StampsInv ==
  /\ \A l \in issued : l.at = l.made /\ l.made <= now
  /\ \A x \in {cred, mark, backup} : x.made <= now /\ x.made <= x.at

IInv == TypeOK /\ OpenForCurrent
-----------------------------------------------------------------------------
(* Records and moments.                                                    *)

LEMMA PassTime ==
  ASSUME now \in Moments, Pass
  PROVE  now' \in Moments /\ now' = now + 1 /\ now \in Nat /\ now' \in Nat
BY LockAssumption DEF Pass, Moments

LEMMA NoneTyped == /\ None.made = 0 /\ None.at = 0 /\ None.of = "none"
                   /\ 0 \in Moments
BY LockAssumption DEF None, Moments

LEMMA CredentialFields ==
  ASSUME NEW x \in Credential \cup {None}
  PROVE  x.made \in Moments /\ x.at \in Int
BY NoneTyped DEF Credential

LEMMA InitInv == Init => IInv /\ StampsInv
<1> SUFFICES ASSUME Init PROVE IInv /\ StampsInv
  OBVIOUS
<1>1. StoresTyped /\ GateTyped /\ now \in Moments /\ issued \subseteq Signed /\ faults \in Nat
  BY NoneTyped DEF Init, StoresTyped, GateTyped, Steps, NoTry
<1>2. StampsInv /\ OpenForCurrent
  BY NoneTyped DEF Init, StampsInv, OpenForCurrent
<1> QED
  BY <1>1, <1>2, TypeParts DEF IInv

(* What installs a credential: each leaves a typed one.                    *)
LEMMA ProvisionTyped ==
  ASSUME IInv, NEW l \in issued, Provision(l)
  PROVE  StoresTyped' /\ GateTyped'
<1>1. l \in Signed /\ StoresTyped /\ GateTyped
  BY TypeParts DEF IInv
<1>2. [of |-> l.of, made |-> l.made, at |-> l.at,
       applied |-> IF l.reset THEN l.made ELSE 0] \in Credential
  BY <1>1, NoneTyped DEF Signed, Credential
<1>3. StoresTyped'
  BY <1>1, <1>2 DEF Provision, Install, StoresTyped
<1>4. GateTyped'
  BY <1>1 DEF Provision, Install, GateTyped, gateVars, Steps
<1> QED
  BY <1>3, <1>4

LEMMA ChangeTyped ==
  ASSUME IInv, ChangePassword
  PROVE  /\ StoresTyped' /\ GateTyped'
         /\ cred \in Credential /\ cred'.made = now' /\ cred'.at = now' + Skew
<1>1. now \in Moments /\ StoresTyped /\ GateTyped /\ Skew \in Int
  BY TypeParts, LockAssumption DEF IInv
<1>2. now' \in Moments /\ now' \in Nat
  BY <1>1, PassTime DEF ChangePassword
<1>3. cred \in Credential
  BY <1>1 DEF ChangePassword, StoresTyped
<1>4. [cred EXCEPT !.made = now', !.at = now' + Skew] \in Credential
  <2>1. now' + Skew \in Int
    BY <1>1, <1>2
  <2> QED
    BY <1>2, <1>3, <2>1 DEF Credential
<1>5. StoresTyped'
  BY <1>1, <1>4 DEF ChangePassword, Install, StoresTyped
<1>6. GateTyped'
  BY <1>1 DEF ChangePassword, Install, GateTyped, gateVars, Steps
<1>7. cred'.made = now' /\ cred'.at = now' + Skew
  BY <1>3 DEF ChangePassword, Install, Credential
<1> QED
  BY <1>3, <1>5, <1>6, <1>7

LEMMA CreateTyped ==
  ASSUME IInv, NEW n \in {"local"} \cup {l.of : l \in issued}, CreatePassword(n)
  PROVE  /\ StoresTyped' /\ GateTyped'
         /\ cred'.made = now' /\ cred'.at = now' + Skew
<1>1. now \in Moments /\ StoresTyped /\ GateTyped /\ Skew \in Int /\ issued \subseteq Signed
  BY TypeParts, LockAssumption DEF IInv
<1>2. now' \in Moments /\ now' \in Nat
  BY <1>1, PassTime DEF CreatePassword
<1>3. n \in Licences \cup {"local"}
  BY <1>1 DEF Signed
<1>4. [of |-> n, made |-> now', at |-> now' + Skew, applied |-> 0] \in Credential
  BY <1>1, <1>2, <1>3, NoneTyped DEF Credential
<1>5. StoresTyped'
  BY <1>1, <1>4 DEF CreatePassword, Install, StoresTyped
<1>6. GateTyped'
  BY <1>1 DEF CreatePassword, Install, GateTyped, gateVars, Steps
<1>7. cred'.made = now' /\ cred'.at = now' + Skew
  BY DEF CreatePassword, Install
<1> QED
  BY <1>5, <1>6, <1>7

LEMMA ServerTyped ==
  ASSUME TypeOK, Server
  PROVE  TypeOK'
<1>1. CASE Tick
  BY <1>1, PassTime DEF Tick, TypeOK, lockVars, gateVars
<1>2. ASSUME NEW n \in Licences, NEW reset \in BOOLEAN, Sign(n, reset) PROVE TypeOK'
  <2>1. now' \in Moments /\ now' \in Nat
    BY <1>2, PassTime DEF Sign, TypeOK
  <2>2. [of |-> n, made |-> now', at |-> now', reset |-> reset] \in Signed
    BY <2>1 DEF Signed
  <2> QED
    BY <1>2, <2>1, <2>2 DEF Sign, TypeOK, lockVars, gateVars
<1> QED
  BY <1>1, <1>2 DEF Server

LEMMA FinishTyped ==
  ASSUME StoresTyped, GateTyped, Finish
  PROVE  StoresTyped' /\ GateTyped'
<1>1. CASE WriteMark
  BY <1>1, StepsShape DEF WriteMark, StoresTyped, GateTyped, gateVars
<1>2. CASE Announce
  BY <1>2, StepsShape, NoneTyped DEF Announce, StoresTyped, GateTyped, NoTry
<1> QED
  BY <1>1, <1>2 DEF Finish

LEMMA GateSteps ==
  ASSUME StoresTyped, GateTyped, Gate
  PROVE  StoresTyped' /\ GateTyped'
<1>1. CASE Load \/ Look \/ Refresh
  BY <1>1 DEF Load, Look, Refresh, Shown, StoresTyped, GateTyped, lockVars
<1>2. CASE Enter
  BY <1>2, CredentialFields DEF Enter, StoresTyped, GateTyped, lockVars
<1>3. CASE Open
  BY <1>3, NoneTyped DEF Open, StoresTyped, GateTyped, lockVars, NoTry
<1>4. CASE Lock
  BY <1>4 DEF Lock, StoresTyped, GateTyped, lockVars
<1> QED
  BY <1>1, <1>2, <1>3, <1>4 DEF Gate

LEMMA FaultTyped ==
  ASSUME StoresTyped, GateTyped, faults \in Nat, Stop \/ Lose \/ BackUp \/ Restore
  PROVE  StoresTyped' /\ GateTyped' /\ faults' \in Nat
<1>1. faults' \in Nat
  BY DEF Stop, Lose, BackUp, Restore, Fault
<1>2. StoresTyped'
  BY DEF Stop, Lose, BackUp, Restore, StoresTyped, lockVars
<1>3. GateTyped'
  BY NoneTyped DEF Stop, Lose, BackUp, Restore, GateTyped, gateVars, lockVars, Steps, NoTry
<1> QED
  BY <1>1, <1>2, <1>3

LEMMA TypeStep ==
  ASSUME IInv, [Next]_vars
  PROVE  TypeOK'
<1>1. /\ now \in Moments /\ issued \subseteq Signed /\ faults \in Nat
      /\ StoresTyped /\ GateTyped /\ TypeOK
  BY TypeParts DEF IInv
<1>2. CASE Server
  BY <1>1, <1>2, ServerTyped
<1>3. CASE Finish
  <2>1. UNCHANGED <<now, issued, faults>>
    BY <1>3 DEF Finish, WriteMark, Announce
  <2> QED
    BY <1>1, <1>3, <2>1, FinishTyped, TypePartsNext
<1>4. CASE Gate
  <2>1. UNCHANGED <<now, issued, faults>>
    BY <1>4 DEF Gate, Load, Look, Refresh, Enter, Open, Lock
  <2> QED
    BY <1>1, <1>4, <2>1, GateSteps, TypePartsNext
<1>5. ASSUME NEW l \in issued, Provision(l) PROVE TypeOK'
  BY <1>1, <1>5, ProvisionTyped, TypePartsNext DEF Provision
<1>6. ASSUME NEW l \in issued, Repair(l) PROVE TypeOK'
  BY <1>1, <1>6 DEF Repair, TypeOK, gateVars
<1>7. CASE ChangePassword
  BY <1>1, <1>7, ChangeTyped, PassTime, TypePartsNext DEF ChangePassword
<1>8. ASSUME NEW n \in {"local"} \cup {l.of : l \in issued}, CreatePassword(n) PROVE TypeOK'
  BY <1>1, <1>8, CreateTyped, PassTime, TypePartsNext DEF CreatePassword
<1>9. CASE Stop \/ Lose \/ BackUp \/ Restore
  <2>1. UNCHANGED <<now, issued>>
    BY <1>9 DEF Stop, Lose, BackUp, Restore
  <2> QED
    BY <1>1, <1>9, <2>1, FaultTyped, TypePartsNext
<1>10. CASE UNCHANGED vars
  BY <1>1, <1>10 DEF TypeOK, vars, lockVars, gateVars
<1> QED
  BY <1>2, <1>3, <1>4, <1>5, <1>6, <1>7, <1>8, <1>9, <1>10 DEF Next
-----------------------------------------------------------------------------
(* The workspace is open for the current password: a change of the         *)
(* credential announces itself first, or happens while the gate is shut.   *)
LEMMA OpenStep ==
  ASSUME IInv, [Next]_vars
  PROVE  OpenForCurrent'
<1>1. StoresTyped /\ GateTyped
  BY TypeParts DEF IInv
<1> USE DEF IInv, OpenForCurrent
<1>2. CASE Server
  BY <1>2 DEF Server, Tick, Sign, lockVars, gateVars
<1>3. CASE WriteMark
  BY <1>1, <1>3, StepsShape DEF WriteMark, GateTyped, gateVars
<1>4. CASE Announce
  BY <1>1, <1>4 DEF Announce, GateTyped
<1>5. CASE Load \/ Look \/ Refresh \/ Lock
  BY <1>1, <1>5 DEF Load, Look, Refresh, Lock, Shown, GateTyped, lockVars
<1>6. CASE Enter \/ Open
  BY <1>6 DEF Enter, Open, lockVars
<1>7. ASSUME NEW l \in issued, Provision(l) PROVE OpenForCurrent'
  BY <1>7 DEF Provision, Install, gateVars
<1>8. ASSUME NEW l \in issued, Repair(l) PROVE OpenForCurrent'
  BY <1>8 DEF Repair, gateVars
<1>9. CASE ChangePassword
  BY <1>9 DEF ChangePassword, Install, gateVars
<1>10. ASSUME NEW n, CreatePassword(n) PROVE OpenForCurrent'
  BY <1>10 DEF CreatePassword, Install, gateVars
<1>11. CASE Stop \/ Lose
  BY <1>11 DEF Stop, Lose, gateVars
<1>12. CASE BackUp \/ Restore
  BY <1>12 DEF BackUp, Restore, lockVars, gateVars
<1>13. CASE UNCHANGED vars
  BY <1>13 DEF vars, lockVars, gateVars
<1> QED
  BY <1>2, <1>3, <1>4, <1>5, <1>6, <1>7, <1>8, <1>9, <1>10, <1>11, <1>12, <1>13
     DEF Next, Finish, Gate

LEMMA InvStep == IInv /\ [Next]_vars => IInv'
BY TypeStep, OpenStep DEF IInv
-----------------------------------------------------------------------------
(* Stamps, when the device is not behind the server.                       *)

LEMMA StampsStep ==
  ASSUME Skew \in Nat, IInv, StampsInv, [Next]_vars
  PROVE  StampsInv'
<1>1. /\ now \in Moments /\ now \in Nat /\ issued \subseteq Signed /\ StoresTyped
      /\ \A x \in {cred, mark, backup} : x.made \in Moments /\ x.made \in Nat /\ x.at \in Int
  BY TypeParts, CredentialFields, LockAssumption DEF IInv, StoresTyped, Moments
<1>2. CASE Tick
  <2>1. now' = now + 1
    BY <1>1, <1>2, PassTime DEF Tick
  <2>2. \A l \in issued : l.made \in Nat
    BY <1>1 DEF Signed, Moments
  <2> QED
    BY <1>1, <1>2, <2>1, <2>2 DEF Tick, StampsInv, lockVars
<1>3. ASSUME NEW n \in Licences, NEW reset \in BOOLEAN, Sign(n, reset) PROVE StampsInv'
  <2>1. now' = now + 1
    BY <1>1, <1>3, PassTime DEF Sign
  <2>2. \A l \in issued : l.made \in Nat
    BY <1>1 DEF Signed, Moments
  <2> QED
    BY <1>1, <1>3, <2>1, <2>2 DEF Sign, StampsInv, lockVars
<1>4. ASSUME NEW l \in issued, Provision(l) PROVE StampsInv'
  <2>1. cred'.made = l.made /\ cred'.at = l.at
    BY <1>4 DEF Provision, Install
  <2>2. l.made \in Nat /\ l.at = l.made /\ l.made <= now
    BY <1>1 DEF StampsInv, Signed, Moments
  <2> QED
    BY <1>4, <2>1, <2>2 DEF Provision, Install, StampsInv
<1>5. ASSUME NEW l \in issued, Repair(l) PROVE StampsInv'
  BY <1>5 DEF Repair, StampsInv
<1>6. ASSUME UNCHANGED <<issued, mark, backup>>, now' = now + 1,
             cred'.made = now', cred'.at = now' + Skew
      PROVE  StampsInv'
  <2>1. \A l \in issued : l.made \in Nat
    BY <1>1 DEF Signed, Moments
  <2> QED
    BY <1>1, <1>6, <2>1 DEF StampsInv
<1>7. CASE ChangePassword
  BY <1>1, <1>6, <1>7, ChangeTyped, PassTime DEF ChangePassword, Install
<1>8. ASSUME NEW n \in {"local"} \cup {l.of : l \in issued}, CreatePassword(n) PROVE StampsInv'
  BY <1>1, <1>6, <1>8, CreateTyped, PassTime DEF CreatePassword, Install
<1>9. CASE Finish
  BY <1>9 DEF Finish, WriteMark, Announce, StampsInv
<1>10. CASE Gate
  BY <1>10 DEF Gate, Load, Look, Refresh, Enter, Open, Lock, lockVars, StampsInv
<1>11. CASE Stop \/ Lose \/ BackUp \/ Restore
  BY <1>1, <1>11, NoneTyped DEF Stop, Lose, BackUp, Restore, lockVars, StampsInv
<1>12. CASE UNCHANGED vars
  BY <1>12 DEF vars, lockVars, StampsInv
<1> QED
  BY <1>2, <1>3, <1>4, <1>5, <1>7, <1>8, <1>9, <1>10, <1>11, <1>12 DEF Next, Server

(* What NeverOlder says of one step.                                       *)
NotOlder ==
  \A x \in {cred, mark} :
    cred' \notin {cred, None} /\ x.of = cred'.of /\ (x = cred \/ cred = None)
      => x.made <= cred'.made

(* A licence that is no reset replaces a credential of its own only if the *)
(* store has lost it, and then the watermark must name the same one; a     *)
(* reset must be stamped after both.                                       *)
LEMMA ProvisionNotOlder ==
  ASSUME IInv, StampsInv, NEW l \in issued, Provision(l)
  PROVE  NotOlder
<1>1. /\ cred'.of = l.of /\ cred'.made = l.made
      /\ l.of \in Licences /\ l.made \in Nat /\ l.at = l.made
      /\ l.reset \in BOOLEAN
      /\ \A x \in {cred, mark} : x.made \in Nat /\ x.at \in Int /\ x.made <= x.at
  <2>1. l \in Signed /\ StoresTyped
    BY TypeParts DEF IInv
  <2>2. \A x \in {cred, mark} : x.made \in Nat /\ x.at \in Int
    BY <2>1, CredentialFields DEF StoresTyped, Moments
  <2> QED
    BY <2>1, <2>2 DEF Provision, Install, Signed, Moments, StampsInv
<1>2. None.of # l.of
  BY <1>1, LockAssumption, NoneTyped
<1>3. ~Older(l) /\ ~Unrecoverable(l) /\ (Same(cred, l) => Fresh(l))
  BY DEF Provision, Decision
<1> SUFFICES ASSUME NEW x \in {cred, mark}, x.of = l.of, x = cred \/ cred = None
             PROVE  x.made <= l.made
  BY <1>1 DEF NotOlder
<1>4. CASE l.reset
  <2>1. x.at < l.at
    BY <1>1, <1>3, <1>4 DEF Older, Same
  <2> QED
    BY <1>1, <2>1
<1>5. CASE ~l.reset
  <2>1. x # cred
    BY <1>3, <1>5 DEF Same, Fresh
  <2>2. cred = None /\ x = mark
    BY <2>1
  <2>3. mark.made = l.made
    BY <1>3, <1>5, <2>2 DEF Unrecoverable, Same, Fresh
  <2> QED
    BY <1>1, <2>2, <2>3
<1> QED
  BY <1>4, <1>5

LEMMA StepNotOlder ==
  ASSUME IInv, StampsInv, [Next]_vars
  PROVE  NotOlder
<1>1. /\ now \in Nat /\ now \in Moments
      /\ \A x \in {cred, mark} : x.made \in Nat /\ x.made <= now
  BY TypeParts, CredentialFields, LockAssumption DEF IInv, StoresTyped, Moments, StampsInv
<1>2. ASSUME cred' \in {cred, None} PROVE NotOlder
  BY <1>2 DEF NotOlder
<1>3. ASSUME cred'.made = now + 1 PROVE NotOlder
  BY <1>1, <1>3 DEF NotOlder
<1>4. ASSUME NEW l \in issued, Provision(l) PROVE NotOlder
  BY <1>4, ProvisionNotOlder
<1>5. CASE ChangePassword
  BY <1>1, <1>3, <1>5, ChangeTyped, PassTime DEF ChangePassword
<1>6. ASSUME NEW n \in {"local"} \cup {l.of : l \in issued}, CreatePassword(n) PROVE NotOlder
  BY <1>1, <1>3, <1>6, CreateTyped, PassTime DEF CreatePassword
<1>7. ASSUME Server \/ Finish \/ Gate PROVE cred' = cred
  BY <1>7 DEF Server, Tick, Sign, Finish, WriteMark, Announce, Gate, Load, Look, Refresh,
              Enter, Open, Lock, lockVars
<1>8. ASSUME (\E l \in issued : Repair(l)) \/ Stop \/ Lose \/ BackUp \/ Restore \/ UNCHANGED vars
      PROVE  cred' \in {cred, None}
  BY <1>8 DEF Repair, Stop, Lose, BackUp, Restore, vars, lockVars
<1> QED
  BY <1>2, <1>4, <1>5, <1>6, <1>7, <1>8 DEF Next
-----------------------------------------------------------------------------
(* The state of the lock keeps its types (AppLockCredential,               *)
(* AppLockWatermark, GateState).                                           *)
THEOREM TypeCorrect == Spec => []TypeOK
<1>1. IInv => TypeOK
  BY DEF IInv
<1> QED
  BY <1>1, InitInv, InvStep, PTL DEF Spec

(* Whatever arrives while a password is verified, the workspace is open    *)
(* only for the credential in the store (AppLockGate, verifyAppPassword).  *)
THEOREM OpenForCurrentAlways == Spec => []OpenForCurrent
<1>1. IInv => OpenForCurrent
  BY DEF IInv
<1> QED
  BY <1>1, InitInv, InvStep, PTL DEF Spec

(* On a device whose clock is not behind the server's, no licence brings   *)
(* an older credential back (appLockProvisioningDecision), however late,   *)
(* often or out of order it is delivered.                                  *)
THEOREM NeverOlderAlways == ASSUME Skew \in Nat PROVE Spec => NeverOlder
<1>1. Init => IInv /\ StampsInv
  BY InitInv
<1>2. IInv /\ StampsInv /\ [Next]_vars => IInv' /\ StampsInv'
  BY InvStep, StampsStep
<1>3. IInv /\ StampsInv /\ [Next]_vars
        => [\A x \in {cred, mark} :
              cred' \notin {cred, None} /\ x.of = cred'.of /\ (x = cred \/ cred = None)
                => x.made <= cred'.made]_vars
  BY StepNotOlder DEF NotOlder
<1> QED
  BY <1>1, <1>2, <1>3, PTL DEF Spec, NeverOlder
===============================================================================
