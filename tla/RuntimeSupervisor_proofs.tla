----------------------- MODULE RuntimeSupervisor_proofs -----------------------
(***************************************************************************)
(* Theorems about RuntimeSupervisor, for any number of attempts, health    *)
(* checks, faults, shells and clicks: at most one server, none without a   *)
(* shell that the ownership file does not name, no successor stopped, and  *)
(* always a way back for the user.                                         *)
(*                                                                         *)
(* What makes the first two inductive is where a live server can be: it is *)
(* the one on record, or the local of the thread that has spawned it and   *)
(* not yet recorded it; and that thread holds the startup mutex.  The other*)
(* two rest on when Retry can be clicked (SpareInv, WayInv).               *)
(***************************************************************************)
EXTENDS RuntimeSupervisor, TLAPS

Critical == {"take", "judge", "recover", "spawn", "record", "wait"}

(* What only one thread at a time may do, it does under the mutex.         *)
MutexInv == \A t \in Threads : pc[t] \in Critical => mutex = t

(* Where a server that has not been lost can be.                           *)
KnownInv ==
  \A s \in alive \ lost : s = record \/ \E t \in Threads : pc[t] = "record" /\ held[t] = s

(* recover_recorded_runtime leaves nothing alive, and only its caller      *)
(* spawns.                                                                 *)
SpawnInv ==
  \A t \in Threads :
    /\ pc[t] = "spawn" => alive \subseteq lost
    /\ pc[t] = "record" => /\ alive \subseteq lost \cup {held[t]}
                           /\ held[t] \in Spawned /\ owner[held[t]] = shell

(* The supervisor lives in its shell, and only once.                       *)
ThreadsInv ==
  /\ ~Running => pc["sup"] = "gone"
  /\ ~supervised => pc["sup"] = "gone"

IInv == TypeOK /\ MutexInv /\ KnownInv /\ SpawnInv /\ ThreadsInv
-----------------------------------------------------------------------------
LEMMA InitInv == Init => IInv
<1> SUFFICES ASSUME Init PROVE IInv
  OBVIOUS
<1>1. owner \in Seq(Nat) /\ Spawned = {} /\ \A t \in Threads : pc[t] \in {"lock", "gone"}
  BY DEF Init, Fresh, Spawned, Threads
<1>2. TypeOK
  BY <1>1 DEF Init, Fresh, TypeOK, Threads, NoServer, Launching
<1>3. MutexInv /\ SpawnInv
  BY <1>1 DEF MutexInv, SpawnInv, Critical
<1>4. KnownInv /\ ThreadsInv
  BY DEF Init, Fresh, KnownInv, ThreadsInv, Running
<1> QED
  BY <1>2, <1>3, <1>4 DEF IInv

LEMMA GotoTyped ==
  ASSUME TypeOK, NEW t \in Threads, NEW n \in Launching \cup MainSteps \cup SupSteps \cup {"gone"}, Goto(t, n)
  PROVE  pc' \in [Threads -> Launching \cup MainSteps \cup SupSteps \cup {"gone"}]
BY DEF Goto, TypeOK

(* The steps of the program keep the types.                                *)
LEMMA TypeMain ==
  ASSUME TypeOK, NEW t \in Threads, SpawnInv, Launch(t)
  PROVE  TypeOK'
<1>1. CASE Lock(t)
  <2>1. pc' \in [Threads -> Launching \cup MainSteps \cup SupSteps \cup {"gone"}]
    BY <1>1, GotoTyped DEF Lock, Launching
  <2>2. mutex' \in Threads \cup {"free"} /\ closing' \in BOOLEAN
    BY <1>1 DEF Lock
  <2>3. /\ UNCHANGED <<held, tries, slot, supervised, misses, seen, window, asked, armed, clicked, clicks, early>>
        /\ UNCHANGED <<alive, answering, record, round, owner, shell, lost, faults>> /\ Spawned' = Spawned
    BY <1>1 DEF Lock, supVars, uiVars, procVars, Spawned
  <2> QED
    BY <2>1, <2>2, <2>3 DEF TypeOK
<1>2. CASE Take(t)
  BY <1>2 DEF Take, Goto, TypeOK, Threads, Launching, stateVars, supVars, uiVars, procVars, Spawned, NoServer
<1>3. CASE Serve(t)
  BY <1>3 DEF Serve, Goto, TypeOK, Threads, Launching, stateVars, supVars, uiVars, procVars, Spawned, NoServer
<1>4. CASE GiveUp(t)
  <2>1. tries' \in [Threads -> Nat]
    BY <1>4 DEF GiveUp, TypeOK
  <2>2. pc' \in [Threads -> Launching \cup MainSteps \cup SupSteps \cup {"gone"}]
    BY <1>4 DEF GiveUp, Goto, TypeOK, Launching
  <2>3. held' \in [Threads -> Spawned \cup {NoServer}] /\ mutex' \in Threads \cup {"free"}
    BY <1>4 DEF GiveUp, TypeOK
  <2>4. record' \in Spawned \cup {NoServer} /\ answering' \subseteq alive' /\ alive' \subseteq Spawned
    BY <1>4 DEF GiveUp, Kill, TypeOK
  <2>5. /\ UNCHANGED <<slot, closing, supervised, misses, seen, window, asked, armed, clicked, clicks, early>>
        /\ UNCHANGED <<round, owner, shell, lost, faults>> /\ Spawned' = Spawned
    BY <1>4 DEF GiveUp, stateVars, supVars, uiVars, Spawned
  <2> QED
    BY <2>1, <2>2, <2>3, <2>4, <2>5 DEF TypeOK
<1>5. CASE Recover(t)
  BY <1>5 DEF Recover, Kill, Goto, TypeOK, Threads, Launching, stateVars, supVars, uiVars, Spawned, NoServer
<1>6. CASE Spawn(t)
  <2>1. owner' \in Seq(Nat) /\ Len(owner') = Len(owner) + 1
    BY <1>6 DEF Spawn, TypeOK
  <2>2. Spawned \subseteq Spawned' /\ Len(owner) + 1 \in Spawned'
    BY <2>1 DEF TypeOK, Spawned
  <2> QED
    BY <1>6, <2>1, <2>2 DEF Spawn, Goto, TypeOK, Threads, Launching, stateVars, supVars, uiVars, NoServer
<1>7. CASE Record(t)
  BY <1>7 DEF Record, Goto, TypeOK, Threads, Launching, stateVars, supVars, uiVars, Spawned, NoServer
<1>8. CASE Show(t)
  BY <1>8 DEF Show, Open, TypeOK, Threads, Launching, MainSteps, SupSteps, supVars, procVars, Spawned
<1>9. CASE Fail(t)
  <2>1. pc' \in [Threads -> Launching \cup MainSteps \cup SupSteps \cup {"gone"}]
    BY <1>9, GotoTyped DEF Fail, MainSteps, SupSteps
  <2>2. armed' \in BOOLEAN
    BY <1>9 DEF Fail
  <2>3. window' \in {"none", "main", "recovery"} /\ asked' \in {"none", "main", "recovery"}
    BY <1>9 DEF Fail, Open, TypeOK
  <2>4. /\ UNCHANGED <<held, tries, mutex, slot, closing, supervised, misses, seen, clicked, clicks, early>>
        /\ UNCHANGED <<alive, answering, record, round, owner, shell, lost, faults>> /\ Spawned' = Spawned
    BY <1>9 DEF Fail, stateVars, supVars, procVars, Spawned
  <2> QED
    BY <2>1, <2>2, <2>3, <2>4 DEF TypeOK
<1> QED
  BY <1>1, <1>2, <1>3, <1>4, <1>5, <1>6, <1>7, <1>8, <1>9 DEF Launch

LEMMA TypeShutdown ==
  ASSUME TypeOK, Apply \/ Retry \/ Close \/ Swap \/ Stop \/ Finish
  PROVE  TypeOK'
<1>1. CASE Retry
  <2>1. pc' \in [Threads -> Launching \cup MainSteps \cup SupSteps \cup {"gone"}]
    BY <1>1, GotoTyped DEF Retry, Threads, Launching
  <2>2. clicked' \in BOOLEAN /\ UNCHANGED <<held, tries, mutex, window, asked, armed, clicks, early, round, owner, shell, lost, faults>>
    BY <1>1 DEF Retry
  <2>3. UNCHANGED <<slot, closing, supervised, misses, seen, alive, answering, record>> /\ Spawned' = Spawned
    BY <1>1 DEF Retry, stateVars, supVars, procVars, Spawned
  <2> QED
    BY <2>1, <2>2, <2>3 DEF TypeOK
<1>2. CASE Close
  BY <1>2 DEF Close, Goto, TypeOK, Threads, MainSteps, stateVars, supVars, uiVars, procVars, Spawned
<1>3. CASE Swap
  BY <1>3 DEF Swap, Goto, TypeOK, Threads, MainSteps, supVars, uiVars, procVars, Spawned
<1>4. CASE Stop
  BY <1>4 DEF Stop, Goto, TypeOK, Threads, MainSteps, supVars, uiVars, procVars, Spawned, NoServer
<1>5. CASE Finish
  <2>1. record' \in Spawned \cup {NoServer} /\ answering' \subseteq alive' /\ alive' \subseteq Spawned
    BY <1>5 DEF Finish, Kill, TypeOK
  <2>2. pc' \in [Threads -> Launching \cup MainSteps \cup SupSteps \cup {"gone"}]
    BY <1>5 DEF Finish, Goto, TypeOK, Threads, MainSteps
  <2>3. held' \in [Threads -> Spawned \cup {NoServer}]
    BY <1>5 DEF Finish, TypeOK, Threads
  <2> QED
    BY <1>5, <2>1, <2>2, <2>3 DEF Finish, TypeOK, stateVars, supVars, uiVars, Spawned
<1>6. CASE Apply
  BY <1>6 DEF Apply, TypeOK, launchVars, stateVars, supVars, procVars, Spawned
<1> QED
  BY <1>1, <1>2, <1>3, <1>4, <1>5, <1>6

LEMMA TypeSupervise ==
  ASSUME TypeOK, Wake \/ Check \/ Seize \/ Reap \/ Hide
  PROVE  TypeOK'
<1>1. CASE Wake
  BY <1>1 DEF Wake, Goto, TypeOK, Threads, SupSteps, stateVars, uiVars, procVars, Spawned
<1>2. CASE Check
  BY <1>2 DEF Check, Goto, TypeOK, Threads, SupSteps, stateVars, uiVars, procVars, Spawned
<1>3. CASE Seize
  BY <1>3 DEF Seize, Goto, TypeOK, Threads, SupSteps, supVars, uiVars, procVars, Spawned, NoServer
<1>4. CASE Reap
  <2>1. pc' \in [Threads -> Launching \cup MainSteps \cup SupSteps \cup {"gone"}]
    BY <1>4, GotoTyped DEF Reap, Threads, SupSteps
  <2>2. record' \in Spawned \cup {NoServer} /\ answering' \subseteq alive' /\ alive' \subseteq Spawned
    BY <1>4 DEF Reap, Kill, TypeOK, procVars
  <2>3. held' \in [Threads -> Spawned \cup {NoServer}]
    BY <1>4 DEF Reap, TypeOK, Threads
  <2> QED
    BY <1>4, <2>1, <2>2, <2>3 DEF Reap, TypeOK, stateVars, supVars, uiVars, Spawned
<1>5. CASE Hide
  BY <1>5 DEF Hide, Open, Goto, TypeOK, Threads, Launching, stateVars, supVars, procVars, Spawned
<1> QED
  BY <1>1, <1>2, <1>3, <1>4, <1>5

LEMMA TypeEnd ==
  ASSUME TypeOK, SpawnInv, End, faults' \in Nat
  PROVE  TypeOK'
BY DEF End, SpawnInv, TypeOK, Threads, procVars, Spawned, NoServer

LEMMA TypeEnvironment ==
  ASSUME TypeOK, Click \/ Start \/ \E s \in Spawned : Fault(s)
  PROVE  TypeOK'
<1>1. CASE Click
  <2>1. clicks' = clicks + 1 /\ early' \in BOOLEAN /\ clicked' \in BOOLEAN /\ armed' \in BOOLEAN
    BY <1>1, Zenon DEF Click
  <2>2. clicks' \in Nat
    BY <2>1 DEF TypeOK
  <2> QED
    BY <1>1, <2>1, <2>2 DEF Click, TypeOK, launchVars, stateVars, supVars, procVars, Spawned
<1>2. CASE Start
  BY <1>2 DEF Start, Goto, TypeOK, Threads, Launching, stateVars, supVars, uiVars, procVars, Spawned
<1>3. ASSUME NEW s \in Spawned, Fault(s) PROVE TypeOK'
  BY <1>3 DEF Fault, TypeOK, launchVars, stateVars, supVars, uiVars, Spawned
<1> QED
  BY <1>1, <1>2, <1>3

LEMMA TypeStep ==
  ASSUME IInv, [Next]_vars
  PROVE  TypeOK'
<1>1. CASE \E t \in Threads : Launch(t)
  BY <1>1, TypeMain DEF IInv
<1>2. CASE Apply \/ Retry \/ Close \/ Swap \/ Stop \/ Finish
  BY <1>2, TypeShutdown DEF IInv
<1>3. CASE Wake \/ Check \/ Seize \/ Reap \/ Hide
  BY <1>3, TypeSupervise DEF IInv
<1>4. CASE Exit \/ Killed
  <2>1. End /\ faults' \in Nat
    BY <1>4 DEF Exit, Killed, IInv, TypeOK
  <2> QED
    BY <2>1, TypeEnd DEF IInv
<1>5. CASE Click \/ Start \/ \E s \in Spawned : Fault(s)
  BY <1>5, TypeEnvironment DEF IInv
<1>6. CASE UNCHANGED vars
  BY <1>6 DEF IInv, TypeOK, vars, launchVars, stateVars, supVars, uiVars, procVars, Spawned
<1> QED
  BY <1>1, <1>2, <1>3, <1>4, <1>5, <1>6 DEF Next, Main, Supervise, Environment, Threads
-----------------------------------------------------------------------------
(* The launch.  Its thread holds the mutex, so the other is nowhere in it. *)
LEMMA LaunchInv ==
  ASSUME IInv, NEW t \in Threads, Launch(t)
  PROVE  MutexInv' /\ KnownInv' /\ SpawnInv'
<1>0. pc \in [Threads -> Launching \cup MainSteps \cup SupSteps \cup {"gone"}]
      /\ held \in [Threads -> Spawned \cup {NoServer}]
  BY DEF IInv, TypeOK
<1> USE DEF Goto, Threads, Critical
<1>1. CASE Lock(t)
  BY <1>0, <1>1 DEF Lock, IInv, MutexInv, KnownInv, SpawnInv, procVars, Spawned
<1>2. CASE Take(t)
  BY <1>0, <1>2 DEF Take, IInv, MutexInv, KnownInv, SpawnInv, procVars, Spawned
<1>3. CASE Serve(t)
  BY <1>0, <1>3 DEF Serve, IInv, MutexInv, KnownInv, SpawnInv, procVars, Spawned
<1>4. CASE GiveUp(t)
  BY <1>0, <1>4 DEF GiveUp, Kill, IInv, MutexInv, KnownInv, SpawnInv, Spawned
<1>5. CASE Recover(t)
  BY <1>0, <1>5 DEF Recover, Kill, IInv, MutexInv, KnownInv, SpawnInv, Spawned
<1>6. CASE Spawn(t)
  <2>1. owner \in Seq(Nat) /\ shell \in Nat
    BY DEF IInv, TypeOK
  <2>2. Len(owner) + 1 \in Spawned' /\ owner'[Len(owner) + 1] = shell'
    BY <1>6, <2>1 DEF Spawn, Spawned
  <2> QED
    BY <1>0, <1>6, <2>2 DEF Spawn, IInv, MutexInv, KnownInv, SpawnInv
<1>7. CASE Record(t)
  BY <1>0, <1>7 DEF Record, IInv, MutexInv, KnownInv, SpawnInv
<1>8. CASE Show(t)
  BY <1>0, <1>8 DEF Show, IInv, MutexInv, KnownInv, SpawnInv, ThreadsInv, procVars, Spawned
<1>9. CASE Fail(t)
  BY <1>0, <1>9 DEF Fail, IInv, MutexInv, KnownInv, SpawnInv, procVars, Spawned
<1> QED
  BY <1>1, <1>2, <1>3, <1>4, <1>5, <1>6, <1>7, <1>8, <1>9 DEF Launch

(* Steps outside the launch: none of them begins one half-way.             *)
LEMMA OutsideInv ==
  ASSUME IInv, Apply \/ Retry \/ Close \/ Swap \/ Stop \/ Finish \/ Wake \/ Check \/ Seize \/ Reap \/ Hide
  PROVE  MutexInv' /\ KnownInv' /\ SpawnInv'
<1>0. pc \in [Threads -> Launching \cup MainSteps \cup SupSteps \cup {"gone"}]
      /\ held \in [Threads -> Spawned \cup {NoServer}]
  BY DEF IInv, TypeOK
<1> USE DEF Goto, Threads, Critical, IInv, MutexInv, KnownInv, SpawnInv
<1>1. CASE Retry
  BY <1>0, <1>1 DEF Retry, procVars, Spawned
<1>2. CASE Close
  BY <1>0, <1>2 DEF Close, procVars, Spawned
<1>3. CASE Swap
  BY <1>0, <1>3 DEF Swap, procVars, Spawned
<1>4. CASE Stop
  BY <1>0, <1>4 DEF Stop, procVars, Spawned
<1>5. CASE Finish
  BY <1>0, <1>5 DEF Finish, Kill, Spawned
<1>6. CASE Wake
  BY <1>0, <1>6 DEF Wake, procVars, Spawned
<1>7. CASE Check
  BY <1>0, <1>7 DEF Check, procVars, Spawned
<1>8. CASE Seize
  BY <1>0, <1>8 DEF Seize, procVars, Spawned
<1>9. CASE Reap
  BY <1>0, <1>9 DEF Reap, Kill, procVars, Spawned
<1>10. CASE Hide
  BY <1>0, <1>10 DEF Hide, procVars, Spawned
<1>11. CASE Apply
  BY <1>11 DEF Apply, launchVars, procVars, Spawned
<1> QED
  BY <1>1, <1>2, <1>3, <1>4, <1>5, <1>6, <1>7, <1>8, <1>9, <1>10, <1>11

(* Shells that end and start, clicks, and servers that hang or die.        *)
LEMMA EnvironmentInv ==
  ASSUME IInv, End \/ Click \/ Start \/ \E s \in Spawned : Fault(s)
  PROVE  MutexInv' /\ KnownInv' /\ SpawnInv'
<1>0. pc \in [Threads -> Launching \cup MainSteps \cup SupSteps \cup {"gone"}]
  BY DEF IInv, TypeOK
<1> USE DEF Threads, Critical, IInv, MutexInv, KnownInv, SpawnInv
<1>1. CASE End
  BY <1>0, <1>1 DEF End, procVars, Spawned
<1>2. CASE Click
  BY <1>0, <1>2 DEF Click, launchVars, procVars, Spawned
<1>3. CASE Start
  BY <1>0, <1>3 DEF Start, Goto, ThreadsInv, Running, procVars, Spawned
<1>4. ASSUME NEW s \in Spawned, Fault(s) PROVE MutexInv' /\ KnownInv' /\ SpawnInv'
  BY <1>0, <1>4 DEF Fault, launchVars, Spawned
<1> QED
  BY <1>1, <1>2, <1>3, <1>4

LEMMA ThreadsStep ==
  ASSUME IInv, [Next]_vars
  PROVE  ThreadsInv'
<1>0. pc \in [Threads -> Launching \cup MainSteps \cup SupSteps \cup {"gone"}]
  BY DEF IInv, TypeOK
<1> USE DEF Threads, IInv, ThreadsInv, Running, Goto
<1>1. CASE \E t \in Threads : Launch(t)
  <2> SUFFICES ASSUME NEW t \in Threads, Launch(t) PROVE ThreadsInv'
    BY <1>1
  <2>1. CASE Lock(t) \/ Take(t) \/ Serve(t)
    BY <1>0, <2>1 DEF Lock, Take, Serve, stateVars
  <2>2. CASE GiveUp(t) \/ Recover(t) \/ Spawn(t) \/ Record(t)
    BY <1>0, <2>2 DEF GiveUp, Recover, Spawn, Record, stateVars
  <2>3. CASE Show(t)
    BY <1>0, <2>3 DEF Show
  <2>4. CASE Fail(t)
    BY <1>0, <2>4 DEF Fail, stateVars
  <2> QED
    BY <2>1, <2>2, <2>3, <2>4 DEF Launch
<1>2. CASE Apply \/ Retry \/ Close \/ Swap \/ Stop \/ Finish
  BY <1>0, <1>2 DEF Apply, Retry, Close, Swap, Stop, Finish, launchVars, stateVars
<1>3. CASE Wake \/ Check \/ Seize \/ Reap \/ Hide
  BY <1>0, <1>3 DEF Wake, Check, Seize, Reap, Hide, stateVars
<1>4. CASE Exit \/ Killed
  BY <1>4 DEF Exit, Killed, End
<1>5. CASE Click \/ Start \/ \E s \in Spawned : Fault(s)
  BY <1>0, <1>5 DEF Click, Start, Fault, launchVars, stateVars
<1>6. CASE UNCHANGED vars
  BY <1>6 DEF vars, launchVars, stateVars
<1> QED
  BY <1>1, <1>2, <1>3, <1>4, <1>5, <1>6 DEF Next, Main, Supervise, Environment

LEMMA InvStep == IInv /\ [Next]_vars => IInv'
<1> SUFFICES ASSUME IInv, [Next]_vars PROVE IInv'
  OBVIOUS
<1>1. TypeOK' /\ ThreadsInv'
  BY TypeStep, ThreadsStep
<1>2. MutexInv' /\ KnownInv' /\ SpawnInv'
  <2>1. CASE \E t \in Threads : Launch(t)
    BY <2>1, LaunchInv
  <2>2. CASE Apply \/ Retry \/ Close \/ Swap \/ Stop \/ Finish \/ Wake \/ Check \/ Seize \/ Reap \/ Hide
    BY <2>2, OutsideInv
  <2>3. CASE Exit \/ Killed \/ Click \/ Start \/ \E s \in Spawned : Fault(s)
    BY <2>3, EnvironmentInv DEF Exit, Killed
  <2>4. CASE UNCHANGED vars
    BY <2>4 DEF IInv, MutexInv, KnownInv, SpawnInv, vars, launchVars, procVars, Spawned
  <2> QED
    BY <2>1, <2>2, <2>3, <2>4 DEF Next, Main, Supervise, Environment, Threads
<1> QED
  BY <1>1, <1>2 DEF IInv
-----------------------------------------------------------------------------
LEMMA InvImplies == IInv => OneServer /\ OrphansRecorded
<1> SUFFICES ASSUME IInv PROVE OneServer /\ OrphansRecorded
  OBVIOUS
<1>1. OneServer
  <2> SUFFICES ASSUME NEW r \in alive \ lost, NEW s \in alive \ lost PROVE r = s
    BY DEF OneServer
  <2>1. CASE \E t \in Threads : pc[t] = "record"
    BY <2>1 DEF IInv, SpawnInv
  <2>2. CASE ~\E t \in Threads : pc[t] = "record"
    BY <2>2 DEF IInv, KnownInv
  <2> QED
    BY <2>1, <2>2
<1>2. OrphansRecorded
  <2> SUFFICES ASSUME NEW s \in alive \ lost, owner[s] < shell \/ ~Running, record # s PROVE FALSE
    BY DEF OrphansRecorded
  <2>1. PICK t \in Threads : pc[t] = "record" /\ held[t] = s
    BY DEF IInv, KnownInv
  <2>2. Running
    BY <2>1 DEF IInv, ThreadsInv, Running, Threads
  <2>3. owner[s] = shell /\ shell \in Nat
    BY <2>1 DEF IInv, SpawnInv, TypeOK
  <2> QED
    BY <2>2, <2>3
<1> QED
  BY <1>1, <1>2

-----------------------------------------------------------------------------
(* The successor of a failed server.  While no Retry was clicked during a  *)
(* recovery, a Retry is clicked, and its launch runs, only when the slot   *)
(* is empty and the supervisor is asleep.                                  *)

Asleep == /\ pc["sup"] \in {"sleep", "gone"} /\ slot = NoServer
          /\ asked = "none" /\ ~ armed

(* What a click needs: the recovery window with its button, or on its way. *)
Offered == asked = "recovery" \/ (asked = "none" /\ window = "recovery" /\ armed)

OfferInv == Offered => pc["sup"] = "show" \/ (slot = NoServer /\ pc["sup"] \notin {"check", "seize"})

(* The slot stays empty from seize to the end of the supervisor's launch.  *)
EmptyInv == pc["sup"] \in {"reap", "hide"} \cup (Launching \ {"show"}) => slot = NoServer

RetryInv ==
  /\ clicked => Asleep
  /\ pc["main"] \in (Launching \ {"show"}) \cup {"gone"} => Asleep /\ ~ clicked
  /\ pc["main"] = "show" => ~ armed /\ ~ clicked

SeenInv == pc["sup"] \in {"check", "seize"} => slot \in {seen, NoServer}

SpareInv == early \/ (OfferInv /\ EmptyInv /\ RetryInv /\ SeenInv)

LEMMA SpareInit == Init => SpareInv
BY DEF Init, Fresh, SpareInv, OfferInv, Offered, EmptyInv, RetryInv, SeenInv, Asleep, Launching

(* A step of the main thread that fills no slot and touches no window.     *)
LEMMA SpareElsewhere ==
  ASSUME SpareInv, ~ early, NEW n,
         pc["main"] # "gone", pc'["main"] = n, pc'["sup"] = pc["sup"], slot' \in {slot, NoServer},
         UNCHANGED <<seen, window, asked, armed>>,
         n = "show" => pc["main"] = "show",
         n \in Launching \ {"show"} => pc["main"] \in Launching \ {"show"} \/ (clicked /\ ~ clicked'),
         n # "gone", clicked' => clicked
  PROVE  SpareInv'
BY DEF SpareInv, OfferInv, Offered, EmptyInv, RetryInv, SeenInv, Asleep, Launching

LEMMA SpareMain ==
  ASSUME IInv, SpareInv, ~ early,
         Launch("main") \/ Apply \/ Retry \/ Close \/ Swap \/ Stop \/ Finish
  PROVE  SpareInv'
<1>0. pc \in [Threads -> Launching \cup MainSteps \cup SupSteps \cup {"gone"}] /\ "main" \in Threads /\ "sup" \in Threads
  BY DEF IInv, TypeOK, Threads
<1>1. OfferInv /\ EmptyInv /\ RetryInv /\ SeenInv
  BY DEF SpareInv
<1> DEFINE At(n) == pc'["main"] = n /\ pc'["sup"] = pc["sup"]
<1>2. \A n : Goto("main", n) => At(n)
  BY <1>0 DEF Goto
<1> HIDE DEF At
<1>3. CASE Lock("main") \/ Take("main") \/ GiveUp("main") \/ Recover("main") \/ Spawn("main") \/ Record("main")
  <2>1. PICK n \in {"take", "judge", "fail", "recover", "spawn", "record", "wait"} : At(n)
    BY <1>2, <1>3 DEF Lock, Take, GiveUp, Recover, Spawn, Record
  <2>2. pc["main"] \in {"lock", "take", "judge", "wait", "recover", "spawn", "record"}
    BY <1>3 DEF Lock, Take, GiveUp, Recover, Spawn, Record
  <2>3. slot' \in {slot, NoServer} /\ UNCHANGED <<seen, window, asked, armed, clicked>>
    BY <1>3 DEF Lock, Take, GiveUp, Recover, Spawn, Record, stateVars, supVars, uiVars
  <2> QED
    <3>1. n \in Launching \ {"show"} /\ pc["main"] \in Launching \ {"show"}
      BY <2>1, <2>2 DEF Launching
    <3>2. n # "gone" /\ n # "show" /\ pc["main"] # "gone" /\ pc'["main"] = n /\ pc'["sup"] = pc["sup"]
      BY <2>1, <2>2 DEF At
    <3>3. clicked' => clicked
      BY <2>3
    <3> QED
      BY <2>3, <3>1, <3>2, <3>3, SpareElsewhere
<1>4. CASE Serve("main")
  <2>1. pc["main"] \in {"judge", "wait"} /\ At("show") /\ UNCHANGED <<early, seen, window, asked, armed, clicked>>
    BY <1>2, <1>4 DEF Serve, supVars, uiVars
  <2>2. Asleep /\ ~ clicked
    BY <1>1, <2>1 DEF RetryInv, Launching
  <2> QED
    BY <2>1, <2>2 DEF At, Asleep, SpareInv, OfferInv, Offered, EmptyInv, RetryInv, SeenInv, Launching
<1>5. CASE Show("main")
  <2>1. /\ pc["main"] = "show" /\ pc'["main"] = "idle" /\ window' = "main"
        /\ UNCHANGED <<slot, early, seen, asked, armed, clicked>>
    BY <1>5 DEF Show, Open, supVars
  <2>2. pc'["sup"] = pc["sup"] \/ (pc["sup"] = "gone" /\ pc'["sup"] = "sleep")
    <3>1. pc'["sup"] = IF ~ supervised THEN "sleep" ELSE pc["sup"]
      BY <1>5 DEF Show
    <3> QED
      BY <3>1 DEF IInv, ThreadsInv
  <2>3. ~ clicked
    BY <1>1, <2>1 DEF RetryInv
  <2> QED
    BY <1>1, <2>1, <2>2, <2>3 DEF SpareInv, OfferInv, Offered, EmptyInv, RetryInv, SeenInv, Launching
<1>6. CASE Fail("main")
  <2>1. pc["main"] = "fail" /\ At("idle") /\ UNCHANGED <<slot, early, seen, asked, clicked>>
    BY <1>2, <1>6 DEF Fail, Open, stateVars, supVars
  <2>2. Asleep /\ ~ clicked
    BY <1>1, <2>1 DEF RetryInv, Launching
  <2> QED
    BY <2>1, <2>2 DEF At, Asleep, SpareInv, OfferInv, Offered, EmptyInv, RetryInv, SeenInv, Launching
<1>7. CASE Apply
  <2>1. /\ pc["main"] = "idle" /\ asked # "none" /\ window' = asked /\ asked' = "none"
        /\ UNCHANGED <<pc, slot, early, seen, clicked>>
    BY <1>7 DEF Apply, launchVars, stateVars, supVars
  <2>2. ~ clicked
    BY <1>1, <2>1 DEF RetryInv, Asleep
  <2> QED
    BY <1>1, <2>1, <2>2 DEF SpareInv, OfferInv, Offered, EmptyInv, RetryInv, SeenInv, Launching
<1>8. CASE Retry
  <2>1. pc["main"] = "idle" /\ clicked /\ ~ clicked' /\ At("lock") /\ UNCHANGED <<slot, seen, window, asked, armed>>
    BY <1>2, <1>8 DEF Retry, stateVars, supVars
  <2> QED
    BY <2>1, SpareElsewhere DEF At
<1>9. CASE Close \/ Swap \/ Stop \/ Finish
  <2>1. PICK n \in {"swap", "stop", "kill"} : At(n)
    BY <1>2, <1>9 DEF Close, Swap, Stop, Finish
  <2>2. pc["main"] # "gone"
    BY <1>9 DEF Close, Swap, Stop, Finish
  <2>3. slot' \in {slot, NoServer} /\ UNCHANGED <<seen, window, asked, armed, clicked>>
    BY <1>9 DEF Close, Swap, Stop, Finish, stateVars, supVars, uiVars
  <2> QED
    BY <2>1, <2>2, <2>3, SpareElsewhere DEF At, Launching
<1> QED
  BY <1>3, <1>4, <1>5, <1>6, <1>7, <1>8, <1>9 DEF Launch

LEMMA SpareSup ==
  ASSUME IInv, SpareInv, ~ early,
         Launch("sup") \/ Wake \/ Check \/ Seize \/ Reap \/ Hide
  PROVE  SpareInv'
<1>0. pc \in [Threads -> Launching \cup MainSteps \cup SupSteps \cup {"gone"}] /\ "main" \in Threads /\ "sup" \in Threads
  BY DEF IInv, TypeOK, Threads
<1>1. OfferInv /\ EmptyInv /\ RetryInv /\ SeenInv
  BY DEF SpareInv
<1> DEFINE At(n) == pc'["sup"] = n /\ pc'["main"] = pc["main"]
<1>2. \A n : Goto("sup", n) => At(n)
  BY <1>0 DEF Goto
<1> HIDE DEF At
(* While it does not sleep nobody launches beside it.                      *)
<1>3. pc["sup"] \notin {"sleep", "gone"} =>
        ~ clicked /\ pc["main"] \notin (Launching \ {"show"}) \cup {"gone"}
  BY <1>1 DEF RetryInv, Asleep
<1>4. CASE Lock("sup") \/ Take("sup") \/ GiveUp("sup") \/ Recover("sup") \/ Spawn("sup") \/ Record("sup")
  <2>1. PICK n \in {"take", "judge", "fail", "recover", "spawn", "record", "wait"} : At(n)
    BY <1>2, <1>4 DEF Lock, Take, GiveUp, Recover, Spawn, Record
  <2>2. pc["sup"] \in {"lock", "take", "judge", "wait", "recover", "spawn", "record"}
    BY <1>4 DEF Lock, Take, GiveUp, Recover, Spawn, Record
  <2>3. slot' \in {slot, NoServer} /\ UNCHANGED <<early, seen, window, asked, armed, clicked>>
    BY <1>4 DEF Lock, Take, GiveUp, Recover, Spawn, Record, stateVars, supVars, uiVars
  <2>4. slot = NoServer
    BY <1>1, <2>2 DEF EmptyInv, Launching
  <2> QED
    BY <1>1, <1>3, <2>1, <2>2, <2>3, <2>4 DEF At, SpareInv, OfferInv, Offered, EmptyInv, RetryInv, SeenInv, Launching
<1>5. CASE Serve("sup")
  <2>1. pc["sup"] \in {"judge", "wait"} /\ At("show") /\ UNCHANGED <<early, seen, window, asked, armed, clicked>>
    BY <1>2, <1>5 DEF Serve, supVars, uiVars
  <2> QED
    BY <1>1, <1>3, <2>1 DEF At, SpareInv, OfferInv, Offered, EmptyInv, RetryInv, SeenInv, Launching
<1>6. CASE Show("sup")
  <2>1. /\ pc["sup"] = "show" /\ At("sleep") /\ asked' = "main"
        /\ UNCHANGED <<slot, early, seen, window, armed, clicked>>
    BY <1>6 DEF Show, Open, supVars, At
  <2> QED
    BY <1>1, <1>3, <2>1 DEF At, SpareInv, OfferInv, Offered, EmptyInv, RetryInv, SeenInv, Launching
<1>7. CASE Fail("sup")
  <2>1. /\ pc["sup"] = "fail" /\ At("sleep") /\ armed' = armed
        /\ UNCHANGED <<slot, early, seen, window, clicked>>
    <3>1. (armed \/ "sup" = "main") = armed
      BY DEF IInv, TypeOK
    <3> QED
      BY <1>2, <1>7, <3>1 DEF Fail, Open, stateVars, supVars
  <2>2. slot = NoServer
    BY <1>1, <2>1 DEF EmptyInv, Launching
  <2> QED
    BY <1>1, <1>3, <2>1, <2>2 DEF At, SpareInv, OfferInv, Offered, EmptyInv, RetryInv, SeenInv, Launching
<1>8. CASE Wake
  <2>1. pc["sup"] = "sleep" /\ UNCHANGED <<slot, early, window, asked, armed, clicked>>
    BY <1>8 DEF Wake, stateVars, uiVars
  <2>2. \/ At("gone") /\ seen' = seen
        \/ At("check") /\ slot # NoServer /\ seen' = slot
    BY <1>2, <1>8 DEF Wake
  <2>3. CASE At("gone") /\ seen' = seen
    BY <1>1, <2>1, <2>3 DEF At, SpareInv, OfferInv, Offered, EmptyInv, RetryInv, SeenInv, Asleep, Launching
  <2>4. CASE At("check") /\ slot # NoServer /\ seen' = slot
    BY <1>1, <2>1, <2>4 DEF At, SpareInv, OfferInv, Offered, EmptyInv, RetryInv, SeenInv, Asleep, Launching
  <2> QED
    BY <2>2, <2>3, <2>4
<1>9. CASE Check \/ Seize \/ Reap
  <2>1. /\ slot' \in {slot, NoServer} /\ UNCHANGED <<early, seen, window, asked, armed, clicked>>
        /\ Seize => slot' = NoServer
    BY <1>9 DEF Check, Seize, Reap, stateVars, supVars, uiVars
  <2>2. \/ pc["sup"] = "check" /\ (At("seize") \/ At("sleep"))
        \/ pc["sup"] = "seize" /\ At("reap") /\ slot' = NoServer
        \/ pc["sup"] = "reap" /\ At("hide")
    BY <1>2, <1>9, <2>1 DEF Check, Seize, Reap
  <2> QED
    BY <1>1, <1>3, <2>1, <2>2 DEF At, SpareInv, OfferInv, Offered, EmptyInv, RetryInv, SeenInv, Launching
<1>10. CASE Hide
  <2>1. pc["sup"] = "hide" /\ At("lock") /\ UNCHANGED <<slot, early, seen, window, armed, clicked>>
    BY <1>2, <1>10 DEF Hide, Open, stateVars, supVars
  <2>2. slot = NoServer
    BY <1>1, <2>1 DEF EmptyInv
  <2> QED
    BY <1>1, <1>3, <2>1, <2>2 DEF At, SpareInv, OfferInv, Offered, EmptyInv, RetryInv, SeenInv, Launching
<1> QED
  BY <1>4, <1>5, <1>6, <1>7, <1>8, <1>9, <1>10 DEF Launch

LEMMA SpareEnvironment ==
  ASSUME IInv, SpareInv, End \/ Click \/ Start \/ (\E s \in Spawned : Fault(s)) \/ UNCHANGED vars
  PROVE  SpareInv'
<1>0. pc \in [Threads -> Launching \cup MainSteps \cup SupSteps \cup {"gone"}]
  BY DEF IInv, TypeOK
<1>1. CASE End
  BY <1>1 DEF End, Threads, SpareInv, OfferInv, Offered, EmptyInv, RetryInv, SeenInv, Asleep, Launching
<1>2. CASE Click
  <2>1. /\ pc["main"] # "gone" /\ window = "recovery" /\ armed /\ ~ armed' /\ clicked'
        /\ early' = (early \/ pc["sup"] \notin {"sleep", "gone"} \/ asked # "none")
        /\ UNCHANGED <<pc, slot, seen, window, asked>>
    BY <1>2 DEF Click, Running, launchVars, stateVars, supVars
  <2>2. SUFFICES ASSUME ~ early' PROVE OfferInv' /\ EmptyInv' /\ RetryInv' /\ SeenInv'
    BY DEF SpareInv
  <2>3. ~ early /\ pc["sup"] \in {"sleep", "gone"} /\ asked = "none"
    BY <2>1, <2>2
  <2>4. OfferInv /\ EmptyInv /\ RetryInv /\ SeenInv
    BY <2>3 DEF SpareInv
  <2>5. slot = NoServer
    BY <2>1, <2>3, <2>4 DEF OfferInv, Offered
  <2>6. pc["main"] \notin Launching \cup {"gone"}
    BY <2>1, <2>4 DEF RetryInv, Asleep
  <2> QED
    BY <2>1, <2>3, <2>4, <2>5, <2>6 DEF OfferInv, Offered, EmptyInv, RetryInv, SeenInv, Asleep, Launching
<1>3. CASE Start \/ (\E s \in Spawned : Fault(s)) \/ UNCHANGED vars
  <2>1. UNCHANGED <<slot, early, seen, window, asked, armed, clicked>>
    BY <1>3 DEF Start, Fault, vars, stateVars, supVars, uiVars
  <2>2. pc' = pc \/ (pc["main"] = "gone" /\ pc'["main"] = "lock" /\ pc'["sup"] = pc["sup"])
    <3>1. CASE Start
      BY <1>0, <3>1 DEF Start, Goto, Running, Threads
    <3>2. CASE UNCHANGED vars
      BY <3>2 DEF vars, launchVars
    <3>3. ASSUME NEW s \in Spawned, Fault(s)
          PROVE  pc' = pc
      BY <3>3 DEF Fault, launchVars
    <3> QED
      BY <1>3, <3>1, <3>2, <3>3
  <2> QED
    BY <2>1, <2>2 DEF SpareInv, OfferInv, Offered, EmptyInv, RetryInv, SeenInv, Asleep, Launching
<1> QED
  BY <1>1, <1>2, <1>3

LEMMA EarlyStays ==
  ASSUME Main \/ Supervise \/ Close, ~ End
  PROVE  early' = early
BY DEF Main, Supervise, Launch, Lock, Take, Serve, GiveUp, Recover, Spawn, Record, Show, Fail, Apply, Retry,
       Close, Swap, Stop, Finish, Exit, Wake, Check, Seize, Reap, Hide, uiVars

LEMMA SpareStep == IInv /\ SpareInv /\ [Next]_vars => SpareInv'
<1> SUFFICES ASSUME IInv, SpareInv, [Next]_vars PROVE SpareInv'
  OBVIOUS
<1>1. CASE End \/ Click \/ Start \/ (\E s \in Spawned : Fault(s)) \/ UNCHANGED vars
  BY <1>1, SpareEnvironment
<1>2. CASE /\ ~ Click /\ ~ End
           /\ Main \/ Supervise \/ Close
  <2>1. CASE early
    BY <1>2, <2>1, EarlyStays DEF SpareInv
  <2>2. CASE ~ early
    BY <1>2, <2>2, SpareMain, SpareSup DEF Main, Supervise, Exit
  <2> QED
    BY <2>1, <2>2
<1> QED
  BY <1>1, <1>2 DEF Next, Environment, Main, Exit, Killed

-----------------------------------------------------------------------------
(* The way back.  Whoever empties the slot fills it again, offers Retry or *)
(* shuts the shell down.                                                   *)

Up == pc["main"] \in Launching \cup {"idle"}

WayInv ==
  early \/
  /\ clicked => window = "recovery"
  /\ pc["main"] \in (Launching \ {"show"}) \cup {"gone"} => window # "main"
  /\ Up /\ pc["sup"] \in {"check", "show"} => slot # NoServer
  /\ pc["main"] \in {"idle", "show"} /\ pc["sup"] \in {"sleep", "gone"} /\ slot = NoServer => clicked \/ Offered

LEMMA WayInit == Init => WayInv
BY DEF Init, Fresh, WayInv, Up, Offered, Launching

LEMMA WayMain ==
  ASSUME IInv, SpareInv, WayInv, ~ early,
         Launch("main") \/ Apply \/ Retry \/ Close \/ Swap \/ Stop \/ Finish
  PROVE  WayInv'
<1>0. pc \in [Threads -> Launching \cup MainSteps \cup SupSteps \cup {"gone"}] /\ "main" \in Threads /\ "sup" \in Threads
  BY DEF IInv, TypeOK, Threads
<1>1. OfferInv /\ EmptyInv /\ RetryInv /\ SeenInv
  BY DEF SpareInv
<1> DEFINE At(n) == pc'["main"] = n /\ pc'["sup"] = pc["sup"]
<1>2. \A n : Goto("main", n) => At(n)
  BY <1>0 DEF Goto
<1> HIDE DEF At
<1>3. CASE Lock("main") \/ Take("main") \/ GiveUp("main") \/ Recover("main") \/ Spawn("main") \/ Record("main")
  <2>1. PICK n \in {"take", "judge", "fail", "recover", "spawn", "record", "wait"} : At(n)
    BY <1>2, <1>3 DEF Lock, Take, GiveUp, Recover, Spawn, Record
  <2>2. pc["main"] \in {"lock", "take", "judge", "wait", "recover", "spawn", "record"}
    BY <1>3 DEF Lock, Take, GiveUp, Recover, Spawn, Record
  <2>3. UNCHANGED <<window, clicked>>
    BY <1>3 DEF Lock, Take, GiveUp, Recover, Spawn, Record, stateVars, supVars, uiVars
  <2>4. Asleep /\ ~ clicked
    BY <1>1, <2>2 DEF RetryInv, Launching
  <2> QED
    BY <2>1, <2>2, <2>3, <2>4 DEF At, WayInv, Up, Asleep, Launching
<1>4. CASE Serve("main")
  <2>1. /\ pc["main"] \in {"judge", "wait"} /\ At("show") /\ UNCHANGED <<early, seen, window, asked, armed, clicked>>
        /\ slot' \in answering
    BY <1>2, <1>4 DEF Serve, supVars, uiVars
  <2>2. Asleep /\ ~ clicked
    BY <1>1, <2>1 DEF RetryInv, Launching
  <2>3. slot' # NoServer
    BY <2>1 DEF IInv, TypeOK, Spawned, NoServer
  <2> QED
    BY <2>1, <2>2, <2>3 DEF At, WayInv, Up, Asleep, Launching
<1>5. CASE Show("main")
  <2>1. /\ pc["main"] = "show" /\ pc'["main"] = "idle" /\ window' = "main"
        /\ UNCHANGED <<slot, early, seen, asked, armed, clicked>>
    BY <1>5 DEF Show, Open, supVars
  <2>2. pc'["sup"] = pc["sup"] \/ (pc["sup"] = "gone" /\ pc'["sup"] = "sleep")
    <3>1. pc'["sup"] = IF ~ supervised THEN "sleep" ELSE pc["sup"]
      BY <1>5 DEF Show
    <3> QED
      BY <3>1 DEF IInv, ThreadsInv
  <2>3. ~ clicked /\ ~ armed
    BY <1>1, <2>1 DEF RetryInv
  <2> QED
    BY <1>1, <2>1, <2>2, <2>3 DEF WayInv, Up, Offered, Launching
<1>6. CASE Fail("main")
  <2>1. /\ pc["main"] = "fail" /\ At("idle") /\ UNCHANGED <<slot, early, asked, clicked>>
        /\ window' = IF window = "none" THEN "recovery" ELSE window
        /\ armed'
    BY <1>2, <1>6 DEF Fail, Open, stateVars, supVars
  <2>2. Asleep /\ ~ clicked /\ window # "main"
    BY <1>1, <2>1 DEF RetryInv, WayInv, Launching
  <2>3. window' = "recovery"
    BY <2>1, <2>2 DEF IInv, TypeOK
  <2> QED
    BY <2>1, <2>2, <2>3 DEF At, Asleep, WayInv, Up, Offered, Launching
<1>7. CASE Apply
  <2>1. /\ pc["main"] = "idle" /\ asked # "none" /\ window' = asked /\ asked' = "none"
        /\ UNCHANGED <<pc, slot, early, clicked>>
    BY <1>7 DEF Apply, launchVars, stateVars, supVars
  <2>2. asked = "recovery" => armed'
    BY <1>7 DEF Apply
  <2>3. ~ clicked
    BY <1>1, <2>1 DEF RetryInv, Asleep
  <2> QED
    BY <2>1, <2>2, <2>3 DEF WayInv, Up, Offered, Launching
<1>8. CASE Retry
  <2>1. pc["main"] = "idle" /\ clicked /\ ~ clicked' /\ At("lock") /\ UNCHANGED <<slot, window>>
    BY <1>2, <1>8 DEF Retry, stateVars, supVars
  <2>2. pc["sup"] \notin {"check", "show"}
    BY <1>1, <2>1 DEF RetryInv, Asleep
  <2> QED
    BY <2>1, <2>2 DEF At, WayInv, Up, Launching
<1>9. CASE Close \/ Swap \/ Stop \/ Finish
  <2>1. PICK n \in {"swap", "stop", "kill"} : At(n)
    BY <1>2, <1>9 DEF Close, Swap, Stop, Finish
  <2>2. UNCHANGED <<window, clicked>>
    BY <1>9 DEF Close, Swap, Stop, Finish, stateVars, supVars, uiVars
  <2> QED
    BY <2>1, <2>2 DEF At, WayInv, Up, Launching
<1> QED
  BY <1>3, <1>4, <1>5, <1>6, <1>7, <1>8, <1>9 DEF Launch

LEMMA WaySup ==
  ASSUME IInv, SpareInv, WayInv, ~ early,
         Launch("sup") \/ Wake \/ Check \/ Seize \/ Reap \/ Hide
  PROVE  WayInv'
<1>0. pc \in [Threads -> Launching \cup MainSteps \cup SupSteps \cup {"gone"}] /\ "main" \in Threads /\ "sup" \in Threads
  BY DEF IInv, TypeOK, Threads
<1>1. OfferInv /\ EmptyInv /\ RetryInv /\ SeenInv
  BY DEF SpareInv
<1> DEFINE At(n) == pc'["sup"] = n /\ pc'["main"] = pc["main"]
<1>2. \A n : Goto("sup", n) => At(n)
  BY <1>0 DEF Goto
<1> HIDE DEF At
<1>3. pc["sup"] \notin {"sleep", "gone"} =>
        ~ clicked /\ pc["main"] \notin (Launching \ {"show"}) \cup {"gone"}
  BY <1>1 DEF RetryInv, Asleep
<1>4. CASE Lock("sup") \/ Take("sup") \/ GiveUp("sup") \/ Recover("sup") \/ Spawn("sup") \/ Record("sup")
  <2>1. PICK n \in {"take", "judge", "fail", "recover", "spawn", "record", "wait"} : At(n)
    BY <1>2, <1>4 DEF Lock, Take, GiveUp, Recover, Spawn, Record
  <2>2. UNCHANGED <<window, clicked>>
    BY <1>4 DEF Lock, Take, GiveUp, Recover, Spawn, Record, stateVars, supVars, uiVars
  <2> QED
    BY <2>1, <2>2 DEF At, WayInv, Up, Launching
<1>5. CASE Serve("sup")
  <2>1. At("show") /\ UNCHANGED <<window, clicked>> /\ slot' \in answering
    BY <1>2, <1>5 DEF Serve, supVars, uiVars
  <2>2. slot' # NoServer
    BY <2>1 DEF IInv, TypeOK, Spawned, NoServer
  <2> QED
    BY <2>1, <2>2 DEF At, WayInv, Up, Launching
<1>6. CASE Show("sup")
  <2>1. /\ pc["sup"] = "show" /\ At("sleep") /\ UNCHANGED <<slot, window, clicked>>
    BY <1>6 DEF Show, Open, supVars, At
  <2> QED
    BY <1>1, <1>3, <2>1 DEF At, WayInv, Up, Launching
<1>7. CASE Fail("sup")
  <2>1. /\ pc["sup"] = "fail" /\ At("sleep") /\ asked' = "recovery" /\ UNCHANGED <<window, clicked>>
    BY <1>2, <1>7 DEF Fail, Open, stateVars, supVars
  <2> QED
    BY <1>3, <2>1 DEF At, WayInv, Up, Offered, Launching
<1>8. CASE Wake
  <2>1. pc["sup"] = "sleep" /\ UNCHANGED <<slot, window, asked, armed, clicked>>
    BY <1>8 DEF Wake, stateVars, uiVars
  <2>2. At("gone") \/ (At("check") /\ slot # NoServer)
    BY <1>2, <1>8 DEF Wake
  <2> QED
    BY <2>1, <2>2 DEF At, WayInv, Up, Offered, Launching
<1>9. CASE Check \/ Seize \/ Reap \/ Hide
  <2>1. UNCHANGED <<window, clicked>> /\ (Check => slot' = slot)
    BY <1>9 DEF Check, Seize, Reap, Hide, Open, stateVars, supVars, uiVars
  <2>2. \/ pc["sup"] = "check" /\ Check /\ (At("seize") \/ At("sleep"))
        \/ At("reap") \/ At("hide") \/ At("lock")
    BY <1>2, <1>9 DEF Check, Seize, Reap, Hide
  <2> QED
    BY <1>3, <2>1, <2>2 DEF At, WayInv, Up, Launching
<1> QED
  BY <1>4, <1>5, <1>6, <1>7, <1>8, <1>9 DEF Launch

LEMMA WayEnvironment ==
  ASSUME IInv, SpareInv, WayInv, End \/ Click \/ Start \/ (\E s \in Spawned : Fault(s)) \/ UNCHANGED vars
  PROVE  WayInv'
<1>0. pc \in [Threads -> Launching \cup MainSteps \cup SupSteps \cup {"gone"}]
  BY DEF IInv, TypeOK
<1>1. CASE End
  BY <1>1 DEF End, Threads, WayInv, Up, Launching
<1>2. CASE Click
  <2>1. /\ window = "recovery" /\ clicked' /\ (early => early') /\ UNCHANGED <<pc, slot, window>>
    BY <1>2 DEF Click, launchVars, stateVars, supVars
  <2> QED
    BY <2>1 DEF WayInv, Up
<1>3. CASE Start \/ (\E s \in Spawned : Fault(s)) \/ UNCHANGED vars
  <2>1. UNCHANGED <<slot, early, window, asked, armed, clicked>>
    BY <1>3 DEF Start, Fault, vars, stateVars, supVars, uiVars
  <2>2. pc' = pc \/ (Start /\ pc["main"] = "gone" /\ pc'["main"] = "lock" /\ pc'["sup"] = pc["sup"])
    <3>1. CASE Start
      BY <1>0, <3>1 DEF Start, Goto, Running, Threads
    <3>2. CASE UNCHANGED vars
      BY <3>2 DEF vars, launchVars
    <3>3. ASSUME NEW s \in Spawned, Fault(s)
          PROVE  pc' = pc
      BY <3>3 DEF Fault, launchVars
    <3> QED
      BY <1>3, <3>1, <3>2, <3>3
  <2>3. CASE pc' = pc
    BY <2>1, <2>3 DEF WayInv, Up, Offered
  <2>4. CASE Start /\ pc["main"] = "gone" /\ pc'["main"] = "lock" /\ pc'["sup"] = pc["sup"]
    <3>1. pc["sup"] = "gone"
      BY <2>4 DEF IInv, ThreadsInv, Running
    <3> QED
      BY <2>1, <2>4, <3>1 DEF WayInv, Up, Launching
  <2> QED
    BY <2>2, <2>3, <2>4
<1> QED
  BY <1>1, <1>2, <1>3

LEMMA WayStep == IInv /\ SpareInv /\ WayInv /\ [Next]_vars => WayInv'
<1> SUFFICES ASSUME IInv, SpareInv, WayInv, [Next]_vars PROVE WayInv'
  OBVIOUS
<1>1. CASE End \/ Click \/ Start \/ (\E s \in Spawned : Fault(s)) \/ UNCHANGED vars
  BY <1>1, WayEnvironment
<1>2. CASE /\ ~ Click /\ ~ End
           /\ Main \/ Supervise \/ Close
  <2>1. CASE early
    BY <1>2, <2>1, EarlyStays DEF WayInv
  <2>2. CASE ~ early
    BY <1>2, <2>2, WayMain, WaySup DEF Main, Supervise, Exit
  <2> QED
    BY <2>1, <2>2
<1> QED
  BY <1>1, <1>2 DEF Next, Environment, Main, Exit, Killed

(* The state of the shell, its threads and its servers keeps its types     *)
(* (NextServerState, RuntimeState).                                        *)
THEOREM TypeCorrect == Spec => []TypeOK
<1>1. IInv => TypeOK
  BY DEF IInv
<1> QED
  BY <1>1, InitInv, InvStep, PTL DEF Spec

(* One server process at a time: start_server_with_retries under the       *)
(* startup mutex and recover_recorded_runtime before every spawn suffice,  *)
(* whatever the supervisor, a shutdown and a killed shell do in between.   *)
THEOREM OneServerAlways == Spec => []OneServer
BY InitInv, InvStep, InvImplies, PTL DEF Spec

(* A server that outlives its shell is in the ownership file               *)
(* (write_runtime_state), unless the shell is killed before writing it.    *)
THEOREM OrphansRecordedAlways == Spec => []OrphansRecorded
BY InitInv, InvStep, InvImplies, PTL DEF Spec

(* The recovery stops the server whose health check failed, and none that  *)
(* has taken its place (start_runtime_supervisor), unless Retry was clicked*)
(* before an earlier recovery was done: any number of them, and of Retries *)
(* in between.                                                             *)
THEOREM SparesSuccessorAlways == Spec => SparesSuccessor
<1> DEFINE Spares == pc["sup"] = "seize" /\ pc'["sup"] = "reap" /\ ~early => slot \in {seen, NoServer}
<1>1. SpareInv /\ [Next]_vars => [Spares]_vars
  BY DEF SpareInv, SeenInv
<1>2. Spec => []SpareInv
  BY InitInv, InvStep, SpareInit, SpareStep, PTL DEF Spec
<1> QED
  BY <1>1, <1>2, PTL DEF Spec, SparesSuccessor

(* The shell never rests without a server and without a Retry to click,    *)
(* however often servers and recoveries fail (launch_desktop_ui,           *)
(* start_runtime_supervisor): the part of Recovers that is no liveness.    *)
THEOREM WayBackAlways == Spec => []WayBack
<1>1. SpareInv /\ WayInv => WayBack
  BY DEF WayInv, WayBack, Offered
<1> QED
  BY <1>1, InitInv, InvStep, SpareInit, SpareStep, WayInit, WayStep, PTL DEF Spec
===============================================================================
