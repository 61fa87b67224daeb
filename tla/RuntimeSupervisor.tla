-------------------------- MODULE RuntimeSupervisor --------------------------
(***************************************************************************)
(* The desktop shell and its bundled Next server (src-tauri/src/lib.rs):   *)
(* the launch with its retries, the health supervisor, the recovery window *)
(* with its Retry button, the orderly shutdown, and the ownership file     *)
(* from which the next shell recovers a server that outlived its shell.    *)
(*                                                                         *)
(* Two threads act.  "main" runs the setup, the commands and the window    *)
(* and exit events one after the other; "sup" is the supervisor.  Both     *)
(* launch the server through the same procedure under the startup mutex.   *)
(* Servers may hang or die, the shell may be killed.  What a window shows  *)
(* changes at once when the main thread asks for it; what the supervisor   *)
(* asks of a window is done when the main thread is free.                  *)
(***************************************************************************)
EXTENDS Naturals, Sequences

CONSTANTS
  MaxAttempts,  \* attempts of one launch: 3 in the code
  MaxMisses,    \* failed health checks of a live server before its recovery: 3
  MaxFaults,    \* bound: servers that hang, die or never become ready, shells killed
  MaxShells,    \* bound: shells started one after the other
  MaxClicks     \* bound: clicks on Retry

ASSUME RuntimeAssumption ==
  /\ MaxAttempts \in Nat \ {0} /\ MaxMisses \in Nat \ {0}
  /\ MaxFaults \in Nat /\ MaxShells \in Nat \ {0} /\ MaxClicks \in Nat

VARIABLES
  pc,          \* pc[t]: the next step of thread t
  held,        \* held[t]: the server whose Child the thread has in a local
  tries,       \* tries[t]: attempts this launch has failed
  mutex,       \* NextServerState.startup: the thread that holds it, or "free"
  slot,        \* NextServerState.process
  closing,     \* NextServerState.shutting_down
  supervised,  \* NextServerState.supervisor_started
  misses,      \* failed_health_checks
  seen,        \* the ownership the supervisor copied out of the slot
  window,      \* "none", "main" or "recovery": the window the user sees
  asked,       \* the window the supervisor has asked for, "none" when that is done
  armed,       \* the Retry button is enabled
  clicked,     \* desktop_retry_startup has been invoked and not yet run
  round,       \* how often this shell has entered orderly_shutdown
  owner,       \* owner[s]: the shell that spawned server s; 1, 2, ... are servers
  shell,       \* the number of the running (or last) shell
  alive,       \* the server processes that exist
  answering,   \* those that answer the authenticated health request
  record,      \* the server named by the runtime state file
  lost,        \* history: servers whose shell was killed before it recorded them
  early,       \* history: Retry was clicked before the supervisor had done recovering
  faults, clicks \* how many faults and clicks there were

launchVars == <<pc, held, tries, mutex>>
stateVars  == <<slot, closing, supervised>>
supVars    == <<misses, seen>>
uiVars     == <<window, asked, armed, clicked, clicks, early>>
procVars   == <<alive, answering, record>>
vars == <<launchVars, stateVars, supVars, uiVars, procVars, round, owner, shell, lost, faults>>

NoServer  == 0
Spawned   == 1 .. Len(owner)
Threads   == {"main", "sup"}
Launching == {"lock", "take", "judge", "recover", "spawn", "record", "wait", "show", "fail"}
MainSteps == {"idle", "swap", "stop", "kill"}
SupSteps  == {"sleep", "check", "seize", "reap", "hide"}

TypeOK ==
  /\ pc \in [Threads -> Launching \cup MainSteps \cup SupSteps \cup {"gone"}]
  /\ held \in [Threads -> Spawned \cup {NoServer}]
  /\ tries \in [Threads -> Nat]
  /\ mutex \in Threads \cup {"free"}
  /\ slot \in Spawned \cup {NoServer}
  /\ closing \in BOOLEAN /\ supervised \in BOOLEAN
  /\ misses \in Nat /\ seen \in Spawned \cup {NoServer}
  /\ window \in {"none", "main", "recovery"} /\ asked \in {"none", "main", "recovery"}
  /\ armed \in BOOLEAN /\ clicked \in BOOLEAN /\ early \in BOOLEAN
  /\ round \in Nat /\ shell \in Nat /\ owner \in Seq(Nat)
  /\ answering \subseteq alive /\ alive \subseteq Spawned
  /\ record \in Spawned \cup {NoServer}
  /\ lost \subseteq Spawned /\ faults \in Nat /\ clicks \in Nat

Running == pc["main"] # "gone"

(* A shell starts: Tauri's setup launches the server.                      *)
Fresh(n) ==
  /\ pc = [main |-> "lock", sup |-> "gone"]
  /\ held = [t \in Threads |-> NoServer] /\ tries = [t \in Threads |-> 0]
  /\ mutex = "free" /\ slot = NoServer /\ closing = FALSE /\ supervised = FALSE
  /\ misses = 0 /\ seen = NoServer
  /\ window = "none" /\ asked = "none" /\ armed = FALSE /\ clicked = FALSE
  /\ round = 0 /\ shell = n

Init ==
  /\ Fresh(1)
  /\ alive = {} /\ answering = {} /\ owner = <<>> /\ record = NoServer
  /\ lost = {} /\ faults = 0 /\ clicks = 0 /\ early = FALSE
-----------------------------------------------------------------------------
(* start_server_with_retries and start_next_server.                        *)

Goto(t, step) == pc' = [pc EXCEPT ![t] = step]

(* terminate_child_process, then remove_runtime_state_if_owned.            *)
Kill(s) ==
  /\ alive' = alive \ {s} /\ answering' = answering \ {s}
  /\ record' = IF record = s THEN NoServer ELSE record

(* The startup mutex is taken and shutting_down is lowered.                *)
Lock_NoMutex(t) ==
  /\ pc[t] = "lock"
  /\ mutex' = t /\ closing' = FALSE
  /\ Goto(t, "take")
  /\ UNCHANGED <<held, tries, slot, supervised, supVars, uiVars, procVars, round, owner, shell, lost, faults>>
Lock(t) ==
  /\ pc[t] = "lock" /\ mutex = "free"
  /\ mutex' = t /\ closing' = FALSE
  /\ Goto(t, "take")
  /\ UNCHANGED <<held, tries, slot, supervised, supVars, uiVars, procVars, round, owner, shell, lost, faults>>

(* The process of an earlier launch is taken out of its slot.              *)
Take(t) ==
  /\ pc[t] = "take"
  /\ held' = [held EXCEPT ![t] = slot] /\ slot' = NoServer
  /\ tries' = [tries EXCEPT ![t] = 0]
  /\ Goto(t, IF slot = NoServer THEN "recover" ELSE "judge")
  /\ UNCHANGED <<mutex, closing, supervised, supVars, uiVars, procVars, round, owner, shell, lost, faults>>

(* A server that answers goes into the slot and ends the launch: the one   *)
(* found there ("judge"), or the new one (wait_for_local_server, "wait").  *)
Serve(t) ==
  /\ pc[t] \in {"judge", "wait"} /\ held[t] \in answering
  /\ slot' = held[t] /\ held' = [held EXCEPT ![t] = NoServer]
  /\ mutex' = "free"
  /\ Goto(t, "show")
  /\ UNCHANGED <<tries, closing, supervised, supVars, uiVars, procVars, round, owner, shell, lost, faults>>

(* One that does not is killed; a new one counts as a failed attempt.      *)
GiveUp(t) ==
  LET spent == tries[t] + IF pc[t] = "wait" THEN 1 ELSE 0 IN
  /\ pc[t] \in {"judge", "wait"} /\ held[t] \notin answering
  /\ Kill(held[t]) /\ held' = [held EXCEPT ![t] = NoServer]
  /\ tries' = [tries EXCEPT ![t] = spent]
  /\ mutex' = IF spent = MaxAttempts THEN "free" ELSE mutex
  /\ Goto(t, IF spent = MaxAttempts THEN "fail" ELSE "recover")
  /\ UNCHANGED <<stateVars, supVars, uiVars, round, owner, shell, lost, faults>>

(* recover_recorded_runtime: the live server that the file names is        *)
(* stopped, a file about a dead one is removed.                            *)
Recover_Forget(t) ==
  /\ pc[t] = "recover"
  /\ record' = NoServer /\ UNCHANGED <<alive, answering>>
  /\ Goto(t, "spawn")
  /\ UNCHANGED <<held, tries, mutex, stateVars, supVars, uiVars, round, owner, shell, lost, faults>>
Recover(t) ==
  /\ pc[t] = "recover"
  /\ Kill(record)
  /\ Goto(t, "spawn")
  /\ UNCHANGED <<held, tries, mutex, stateVars, supVars, uiVars, round, owner, shell, lost, faults>>

Spawn(t) ==
  LET s == Len(owner) + 1 IN
  /\ pc[t] = "spawn"
  /\ owner' = Append(owner, shell)
  /\ alive' = alive \cup {s} /\ answering' = answering \cup {s}
  /\ held' = [held EXCEPT ![t] = s]
  /\ Goto(t, "record")
  /\ UNCHANGED <<tries, mutex, stateVars, supVars, uiVars, record, round, shell, lost, faults>>

(* write_runtime_state.                                                    *)
Record(t) ==
  /\ pc[t] = "record"
  /\ record' = held[t]
  /\ Goto(t, "wait")
  /\ UNCHANGED <<held, tries, mutex, stateVars, supVars, uiVars, alive, answering, round, owner, shell, lost, faults>>
-----------------------------------------------------------------------------
(* launch_desktop_ui and its callers.                                      *)

(* Thread t has window w shown.                                            *)
Open(t, w) ==
  IF t = "main" THEN window' = w /\ UNCHANGED asked ELSE asked' = w /\ UNCHANGED window

(* The window navigates to the server and the recovery window is hidden;   *)
(* setup and the Retry command then start the supervisor, once.            *)
Show_SetupOnly(t) ==
  /\ pc[t] = "show"
  /\ supervised' = (supervised \/ window = "none")
  /\ Open(t, "main")
  /\ pc' = [main |-> IF t = "main" THEN "idle" ELSE pc["main"],
            sup  |-> IF t = "sup" \/ (window = "none" /\ ~supervised) THEN "sleep" ELSE pc["sup"]]
  /\ UNCHANGED <<held, tries, mutex, slot, closing, supVars, armed, clicked, clicks, early, procVars, round, owner, shell, lost, faults>>
Show(t) ==
  /\ pc[t] = "show"
  /\ Open(t, "main")
  /\ supervised' = TRUE
  /\ pc' = [main |-> IF t = "main" THEN "idle" ELSE pc["main"],
            sup  |-> IF t = "sup" \/ ~supervised THEN "sleep" ELSE pc["sup"]]
  /\ UNCHANGED <<held, tries, mutex, slot, closing, supVars, armed, clicked, clicks, early, procVars, round, owner, shell, lost, faults>>

(* The launch failed: setup and the supervisor show the recovery window    *)
(* with Retry enabled; the failed command enables the button again.        *)
Fail(t) ==
  /\ pc[t] = "fail"
  /\ Open(t, IF t = "sup" \/ window = "none" THEN "recovery" ELSE window)
  /\ armed' = (armed \/ t = "main")
  /\ Goto(t, IF t = "main" THEN "idle" ELSE "sleep")
  /\ UNCHANGED <<held, tries, mutex, stateVars, supVars, clicked, clicks, early, procVars, round, owner, shell, lost, faults>>

(* The main thread is free, and does what the supervisor has asked for.    *)
Apply ==
  /\ pc["main"] = "idle" /\ asked # "none"
  /\ window' = asked /\ armed' = (armed \/ asked = "recovery")
  /\ asked' = "none"
  /\ UNCHANGED <<launchVars, stateVars, supVars, clicked, clicks, early, procVars, round, owner, shell, lost, faults>>

(* The user clicks Retry, which disables the button ...                    *)
Click ==
  /\ Running /\ window = "recovery" /\ armed /\ clicks < MaxClicks
  /\ clicked' = TRUE /\ armed' = FALSE /\ clicks' = clicks + 1
  /\ early' = (early \/ pc["sup"] \notin {"sleep", "gone"} \/ asked # "none")
  /\ UNCHANGED <<launchVars, stateVars, supVars, window, asked, procVars, round, owner, shell, lost, faults>>

(* ... and the command runs when the main thread is free.                  *)
Retry ==
  /\ pc["main"] = "idle" /\ clicked
  /\ clicked' = FALSE
  /\ Goto("main", "lock")
  /\ UNCHANGED <<held, tries, mutex, stateVars, supVars, window, asked, armed, clicks, early, procVars, round, owner, shell, lost, faults>>
-----------------------------------------------------------------------------
(* start_runtime_supervisor: the loop of its thread.                       *)

(* One second later: stop when the shell is shutting down, look again when *)
(* there is no process, else copy the ownership.                           *)
Wake_Once ==
  /\ pc["sup"] = "sleep"
  /\ \/ closing /\ Goto("sup", "gone") /\ UNCHANGED seen
     \/ /\ ~closing /\ slot # NoServer
        /\ seen' = IF seen = NoServer THEN slot ELSE seen
        /\ Goto("sup", "check")
  /\ UNCHANGED <<held, tries, mutex, stateVars, misses, uiVars, procVars, round, owner, shell, lost, faults>>
Wake ==
  /\ pc["sup"] = "sleep"
  /\ \/ closing /\ Goto("sup", "gone") /\ UNCHANGED seen
     \/ ~closing /\ slot # NoServer /\ seen' = slot /\ Goto("sup", "check")
  /\ UNCHANGED <<held, tries, mutex, stateVars, misses, uiVars, procVars, round, owner, shell, lost, faults>>

(* The health check of the process that was copied.                        *)
Check ==
  LET bad == seen \notin answering
      due == bad /\ (seen \notin alive \/ misses + 1 >= MaxMisses)
  IN
  /\ pc["sup"] = "check"
  /\ misses' = IF bad /\ ~due THEN misses + 1 ELSE 0
  /\ Goto("sup", IF due THEN "seize" ELSE "sleep")
  /\ UNCHANGED <<held, tries, mutex, stateVars, seen, uiVars, procVars, round, owner, shell, lost, faults>>

(* The recovery takes whatever process is in the slot now.                 *)
Seize ==
  /\ pc["sup"] = "seize"
  /\ held' = [held EXCEPT !["sup"] = slot] /\ slot' = NoServer
  /\ Goto("sup", "reap")
  /\ UNCHANGED <<tries, mutex, closing, supervised, supVars, uiVars, procVars, round, owner, shell, lost, faults>>

Reap ==
  /\ pc["sup"] = "reap"
  /\ IF held["sup"] = NoServer THEN UNCHANGED procVars ELSE Kill(held["sup"])
  /\ held' = [held EXCEPT !["sup"] = NoServer]
  /\ Goto("sup", "hide")
  /\ UNCHANGED <<tries, mutex, stateVars, supVars, uiVars, round, owner, shell, lost, faults>>

(* The ERP window is hidden, the recovery window shown with Retry enabled; *)
(* then the launch.                                                        *)
Hide ==
  /\ pc["sup"] = "hide"
  /\ Open("sup", "recovery")
  /\ Goto("sup", "lock")
  /\ UNCHANGED <<held, tries, mutex, stateVars, supVars, armed, clicked, clicks, early, procVars, round, owner, shell, lost, faults>>
-----------------------------------------------------------------------------
(* orderly_shutdown: on a window's close request or desktop_exit, again on *)
(* ExitRequested, and again on Exit; then the process ends.                *)

Close ==
  /\ pc["main"] = "idle"
  /\ Goto("main", "swap")
  /\ UNCHANGED <<held, tries, mutex, stateVars, supVars, uiVars, procVars, round, owner, shell, lost, faults>>

(* shutting_down.swap(true): a second entry returns at once.               *)
Swap ==
  /\ pc["main"] = "swap" /\ round < 3
  /\ closing' = TRUE /\ round' = round + 1
  /\ Goto("main", IF closing THEN "swap" ELSE "stop")
  /\ UNCHANGED <<held, tries, mutex, slot, supervised, supVars, uiVars, procVars, owner, shell, lost, faults>>

(* After the barrier, stop_next_server takes the process ...               *)
Stop ==
  /\ pc["main"] = "stop"
  /\ closing' = TRUE
  /\ held' = [held EXCEPT !["main"] = slot] /\ slot' = NoServer
  /\ Goto("main", IF slot = NoServer THEN "swap" ELSE "kill")
  /\ UNCHANGED <<tries, mutex, supervised, supVars, uiVars, procVars, round, owner, shell, lost, faults>>

(* ... and terminates it.                                                  *)
Finish ==
  /\ pc["main"] = "kill"
  /\ Kill(held["main"]) /\ held' = [held EXCEPT !["main"] = NoServer]
  /\ Goto("main", "swap")
  /\ UNCHANGED <<tries, mutex, stateVars, supVars, uiVars, round, owner, shell, lost, faults>>

(* The process ends, after the three rounds or because it is killed; its   *)
(* threads and its memory go, its servers and the file stay.  A server that*)
(* was spawned and not yet recorded is lost to the next shell.             *)
End ==
  /\ Running
  /\ lost' = lost \cup {held[t] : t \in {u \in Threads : pc[u] = "record"}}
  /\ pc' = [t \in Threads |-> "gone"]
  /\ held' = [t \in Threads |-> NoServer] /\ slot' = NoServer /\ mutex' = "free"
  /\ tries' = [t \in Threads |-> 0]
  /\ closing' = FALSE /\ supervised' = FALSE /\ misses' = 0 /\ seen' = NoServer
  /\ window' = "none" /\ asked' = "none" /\ armed' = FALSE /\ clicked' = FALSE /\ early' = FALSE /\ round' = 0
  /\ UNCHANGED <<clicks, procVars, owner, shell>>

Exit == pc["main"] = "swap" /\ round = 3 /\ End /\ UNCHANGED faults
Killed == faults < MaxFaults /\ faults' = faults + 1 /\ End

(* The user starts the application again.                                  *)
Start ==
  /\ ~Running /\ shell < MaxShells
  /\ Goto("main", "lock")
  /\ shell' = shell + 1
  /\ UNCHANGED <<held, tries, mutex, stateVars, supVars, uiVars, procVars, round, owner, lost, faults>>

(* A server hangs, or dies; of a lost one nobody would notice.             *)
Fault(s) ==
  /\ s \in answering \ lost /\ faults < MaxFaults
  /\ faults' = faults + 1
  /\ answering' = answering \ {s}
  /\ alive' \in {alive, alive \ {s}}
  /\ UNCHANGED <<launchVars, stateVars, supVars, uiVars, record, round, owner, shell, lost>>
-----------------------------------------------------------------------------
Launch(t) == \/ Lock(t) \/ Take(t) \/ Serve(t) \/ GiveUp(t) \/ Recover(t)
             \/ Spawn(t) \/ Record(t) \/ Show(t) \/ Fail(t)
Main == Launch("main") \/ Apply \/ Retry \/ Swap \/ Stop \/ Finish \/ Exit
Supervise == Launch("sup") \/ Wake \/ Check \/ Seize \/ Reap \/ Hide
Environment == Click \/ Close \/ Killed \/ Start \/ \E s \in Spawned : Fault(s)

Next == Main \/ Supervise \/ Environment
Spec == Init /\ [][Next]_vars

(* Threads that can step do: the operating system schedules both.  Nobody  *)
(* has to click, to close the window or to start the application again.    *)
FairSpec == Spec /\ WF_vars(Main) /\ WF_vars(Supervise)
-----------------------------------------------------------------------------
(* Properties.                                                             *)

(* A server that lives on without its shell is named by the ownership      *)
(* file: the next shell finds it, and orphans do not pile up, except a     *)
(* server whose shell was killed before write_runtime_state.               *)
OrphansRecorded ==
  \A s \in alive \ lost : (owner[s] < shell \/ ~Running) => record = s

(* At most one server process exists, over all the shells: whatever the    *)
(* two threads, a shutdown and a restart do at the same time, the old one  *)
(* is dead before the next one is spawned, but for those lost.             *)
OneServer == \A r, s \in alive \ lost : r = s

(* The supervisor stops only the server whose health check failed, never   *)
(* one that took its place, unless Retry was clicked during a recovery.    *)
SparesSuccessor ==
  [][pc["sup"] = "seize" /\ pc'["sup"] = "reap" /\ ~early => slot \in {seen, NoServer}]_vars

(* The shell never rests without a server and without a way to get one: if *)
(* nothing is under way and the slot is empty, Retry is there to be clicked*)
(* (start_runtime_supervisor skips an empty slot and ends itself at a      *)
(* shutdown), unless it was clicked during a recovery.                     *)
WayBack ==
  /\ pc["main"] = "idle" /\ pc["sup"] \in {"sleep", "gone"} /\ slot = NoServer
  /\ asked = "none" /\ ~clicked /\ ~early
  => window = "recovery" /\ armed

(* When its faults are over the shell comes to rest with a server that     *)
(* answers, or with a recovery window whose Retry works, or it has ended;  *)
(* again unless Retry was clicked during a recovery.                       *)
Recovers ==
  <>[](\/ slot \in answering /\ window = "main"
       \/ window = "recovery" /\ armed
       \/ ~Running
       \/ early)

=============================================================================
