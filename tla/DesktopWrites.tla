---------------------------- MODULE DesktopWrites ----------------------------
(***************************************************************************)
(* The write path of the desktop application: LocalDatabaseService in the  *)
(* web page (lib/offline/local/service.ts), the native commands that run   *)
(* its batches on SQLite, the guard that counts critical operations, the   *)
(* update preparation that excludes them and the shutdown that waits for   *)
(* them (src-tauri/src/lib.rs).                                            *)
(*                                                                         *)
(* A call is one invocation of LocalDatabaseService.transaction(), or of   *)
(* execute() when it belongs to Direct.  The page may be reloaded (its     *)
(* memory is lost, the native commands it started run on) and the process  *)
(* may stop or crash (only committed data survives).                       *)
(***************************************************************************)
EXTENDS Naturals, Sequences, FiniteSets

CONSTANTS
  Calls,         \* the write calls of a behaviour, each issued at most once
  Direct,        \* those that go through execute(), not through the queue
  Batch,         \* Batch[c]: how many statements the work of c buffers
  NoCall,        \* no call
  MaxAttempts,   \* STARTUP_RETRY_DELAYS_MS.length + 1 in the code
  MaxReloads,    \* bound: reloads of the page
  MaxStops       \* bound: stops and crashes of the process

ASSUME CallAssumption ==
  /\ Direct \subseteq Calls
  /\ NoCall \notin Calls
  /\ Batch \in [Calls -> Nat]
  /\ \A c \in Direct : Batch[c] = 1
ASSUME BoundAssumption == /\ MaxAttempts \in Nat \ {0}
                          /\ MaxReloads \in Nat
                          /\ MaxStops \in Nat

VARIABLES
  js,            \* js[c]: how far the page's promise of c has got
  tail,          \* transactionTail: the call the next one will wait for
  prev,          \* prev[c]: the tail that c captured when it was called
  released,      \* the calls whose release() has run
  ticket,        \* history: ticket[c] = n if c was the n-th call of transaction()
  issued,        \* history: how many calls of transaction() there were
  attempt,       \* attempt[c]: invocations of the native command so far
  native,        \* native[c]: how far the native command of c has got
  active,        \* holders of a CriticalOperationGuard (the counter counts them)
  writer,        \* the holder of SQLite's write lock (BEGIN IMMEDIATE)
  done,          \* done[c]: statements executed in the open transaction of c
  rows,          \* rows[c]: statements of c in the committed database
  commits,       \* the calls whose transaction committed, in order
  preparing,     \* update_preparing
  updClient,     \* installUpdate() in the page
  updNative,     \* desktop_prepare_update in the native process
  proc,          \* the native process
  reloads, stops \* how often the page was reloaded, the process stopped

pageVars   == <<js, tail, prev, released, attempt>>
historyVars == <<ticket, issued>>
nativeVars == <<native, active>>
dbVars     == <<writer, done, rows, commits>>
updVars    == <<updClient, updNative>>
boundVars  == <<reloads, stops>>
vars == <<pageVars, historyVars, nativeVars, dbVars, preparing, updVars, proc, boundVars>>

JsStates == {"idle", "waiting", "invoking", "ok", "failed", "lost"}
Settled  == {"ok", "failed"}
NativeStates == {"none", "entering", "checked", "counted", "admitted", "open",
                 "refused", "error", "done"}

TypeOK ==
  /\ js \in [Calls -> JsStates]
  /\ tail \in Calls \cup {NoCall}
  /\ prev \in [Calls -> Calls \cup {NoCall}]
  /\ released \subseteq Calls
  /\ attempt \in [Calls -> Nat]
  /\ ticket \in [Calls -> Nat]
  /\ issued \in Nat
  /\ native \in [Calls -> NativeStates]
  /\ active \subseteq Calls
  /\ writer \in Calls \cup {NoCall}
  /\ done \in [Calls -> Nat]
  /\ rows \in [Calls -> Nat]
  /\ commits \in Seq(Calls)
  /\ preparing \in BOOLEAN
  /\ updClient \in {"idle", "asking", "prepared"}
  /\ updNative \in {"none", "claimed", "checking"}
  /\ proc \in {"up", "stopping", "down"}
  /\ reloads \in Nat
  /\ stops \in Nat

Init ==
  /\ js = [c \in Calls |-> "idle"]
  /\ tail = NoCall
  /\ prev = [c \in Calls |-> NoCall]
  /\ released = {}
  /\ attempt = [c \in Calls |-> 0]
  /\ ticket = [c \in Calls |-> 0]
  /\ issued = 0
  /\ native = [c \in Calls |-> "none"]
  /\ active = {}
  /\ writer = NoCall
  /\ done = [c \in Calls |-> 0]
  /\ rows = [c \in Calls |-> 0]
  /\ commits = <<>>
  /\ preparing = FALSE
  /\ updClient = "idle" /\ updNative = "none"
  /\ proc = "up"
  /\ reloads = 0 /\ stops = 0

-----------------------------------------------------------------------------
(* The page: LocalDatabaseService.                                         *)

Alive == proc # "down"

(* The history variables note the order of the calls; no code reads it.    *)
Queued(c) == issued' = issued + 1 /\ ticket' = [ticket EXCEPT ![c] = issued + 1]

(* Mutant: the tail is captured but not advanced.                          *)
Call_TailKept(c) ==
  /\ Alive /\ js[c] = "idle"
  /\ js' = [js EXCEPT ![c] = "waiting"]
  /\ IF c \in Direct
     THEN UNCHANGED <<prev, historyVars>>
     ELSE prev' = [prev EXCEPT ![c] = tail] /\ Queued(c)
  /\ UNCHANGED <<tail, released, attempt, nativeVars, dbVars, preparing, updVars, proc, boundVars>>

(* transaction(): capture the tail and become the tail, synchronously.     *)
(* execute() does not queue.                                               *)
Call(c) ==
  /\ Alive /\ js[c] = "idle"
  /\ js' = [js EXCEPT ![c] = "waiting"]
  /\ IF c \in Direct
     THEN UNCHANGED <<tail, prev, historyVars>>
     ELSE tail' = c /\ prev' = [prev EXCEPT ![c] = tail] /\ Queued(c)
  /\ UNCHANGED <<released, attempt, nativeVars, dbVars, preparing, updVars, proc, boundVars>>

Previous(c) == prev[c] = NoCall \/ prev[c] \in released

(* Mutant: release() is called on success only, outside a finally block.   *)
Settle_NoFinally(c, result) ==
  /\ js' = [js EXCEPT ![c] = result]
  /\ released' = IF result = "ok" THEN released \cup {c} ELSE released

(* The promise of c settles; transaction() releases its successor in its   *)
(* finally block whether c succeeded or not.                               *)
Settle(c, result) ==
  /\ js' = [js EXCEPT ![c] = result]
  /\ released' = IF c \in Direct THEN released ELSE released \cup {c}

(* await previous, requireConnection("write") and work() with the          *)
(* buffering executor: the batch is then handed to the native command ...  *)
Invoke(c) ==
  /\ Alive /\ js[c] = "waiting" /\ Previous(c) /\ Batch[c] # 0
  /\ js' = [js EXCEPT ![c] = "invoking"]
  /\ attempt' = [attempt EXCEPT ![c] = 1]
  /\ native' = [native EXCEPT ![c] = "entering"]
  /\ UNCHANGED <<historyVars, tail, prev, released, active, dbVars, preparing, updVars, proc, boundVars>>

(* ... unless it is empty (executeNativeTransaction returns at once) ...   *)
InvokeNothing(c) ==
  /\ Alive /\ js[c] = "waiting" /\ Previous(c) /\ Batch[c] = 0
  /\ Settle(c, "ok")
  /\ UNCHANGED <<historyVars, tail, prev, attempt, nativeVars, dbVars, preparing, updVars, proc, boundVars>>

(* ... or the connection or the work throws first.                         *)
WorkFails(c) ==
  /\ Alive /\ js[c] = "waiting" /\ Previous(c)
  /\ Settle(c, "failed")
  /\ UNCHANGED <<historyVars, tail, prev, attempt, nativeVars, dbVars, preparing, updVars, proc, boundVars>>

(* execute() retries around a connection that itself retries.              *)
Attempts(c) == IF c \in Direct THEN MaxAttempts * MaxAttempts ELSE MaxAttempts

(* Mutant: a reply that arrived late is taken for an error and retried.    *)
Retry_Acknowledged(c) ==
  /\ Alive /\ js[c] = "invoking" /\ native[c] \in {"error", "done"}
  /\ attempt[c] < Attempts(c)
  /\ attempt' = [attempt EXCEPT ![c] = @ + 1]
  /\ native' = [native EXCEPT ![c] = "entering"]
  /\ UNCHANGED <<historyVars, js, tail, prev, released, active, dbVars, preparing, updVars, proc, boundVars>>

(* withTemporaryLockRetry: an error whose text looks like a lock conflict  *)
(* is tried again; the guard's refusals never look like one.               *)
Retry(c) ==
  /\ Alive /\ js[c] = "invoking" /\ native[c] = "error"
  /\ attempt[c] < Attempts(c)
  /\ attempt' = [attempt EXCEPT ![c] = @ + 1]
  /\ native' = [native EXCEPT ![c] = "entering"]
  /\ UNCHANGED <<historyVars, js, tail, prev, released, active, dbVars, preparing, updVars, proc, boundVars>>

(* Mutant: the page gives up on a command that is still running.           *)
Answer_Timeout(c) ==
  /\ Alive /\ js[c] = "invoking"
  /\ \/ native[c] = "done" /\ Settle(c, "ok")
     \/ native[c] \in {"error", "refused", "open"} /\ Settle(c, "failed")
  /\ UNCHANGED <<historyVars, tail, prev, attempt, nativeVars, dbVars, preparing, updVars, proc, boundVars>>

(* The command's reply reaches the page: a result, or an error that is not *)
(* retried.                                                                *)
Answer(c) ==
  /\ Alive /\ js[c] = "invoking"
  /\ \/ native[c] = "done" /\ Settle(c, "ok")
     \/ native[c] \in {"error", "refused"} /\ Settle(c, "failed")
  /\ UNCHANGED <<historyVars, tail, prev, attempt, nativeVars, dbVars, preparing, updVars, proc, boundVars>>

-----------------------------------------------------------------------------
(* The native commands desktop_execute and desktop_execute_transaction.    *)

(* begin_critical_operation, first load of update_preparing.               *)
CheckFlag(c) ==
  /\ Alive /\ native[c] = "entering"
  /\ native' = [native EXCEPT ![c] = IF preparing THEN "refused" ELSE "checked"]
  /\ UNCHANGED <<historyVars, pageVars, active, dbVars, preparing, updVars, proc, boundVars>>

(* fetch_add on active_critical_operations.                                *)
CountIn(c) ==
  /\ Alive /\ native[c] = "checked"
  /\ native' = [native EXCEPT ![c] = "counted"]
  /\ active' = active \cup {c}
  /\ UNCHANGED <<historyVars, pageVars, dbVars, preparing, updVars, proc, boundVars>>

(* Mutant: the flag is loaded once, before counting in.                    *)
Recheck_Once(c) ==
  /\ Alive /\ native[c] = "counted"
  /\ native' = [native EXCEPT ![c] = "admitted"]
  /\ UNCHANGED <<historyVars, pageVars, active, dbVars, preparing, updVars, proc, boundVars>>

(* Mutant: the guard is bound to "_" and dropped at once.                  *)
Recheck_Dropped(c) ==
  /\ Alive /\ native[c] = "counted"
  /\ native' = [native EXCEPT ![c] = IF preparing THEN "refused" ELSE "admitted"]
  /\ active' = active \ {c}
  /\ UNCHANGED <<historyVars, pageVars, dbVars, preparing, updVars, proc, boundVars>>

(* The second load: refused (and counted out again) or admitted.           *)
Recheck(c) ==
  /\ Alive /\ native[c] = "counted"
  /\ IF preparing
     THEN native' = [native EXCEPT ![c] = "refused"] /\ active' = active \ {c}
     ELSE native' = [native EXCEPT ![c] = "admitted"] /\ UNCHANGED active
  /\ UNCHANGED <<historyVars, pageVars, dbVars, preparing, updVars, proc, boundVars>>

(* The command returns; dropping the guard counts it out.                  *)
Return(c, reply) ==
  /\ native' = [native EXCEPT ![c] = reply]
  /\ active' = active \ {c}

(* Opening, authorising or BEGIN fails (a lock not obtained in time too).  *)
NotBegun(c) ==
  /\ Alive /\ native[c] = "admitted"
  /\ Return(c, "error")
  /\ UNCHANGED <<historyVars, pageVars, dbVars, preparing, updVars, proc, boundVars>>

(* BEGIN IMMEDIATE takes SQLite's only write lock.                         *)
BeginImmediate(c) ==
  /\ Alive /\ native[c] = "admitted" /\ writer = NoCall
  /\ writer' = c
  /\ done' = [done EXCEPT ![c] = 0]
  /\ native' = [native EXCEPT ![c] = "open"]
  /\ UNCHANGED <<historyVars, pageVars, active, rows, commits, preparing, updVars, proc, boundVars>>

Statement(c) ==
  /\ Alive /\ native[c] = "open" /\ done[c] < Batch[c]
  /\ done' = [done EXCEPT ![c] = @ + 1]
  /\ UNCHANGED <<historyVars, pageVars, nativeVars, writer, rows, commits, preparing, updVars, proc, boundVars>>

(* Mutant: what ran before the failing statement is kept.                  *)
RollBack_Partial(c) ==
  /\ Alive /\ native[c] = "open"
  /\ writer' = NoCall
  /\ rows' = [rows EXCEPT ![c] = @ + done[c]]
  /\ done' = [done EXCEPT ![c] = 0]
  /\ Return(c, "error")
  /\ UNCHANGED <<historyVars, pageVars, commits, preparing, updVars, proc, boundVars>>

(* A statement, the deferred foreign keys or COMMIT fails: ROLLBACK.       *)
RollBack(c) ==
  /\ Alive /\ native[c] = "open"
  /\ writer' = NoCall
  /\ done' = [done EXCEPT ![c] = 0]
  /\ Return(c, "error")
  /\ UNCHANGED <<historyVars, pageVars, rows, commits, preparing, updVars, proc, boundVars>>

(* COMMIT succeeds: the whole batch is durable (synchronous = FULL).       *)
Commit(c) ==
  /\ Alive /\ native[c] = "open" /\ done[c] = Batch[c]
  /\ rows' = [rows EXCEPT ![c] = @ + done[c]]
  /\ commits' = Append(commits, c)
  /\ writer' = NoCall
  /\ done' = [done EXCEPT ![c] = 0]
  /\ Return(c, "done")
  /\ UNCHANGED <<historyVars, pageVars, preparing, updVars, proc, boundVars>>

-----------------------------------------------------------------------------
(* Preparing an update: installUpdate() and desktop_prepare_update.        *)

(* compare_exchange(false, true); a failed exchange only reports an error. *)
ClaimUpdate ==
  /\ Alive /\ updClient = "idle" /\ ~preparing
  /\ preparing' = TRUE
  /\ updClient' = "asking" /\ updNative' = "claimed"
  /\ UNCHANGED <<historyVars, pageVars, nativeVars, dbVars, proc, boundVars>>

(* installUpdate() leaves its try block without prepared = true.           *)
Disappoint == updClient' = IF updClient = "asking" THEN "idle" ELSE updClient

(* The look at the counter: give the flag back if any operation is active. *)
LookAtOperations ==
  /\ Alive /\ updNative = "claimed"
  /\ IF active = {}
     THEN updNative' = "checking" /\ UNCHANGED <<preparing, updClient>>
     ELSE updNative' = "none" /\ preparing' = FALSE /\ Disappoint
  /\ UNCHANGED <<historyVars, pageVars, nativeVars, dbVars, proc, boundVars>>

(* quick_check, foreign_key_check and the snapshot fail, or all pass.      *)
PreparationFails ==
  /\ Alive /\ updNative = "checking"
  /\ updNative' = "none" /\ preparing' = FALSE /\ Disappoint
  /\ UNCHANGED <<historyVars, pageVars, nativeVars, dbVars, proc, boundVars>>

PreparationSucceeds ==
  /\ Alive /\ updNative = "checking"
  /\ updNative' = "none"
  /\ updClient' = IF updClient = "asking" THEN "prepared" ELSE updClient
  /\ UNCHANGED <<historyVars, pageVars, nativeVars, dbVars, preparing, proc, boundVars>>

(* The download or the installation fails: desktop_cancel_update_preparation. *)
CancelUpdate ==
  /\ Alive /\ updClient = "prepared"
  /\ updClient' = "idle"
  /\ preparing' = FALSE
  /\ UNCHANGED <<historyVars, pageVars, nativeVars, dbVars, updNative, proc, boundVars>>

-----------------------------------------------------------------------------
(* The page and the process go away.                                       *)

LosePage ==
  /\ js' = [c \in Calls |-> IF js[c] \in {"waiting", "invoking"} THEN "lost" ELSE js[c]]
  /\ tail' = NoCall
  /\ updClient' = "idle"

(* The page is loaded again (window.location.reload, or navigate by the    *)
(* runtime supervisor): its promises are gone, the native commands run on. *)
Reload ==
  /\ proc = "up" /\ reloads < MaxReloads
  /\ reloads' = reloads + 1
  /\ LosePage
  /\ UNCHANGED <<historyVars, prev, released, attempt, nativeVars, dbVars, preparing, updNative, proc, stops>>

(* orderly_shutdown (window closed, desktop_exit, or                       *)
(* desktop_restart_after_update): raise the flag, then wait.               *)
BeginShutdown ==
  /\ proc = "up" /\ stops < MaxStops
  /\ proc' = "stopping"
  /\ preparing' = TRUE
  /\ UNCHANGED <<historyVars, pageVars, nativeVars, dbVars, updVars, boundVars>>

(* The process ends: after the barrier saw no active operation or its      *)
(* three seconds ran out, or by a crash.  SQLite drops what was not        *)
(* committed.                                                              *)
Stop ==
  /\ Alive /\ stops < MaxStops
  /\ stops' = stops + 1
  /\ proc' = "down"
  /\ LosePage
  /\ native' = [c \in Calls |-> "none"]
  /\ active' = {}
  /\ writer' = NoCall
  /\ done' = [c \in Calls |-> 0]
  /\ preparing' = FALSE /\ updNative' = "none"
  /\ UNCHANGED <<historyVars, prev, released, attempt, rows, commits, reloads>>

Start ==
  /\ proc = "down"
  /\ proc' = "up"
  /\ UNCHANGED <<historyVars, pageVars, nativeVars, dbVars, preparing, updVars, boundVars>>

PageStep(c)   == Invoke(c) \/ InvokeNothing(c) \/ WorkFails(c) \/ Retry(c) \/ Answer(c)
NativeStep(c) == \/ CheckFlag(c) \/ CountIn(c) \/ Recheck(c) \/ NotBegun(c)
                 \/ BeginImmediate(c) \/ Statement(c) \/ RollBack(c) \/ Commit(c)
UpdateStep    == LookAtOperations \/ PreparationFails \/ PreparationSucceeds

Next == \/ \E c \in Calls : Call(c) \/ PageStep(c) \/ NativeStep(c)
        \/ ClaimUpdate \/ UpdateStep \/ CancelUpdate
        \/ Reload \/ BeginShutdown \/ Stop \/ Start

Spec == Init /\ [][Next]_vars

(* Promises and native commands that can make progress do: the event loop  *)
(* and the native runtime are fair, and every SQLite call returns.         *)
Fairness == \A c \in Calls : WF_vars(PageStep(c)) /\ WF_vars(NativeStep(c))

FairSpec == Spec /\ Fairness

-----------------------------------------------------------------------------
(* Properties.                                                             *)

(* A batch is committed whole and once, whatever fails between its         *)
(* statements and however often the page retries it: execute_transaction_at_path *)
(* with withTemporaryLockRetry.                                            *)
WholeOnce == \A c \in Calls : rows[c] \in {0, Batch[c]}

(* What transaction() tells its caller is what SQLite did: a success is in *)
(* the database, and a failure left nothing there and has no native        *)
(* command still running that could write it later.                        *)
AnswersHonest ==
  \A c \in Calls :
    /\ js[c] = "ok" => rows[c] = Batch[c]
    /\ js[c] = "failed" => rows[c] = 0 /\ native[c] \in {"none", "error", "refused"}

(* The queued calls of the page that have not settled.                     *)
Pending == {c \in Calls \ Direct : js[c] \in {"waiting", "invoking"}}

(* Batches commit in the order transaction() was called, except those      *)
(* whose page is gone.                                                     *)
CommitOrder ==
  \A i, j \in DOMAIN commits :
    /\ i < j
    /\ {commits[i], commits[j]} \cap Direct = {}
    /\ "lost" \notin {js[commits[i]], js[commits[j]]}
    => ticket[commits[i]] < ticket[commits[j]]

(* transactionTail serialises the page: never two queued batches at the    *)
(* native side, and they commit in the order of the calls.                 *)
SerialQueue ==
  /\ \A c, d \in Pending : js[c] = "invoking" /\ js[d] = "invoking" => c = d
  /\ CommitOrder

(* While desktop_prepare_update checks and snapshots the database, and     *)
(* while the page installs what it prepared, no write is past the guard:   *)
(* the double look at update_preparing around the counter.                 *)
PreparedQuiet ==
  (updNative = "checking" \/ updClient = "prepared") =>
    \A c \in Calls : native[c] \notin {"admitted", "open"}

(* Whoever finds the counter of active operations at zero, a shutdown that *)
(* is about to end the process among them, finds no transaction open, and  *)
(* never two: a command is counted from before it may begin until it has   *)
(* returned, through errors and retries (wait_for_critical_operations,     *)
(* CriticalOperationGuard).                                                *)
WriterCounted ==
  /\ \A c \in Calls : native[c] = "open" => writer = c
  /\ active = {} => writer = NoCall /\ \A c \in Calls : native[c] # "admitted"

(* The inductive invariant behind the properties above, part by part.      *)
GuardInv ==
  /\ \A c \in Calls : native[c] \in {"counted", "admitted", "open"} => c \in active
  /\ \A c \in Calls : native[c] = "open" <=> writer = c

UpdateInv ==
  /\ updNative # "none" => preparing /\ updClient # "prepared"
  /\ updClient = "asking" => updNative # "none"
  /\ updClient = "prepared" => preparing
  /\ PreparedQuiet

StoredAt(c) ==
  /\ native[c] \notin {"none", "done"} => rows[c] = 0 /\ js[c] \in {"invoking", "failed", "lost"}
  /\ native[c] = "done" => rows[c] = Batch[c] /\ js[c] \in {"invoking", "ok", "lost"}
  /\ js[c] \in {"idle", "waiting"} => native[c] = "none" /\ rows[c] = 0
  /\ js[c] = "invoking" => native[c] # "none"
  /\ native[c] # "none" => Batch[c] # 0
  /\ js[c] = "ok" => rows[c] = Batch[c]
  /\ js[c] = "failed" => rows[c] = 0 /\ native[c] \in {"none", "error", "refused"}
  /\ rows[c] \in {0, Batch[c]}

StoredInv == \A c \in Calls : StoredAt(c)

LogInv == \A c \in Calls : rows[c] # 0 <=> \E i \in DOMAIN commits : commits[i] = c

TicketInv ==
  /\ \A c \in Calls : ticket[c] <= issued
  /\ \A c \in Calls \ Direct : ticket[c] = 0 <=> js[c] = "idle"
  /\ \A c, d \in Calls \ Direct : ticket[c] = ticket[d] /\ ticket[c] # 0 => c = d

ReleaseInv ==
  /\ \A c \in released : js[c] \in Settled
  /\ \A c \in Calls \ Direct : js[c] \in Settled => c \in released

TailInv ==
  IF tail = NoCall
  THEN Pending = {}
  ELSE tail \in Calls \ Direct /\ ticket[tail] = issued /\ js[tail] \notin {"idle", "lost"}

ChainInv ==
  /\ \A c \in Pending : js[c] = "invoking" => Previous(c)
  /\ \A c \in Pending : prev[c] # NoCall =>
       /\ prev[c] \in Calls \ Direct
       /\ ticket[prev[c]] # 0 /\ ticket[c] = ticket[prev[c]] + 1
  /\ \A c, d \in Calls \ Direct :
       c \in Pending /\ ticket[c] < ticket[d] => d \in Pending /\ prev[d] # NoCall

QueueInv == TicketInv /\ ReleaseInv /\ TailInv /\ ChainInv

IInv == TypeOK /\ GuardInv /\ UpdateInv /\ StoredInv /\ LogInv /\ QueueInv /\ CommitOrder

(* Every call settles or is lost with its page: a failed batch releases    *)
(* its successor (the finally block), and retries are bounded.             *)
EveryCallSettles ==
  \A c \in Calls : js[c] = "waiting" ~> js[c] \in Settled \cup {"lost"}

(* update_preparing belongs to somebody who will give it back, unless the  *)
(* process is stopping: "Finish or cancel the update before starting       *)
(* another write" (src-tauri/src/lib.rs:393).                              *)
FlagHasOwner ==
  preparing => updClient # "idle" \/ updNative # "none" \/ proc = "stopping"

(* The detailed protocol implements the atomic store.                      *)
OutcomeOf(state) ==
  CASE state = "idle" -> "new"
    [] state \in {"waiting", "invoking"} -> "pending"
    [] state = "lost" -> "abandoned"
    [] OTHER -> state

Store == INSTANCE AtomicStore WITH
           Trivial <- {c \in Calls : Batch[c] = 0},
           outcome <- [c \in Calls |-> OutcomeOf(js[c])],
           history <- commits

StoreSpec == Store!StoreSpec
=============================================================================
