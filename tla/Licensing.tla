------------------------------ MODULE Licensing ------------------------------
(***************************************************************************)
(* The licence on the device (lib/offline/local/license.ts): a row of the  *)
(* local database, the signed key in the operating system's secret store,  *)
(* and the copy of that key in the page's memory, which every write to the *)
(* native database carries.  Check-ins with the control plane keep them up *)
(* to date; several may be under way, for each screen starts its own.      *)
(*                                                                         *)
(* The keys of the licence are numbered in the order they were signed, and *)
(* expire in that order.  The app lock that comes with a key may carry a   *)
(* password reset which lapsed before this device saw it; then the device  *)
(* refuses the key (AppLock.tla).                                          *)
(***************************************************************************)
EXTENDS Naturals

CONSTANTS
  Callers,    \* the check-ins, activations and removals that may overlap
  MaxKeys,    \* bound: keys that are signed
  MaxEvents   \* bound: changes of standing, the user's acts, overlaps, failures, crashes

ASSUME LicensingAssumption == MaxKeys \in Nat \ {0} /\ MaxEvents \in Nat

VARIABLES
  key,       \* server: the key signed last
  standing,  \* server: what the administrator says of the licence
  refused,   \* server: keys whose reset lapsed
  over,      \* the last key that has expired
  row,       \* device: the row of license_state
  secret,    \* device: the key in the secret store
  memory,    \* device: the key that native writes carry
  fetch,     \* device: what a read of the store for "memory" will return
  pc, job,   \* how far a caller is, and what it holds
  crossed,   \* history: two changes of the three copies overlapped
  split,     \* history: a change of key was cut off, and no other made good since
  events

serverVars == <<key, standing, refused, over>>
copyVars   == <<row, secret, memory, fetch, crossed, split>>
vars == <<serverVars, copyVars, pc, job, events>>

Keys   == 1 .. MaxKeys
NoKey  == 0
Unset  == MaxKeys + 1           \* memory before it was needed

(* The row belongs to one organization, the business or "global".  A key   *)
(* is written for each in turn, which moves the row; then comes "end".     *)
Targets == {"business", "global"}
After(place) == IF place = "business" THEN "global" ELSE "end"
NoRow  == [key |-> NoKey, status |-> "none", place |-> "end"]
NoJob  == [asked |-> NoKey, new |-> NoKey, prev |-> NoKey, status |-> "none",
           place |-> "business", held |-> NoKey]
Steps  == {"idle", "restore", "ask", "prev", "secret", "rows", "read", "write",
           "remove", "forget"}
Statuses == {"none", "active", "expired", "cancelled"}
Rows   == {NoRow} \cup [key : Keys, status : Statuses, place : Targets]

TypeOK ==
  /\ key \in Keys /\ standing \in {"active", "cancelled"} /\ refused \subseteq Keys
  /\ over \in 0 .. MaxKeys
  /\ row \in Rows /\ secret \in 0 .. MaxKeys
  /\ memory \in 0 .. Unset /\ fetch \in 0 .. Unset
  /\ pc \in [Callers -> Steps]
  /\ job \in [Callers -> [asked : 0 .. MaxKeys, new : 0 .. MaxKeys, prev : 0 .. MaxKeys,
                          status : Statuses, place : Targets \cup {"end"}, held : 0 .. MaxKeys]]
  /\ crossed \in BOOLEAN /\ split \in BOOLEAN /\ events \in Nat

Init ==
  /\ key = 1 /\ standing = "active" /\ refused = {} /\ over = 0
  /\ row = NoRow /\ secret = NoKey /\ memory = Unset /\ fetch = Unset
  /\ pc = [c \in Callers |-> "idle"] /\ job = [c \in Callers |-> NoJob]
  /\ crossed = FALSE /\ split = FALSE /\ events = 0

Event == events < MaxEvents /\ events' = events + 1

\* Who is under way beside c; a check-in that overlaps another is an event too.
Others(c) == {d \in Callers \ {c} : pc[d] # "idle"}
Start(c)  == IF Others(c) = {} THEN UNCHANGED events ELSE Event

Goto(c, l, j) == pc' = [pc EXCEPT ![c] = l] /\ job' = [job EXCEPT ![c] = j]
Return(c) == Goto(c, "idle", NoJob)

(* Writes of the row are guarded too: the transaction begins with an       *)
(* INSERT OR IGNORE into organizations, which the native side admits only  *)
(* with a key that has not expired.  It refuses others, and may fail.      *)
Admits  == memory \in Keys /\ memory > over
Refused == memory # Unset /\ IF Admits THEN Event ELSE UNCHANGED events
-----------------------------------------------------------------------------
(* The control plane.  A renewal ends a suspension; only a password reset  *)
(* changes the app lock of the key before it.                              *)

Sign(kind, late) ==
  /\ key < MaxKeys
  /\ key' = key + 1
  /\ standing' = IF kind = "renew" THEN "active" ELSE standing
  /\ refused' = IF IF kind = "reset" THEN late ELSE key \in refused
                THEN refused \cup {key + 1} ELSE refused
  /\ UNCHANGED <<over, copyVars, pc, job, events>>

Suspend ==
  /\ Event
  /\ standing' = IF standing = "active" THEN "cancelled" ELSE "active"
  /\ UNCHANGED <<key, refused, over, copyVars, pc, job>>

Expire ==
  /\ over < key
  /\ over' = over + 1
  /\ UNCHANGED <<key, standing, refused, copyVars, pc, job, events>>
-----------------------------------------------------------------------------
(* evaluateStoredLicense, on the row a reader finds: one that asks for the *)
(* business reads the rows of "global" too.                                *)

Visible(place) == IF place = "business" \/ row.place = "global" THEN row ELSE NoRow
Allowed(r)     == r.status = "active" /\ r.key > over
Restorable(r)  == ~Allowed(r) /\ r.status # "cancelled" /\ secret # NoKey

(* getLocalLicenseStatus at the start of a check-in: a row that is missing *)
(* or no longer counts comes back from the secret, unless the control      *)
(* plane has ended the licence.  A page that is opened before the business *)
(* is known asks for "global" (restoreLicensedWorkspaceContext).           *)
Look(c, place) ==
  /\ pc[c] = "idle" /\ IF place = "global" THEN Event ELSE Start(c)
  /\ LET found == Visible(place)
     IN  \/ /\ Restorable(found)
            /\ memory' = secret
            /\ Goto(c, "restore", [NoJob EXCEPT !.new = secret, !.held = found.key])
         \/ /\ ~Restorable(found) /\ found # NoRow
            /\ Goto(c, "ask", [NoJob EXCEPT !.asked = found.key])
            /\ UNCHANGED memory
  /\ UNCHANGED <<serverVars, row, secret, fetch, crossed, split>>

(* writeActivatedLicense and the loop of installRefreshedLicenseKey: the   *)
(* licence is written for the business, then for "global", each in a       *)
(* transaction of its own, and the last device_activations after both.     *)
WriteRow(c) ==
  /\ pc[c] \in {"restore", "rows"} /\ job[c].place # "end" /\ Admits
  /\ row' = [key |-> job[c].new, status |-> "active", place |-> job[c].place]
  /\ crossed' = (crossed \/ secret # job[c].new \/ memory # job[c].new)
  /\ split' = FALSE
  /\ Goto(c, pc[c], [job[c] EXCEPT !.place = After(job[c].place)])
  /\ UNCHANGED <<serverVars, secret, memory, fetch, events>>

(* The newest key of what was restored and what was there is the one asked *)
(* about; a restore that failed, before or after its first row, is passed  *)
(* over.                                                                   *)
Restored(c) ==
  /\ pc[c] = "restore" /\ job[c].place = "end" /\ Admits
  /\ LET newest == IF job[c].held > job[c].new THEN job[c].held ELSE job[c].new
     IN  Goto(c, "ask", [NoJob EXCEPT !.asked = newest])
  /\ UNCHANGED <<serverVars, copyVars, events>>

FailRestore(c) ==
  /\ pc[c] = "restore" /\ Refused
  /\ IF job[c].held = NoKey THEN Return(c)
     ELSE Goto(c, "ask", [NoJob EXCEPT !.asked = job[c].held])
  /\ UNCHANGED <<serverVars, copyVars>>

(* reportActivatedDevice: the control plane tells a licence that is not in *)
(* force so, and sends one that is its newest key.                         *)
Answer(c) ==
  /\ pc[c] = "ask"
  /\ LET status == IF standing = "cancelled" THEN "cancelled"
                   ELSE IF key <= over THEN "expired" ELSE "active"
         newer  == status = "active" /\ job[c].asked # key
     IN Goto(c, IF newer THEN "prev" ELSE "read",
                [NoJob EXCEPT !.status = status, !.new = IF newer THEN key ELSE NoKey])
  /\ UNCHANGED <<serverVars, copyVars, events>>
-----------------------------------------------------------------------------
(* installRefreshedLicenseKey, and the same steps of activateOfflineLicense*)
(* which then goes on to report.                                           *)

ReadPrevious(c) ==
  /\ pc[c] = "prev"
  /\ IF job[c].new \in refused THEN Return(c)
     ELSE Goto(c, "secret", [job[c] EXCEPT !.prev = secret])
  /\ UNCHANGED <<serverVars, copyVars, events>>

WriteSecret(c) ==
  /\ pc[c] = "secret"
  /\ secret' = job[c].new /\ memory' = job[c].new
  /\ Goto(c, "rows", job[c])
  /\ UNCHANGED <<serverVars, row, fetch, crossed, split, events>>

(* Only an import writes device_activations after the last row.            *)
Installed(c) ==
  /\ pc[c] = "rows" /\ job[c].place = "end"
  /\ crossed' = (crossed \/ row.key # job[c].new)
  /\ \/ /\ job[c].status = "none" /\ Admits
        /\ Goto(c, "ask", [NoJob EXCEPT !.asked = job[c].new])
     \/ /\ job[c].status # "none"
        /\ Goto(c, "read", [NoJob EXCEPT !.status = job[c].status])
  /\ UNCHANGED <<serverVars, row, secret, memory, fetch, split, events>>

(* The database refuses a row: the secret of before is put back, or that   *)
(* fails in its turn, which nobody looks at; rows written before stay.     *)
RollBack_Memory(c) ==
  /\ pc[c] = "rows" /\ Refused /\ (job[c].place = "end" => job[c].status = "none")
  /\ secret' = job[c].prev /\ UNCHANGED memory
  /\ split' = (split \/ job[c].place # "business")
  /\ crossed' = (crossed \/ secret # job[c].new \/ (~split' /\ row.key > job[c].prev))
  /\ Return(c)
  /\ UNCHANGED <<serverVars, row, fetch>>
RollBack(c) ==
  /\ pc[c] = "rows" /\ Refused /\ (job[c].place = "end" => job[c].status = "none")
  /\ secret' \in {job[c].prev, secret} /\ memory' = job[c].prev
  /\ split' = (split \/ job[c].place # "business" \/ secret' # job[c].prev)
  /\ crossed' = (crossed \/ secret # job[c].new \/ (~split' /\ row.key > job[c].prev))
  /\ Return(c)
  /\ UNCHANGED <<serverVars, row, fetch>>

(* persistAuthoritativeLicenseStatus, for the business and for "global" in *)
(* turn, reads the row if it is there and writes it back.                  *)
NextTarget(c) ==
  IF job[c].place = "business"
  THEN Goto(c, "read", [job[c] EXCEPT !.place = "global", !.held = NoKey])
  ELSE Return(c)

ReadRow(c) ==
  /\ pc[c] = "read"
  /\ IF row.place = job[c].place
     THEN Goto(c, "write", [job[c] EXCEPT !.held = row.key])
     ELSE NextTarget(c)
  /\ UNCHANGED <<serverVars, copyVars, events>>

WriteStatus_Kept(c) ==
  /\ pc[c] = "write" /\ Admits
  /\ row' = IF row.status = "cancelled" THEN row
            ELSE [key |-> job[c].held, status |-> job[c].status, place |-> job[c].place]
  /\ crossed' = (crossed \/ row.key # job[c].held)
  /\ NextTarget(c)
  /\ UNCHANGED <<serverVars, secret, memory, fetch, split, events>>
WriteStatus(c) ==
  /\ pc[c] = "write" /\ Admits
  /\ row' = [key |-> job[c].held, status |-> job[c].status, place |-> job[c].place]
  /\ crossed' = (crossed \/ row.key # job[c].held)
  /\ NextTarget(c)
  /\ UNCHANGED <<serverVars, secret, memory, fetch, split, events>>
-----------------------------------------------------------------------------
(* The user imports a key that has not expired, or removes the licence.    *)

Activate(c, k) ==
  /\ pc[c] = "idle" /\ over < k /\ k <= key
  /\ Event
  /\ Goto(c, "prev", [NoJob EXCEPT !.new = k])
  /\ UNCHANGED <<serverVars, copyVars>>

Remove(c) ==
  /\ pc[c] = "idle"
  /\ Event
  /\ Goto(c, "remove", [NoJob EXCEPT !.place = "global"])
  /\ UNCHANGED <<serverVars, copyVars>>

(* The rows of "global" first, then those of the business.                 *)
RemoveRow(c) ==
  /\ pc[c] = "remove" /\ Admits
  /\ row' = IF row.place = job[c].place THEN NoRow ELSE row
  /\ crossed' = (crossed \/ Others(c) # {})
  /\ IF job[c].place = "global" THEN Goto(c, "remove", NoJob) ELSE Goto(c, "forget", NoJob)
  /\ UNCHANGED <<serverVars, secret, memory, fetch, split, events>>

Forget(c) ==
  /\ pc[c] = "forget"
  /\ secret' = NoKey /\ memory' = NoKey
  /\ crossed' = (crossed \/ row # NoRow \/ Others(c) # {})
  /\ Return(c)
  /\ UNCHANGED <<serverVars, row, fetch, split, events>>
-----------------------------------------------------------------------------
(* getNativeEntitlementKey: the first write after the page has loaded.     *)

Fetch ==
  /\ memory = Unset /\ fetch = Unset
  /\ fetch' = secret
  /\ UNCHANGED <<serverVars, row, secret, memory, crossed, split, pc, job, events>>
Fetched ==
  /\ fetch # Unset
  /\ memory' = fetch /\ fetch' = Unset
  /\ crossed' = (crossed \/ memory \notin {Unset, fetch})
  /\ UNCHANGED <<serverVars, row, secret, split, pc, job, events>>

(* No connection, no answer, a secret store that fails, or a database that *)
(* refuses the row.                                                        *)
Fail(c) ==
  /\ pc[c] \in {"ask", "prev", "secret", "read", "forget"}
  /\ Event
  /\ Return(c)
  /\ UNCHANGED <<serverVars, copyVars>>

FailWrite(c) ==
  /\ pc[c] \in {"write", "remove"} /\ Refused
  /\ Return(c)
  /\ UNCHANGED <<serverVars, copyVars>>

(* An import of a key older than the row's is not undone when it stops.    *)
Crash ==
  /\ Event
  /\ split' = (split \/ \E c \in Callers : pc[c] = "rows" /\ job[c].new < row.key)
  /\ memory' = Unset /\ fetch' = Unset
  /\ pc' = [c \in Callers |-> "idle"] /\ job' = [c \in Callers |-> NoJob]
  /\ UNCHANGED <<serverVars, row, secret, crossed>>
-----------------------------------------------------------------------------
Proceed(c) ==
  \/ Look(c, "business") \/ WriteRow(c) \/ Restored(c) \/ Answer(c)
  \/ ReadPrevious(c) \/ WriteSecret(c) \/ Installed(c)
  \/ ReadRow(c) \/ WriteStatus(c) \/ RemoveRow(c) \/ Forget(c)
Fails(c) == FailRestore(c) \/ RollBack(c) \/ FailWrite(c)
Next ==
  \/ \E kind \in {"renew", "extend", "reset"}, late \in BOOLEAN : Sign(kind, late)
  \/ Suspend \/ Expire
  \/ \E c \in Callers : Proceed(c) \/ Look(c, "global") \/ Fails(c) \/ Remove(c) \/ Fail(c)
  \/ \E c \in Callers, k \in Keys : Activate(c, k)
  \/ Fetch \/ Fetched \/ Crash

Spec == Init /\ [][Next]_vars

(* A step that has begun ends, one way or the other; the timer starts      *)
(* check-ins of the business for ever; a write that needs the key fetches  *)
(* it.                                                                     *)
Needed == \E c \in Callers : pc[c] \in {"restore", "rows", "write", "remove"}
FairSpec ==
  /\ Spec /\ WF_vars(Needed /\ Fetch) /\ WF_vars(Fetched)
  /\ \A c \in Callers : WF_vars(Proceed(c) \/ (~Admits /\ Fails(c)))
-----------------------------------------------------------------------------
(* Properties.                                                             *)

Quiet == (\A c \in Callers : pc[c] = "idle") /\ fetch = Unset
Native == IF memory = Unset THEN secret ELSE memory

(* When nothing is under way, the two guards of a write agree: what the    *)
(* row allows, the key that goes with the write to the native database     *)
(* allows as well, whatever was refused, failed or stopped before.  Two    *)
(* ways out are named: two changes of the licence overlapped, or one was   *)
(* cut off or rolled back with a part of it in place (RollBack, Crash) and *)
(* no key has been written to the row since.                               *)
WritesAgree == Quiet /\ ~crossed /\ ~split /\ Allowed(row) => Native > over

(* What either way out can leave for good: a row with the newest key is    *)
(* never refreshed again, so nothing brings an older secret up to date.    *)
CopiesAgree  == Quiet /\ row.key = key => secret = key
UnlessSplit  == ~split => CopiesAgree

(* Once the control plane leaves a licence alone, a device that holds it,  *)
(* may write and can still check in comes to record what the control plane *)
(* says: that the licence has ended; or the newest key, unless its reset   *)
(* lapsed, and then the secret and the key in memory follow, but for the   *)
(* two ways out of WritesAgree.                                            *)
Converges ==
  <>[](row # NoRow \/ secret > over =>
         /\ standing = "cancelled" /\ Native > over => row.status = "cancelled"
         /\ standing = "active" /\ key > over /\ key \notin refused =>
              /\ row.key = key /\ (Native > over => row.status = "active")
              /\ ~crossed /\ ~split => secret = key /\ memory \in {Unset, key})

=============================================================================
