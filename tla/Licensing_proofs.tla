--------------------------- MODULE Licensing_proofs ---------------------------
(***************************************************************************)
(* Proofs about Licensing: the three copies of the licence, until two      *)
(* changes of it overlap or one is left with a part of it in place.        *)
(***************************************************************************)
EXTENDS Licensing, TLAPS

(* What a caller's job holds at the steps that use it.                     *)
Fits(l, j) ==
  /\ l \in {"restore", "prev", "secret", "rows"} => j.new \in Keys
  /\ l \in {"read", "write"} => j.place \in Targets
  /\ l = "write" => j.held \in Keys

JobInv == \A c \in Callers : Fits(pc[c], job[c])

(* A copy x of the key is not behind row r, unless a caller has just put   *)
(* it there and has yet to write it to the row or to take it back.         *)
Backed(x, r, p, j) ==
  \/ r = NoRow
  \/ x >= r.key
  \/ \E c \in Callers : p[c] = "rows" /\ x = j[c].new

CopyInv ==
  ~crossed /\ ~split =>
    /\ Backed(secret, row, pc, job)
    /\ memory # Unset => Backed(memory, row, pc, job)

(* A read of the store for "memory" is not overtaken before memory is set. *)
FetchInv == memory = Unset /\ fetch # Unset => fetch = secret

IInv == TypeOK /\ JobInv /\ CopyInv /\ FetchInv
-----------------------------------------------------------------------------
LEMMA Numbers == /\ MaxKeys \in Nat /\ 0 \notin Keys /\ Unset \in Nat
                 /\ Unset \notin 0 .. MaxKeys /\ Keys \subseteq 0 .. MaxKeys /\ 0 \in 0 .. MaxKeys
                 /\ 0 .. MaxKeys \subseteq 0 .. Unset /\ Unset \in 0 .. Unset
  BY LicensingAssumption DEF Keys, Unset

LEMMA Records ==
  /\ NoRow \in Rows /\ NoRow.key = 0 /\ NoRow.status = "none" /\ NoRow.place = "end"
  /\ \A k \in Keys, s \in Statuses, p \in Targets :
       [key |-> k, status |-> s, place |-> p] \in Rows \ {NoRow}
  /\ \A x \in Rows \ {NoRow} : x.key \in Keys /\ x.status \in Statuses /\ x.place \in Targets
  /\ \A x \in Rows : x.key \in 0 .. MaxKeys
<1>1. NoRow \in Rows /\ NoRow.key = 0 /\ NoRow.status = "none" /\ NoRow.place = "end"
  BY DEF Rows, NoRow, NoKey
<1>2. ASSUME NEW k \in Keys, NEW s \in Statuses, NEW p \in Targets
      PROVE  [key |-> k, status |-> s, place |-> p] \in Rows \ {NoRow}
  <2>1. [key |-> k, status |-> s, place |-> p] \in Rows
    BY DEF Rows
  <2>2. [key |-> k, status |-> s, place |-> p].key # NoRow.key
    BY <1>1, Numbers
  <2> QED  BY <2>1, <2>2
<1>3. ASSUME NEW x \in Rows \ {NoRow}
      PROVE  x.key \in Keys /\ x.status \in Statuses /\ x.place \in Targets
  BY DEF Rows
<1>4. ASSUME NEW x \in Rows PROVE x.key \in 0 .. MaxKeys
  BY <1>1, <1>3, Numbers
<1> QED
  BY <1>1, <1>2, <1>3, <1>4

Jobs == [asked : 0 .. MaxKeys, new : 0 .. MaxKeys, prev : 0 .. MaxKeys,
         status : Statuses, place : Targets \cup {"end"}, held : 0 .. MaxKeys]

LEMMA EmptyJob ==
  /\ NoJob \in Jobs
  /\ NoJob = [asked |-> 0, new |-> 0, prev |-> 0, status |-> "none", place |-> "business", held |-> 0]
  BY Numbers DEF NoJob, Jobs, NoKey, Statuses, Targets

(* What an action of a caller leaves to the others.                        *)
Moved(c) == \A d \in Callers \ {c} : pc'[d] = pc[d] /\ job'[d] = job[d]

PcTyped == pc' \in [Callers -> Steps] /\ job' \in [Callers -> Jobs] /\ JobInv'

(* A caller that goes to a step with a job that fits it.                   *)
LEMMA Stepped ==
  ASSUME TypeOK, JobInv, NEW c \in Callers, NEW l \in Steps, NEW j \in Jobs, Goto(c, l, j), Fits(l, j)
  PROVE  PcTyped /\ Moved(c) /\ pc'[c] = l /\ job'[c] = j
<1>1. pc \in [Callers -> Steps] /\ job \in [Callers -> Jobs]
  BY DEF TypeOK, Jobs
<1>2. pc' = [pc EXCEPT ![c] = l] /\ job' = [job EXCEPT ![c] = j]
  BY DEF Goto
<1>3. /\ pc' \in [Callers -> Steps] /\ job' \in [Callers -> Jobs]
      /\ pc'[c] = l /\ job'[c] = j
      /\ \A d \in Callers \ {c} : pc'[d] = pc[d] /\ job'[d] = job[d]
  BY <1>1, <1>2
<1>4. JobInv'
  <2> SUFFICES ASSUME NEW d \in Callers PROVE Fits(pc'[d], job'[d])
    BY DEF JobInv
  <2>1. CASE d = c
    BY <1>3, <2>1
  <2>2. CASE d # c
    BY <1>3, <2>2 DEF JobInv
  <2> QED  BY <2>1, <2>2
<1> QED
  BY <1>3, <1>4 DEF PcTyped, Moved

LEMMA Returns ==
  ASSUME TypeOK, JobInv, NEW c \in Callers, Return(c)
  PROVE  PcTyped /\ Moved(c)
<1>1. Fits("idle", NoJob) /\ "idle" \in Steps
  BY DEF Fits, Steps
<1> QED
  BY <1>1, EmptyJob, Stepped DEF Return
-----------------------------------------------------------------------------
(* Every action of a caller leaves a job that fits its next step.          *)

LEMMA LookMoves ==
  ASSUME TypeOK, JobInv, NEW c \in Callers, NEW place, Look(c, place)
  PROVE  PcTyped /\ Moved(c)
<1> USE Numbers, Records, EmptyJob
<1>1. Visible(place) \in Rows /\ Visible(place).key \in 0 .. MaxKeys
  BY DEF Visible, TypeOK
<1>2. CASE /\ Restorable(Visible(place))
           /\ Goto(c, "restore", [NoJob EXCEPT !.new = secret, !.held = Visible(place).key])
  <2> DEFINE j == [NoJob EXCEPT !.new = secret, !.held = Visible(place).key]
  <2>1. secret \in Keys
    BY <1>2 DEF Restorable, TypeOK, NoKey, Keys
  <2>2. j \in Jobs /\ j.new = secret
    BY <1>1, <2>1 DEF Jobs
  <2>3. Fits("restore", j)
    BY <2>1, <2>2 DEF Fits
  <2> HIDE DEF j
  <2> QED  BY <1>2, <2>2, <2>3, Stepped DEF Steps, j
<1>3. CASE Goto(c, "ask", [NoJob EXCEPT !.asked = Visible(place).key])
  <2> DEFINE j == [NoJob EXCEPT !.asked = Visible(place).key]
  <2>1. j \in Jobs
    BY <1>1 DEF Jobs
  <2>2. Fits("ask", j)
    BY DEF Fits
  <2> QED  BY <1>3, <2>1, <2>2, Stepped DEF Steps
<1> QED
  BY <1>2, <1>3 DEF Look

LEMMA WriteRowMoves ==
  ASSUME TypeOK, JobInv, NEW c \in Callers, WriteRow(c)
  PROVE  /\ PcTyped /\ Moved(c)
         /\ job[c].new \in Keys /\ job[c].place \in Targets
<1> DEFINE j == [job[c] EXCEPT !.place = After(job[c].place)]
<1>1. job[c] \in Jobs /\ pc[c] \in {"restore", "rows"} /\ job[c].new \in Keys /\ job[c].place \in Targets
  BY DEF TypeOK, Jobs, JobInv, WriteRow, Fits
<1>2. After(job[c].place) \in Targets \cup {"end"}
  BY DEF After, Targets
<1>3. j \in Jobs /\ j.new = job[c].new
  BY <1>1, <1>2 DEF Jobs
<1>4. Fits(pc[c], j) /\ pc[c] \in Steps
  BY <1>1, <1>3 DEF Fits, Steps
<1>5. Goto(c, pc[c], j)
  BY DEF WriteRow
<1> HIDE DEF j
<1> QED
  BY <1>1, <1>3, <1>4, <1>5, Stepped

LEMMA NextTargetMoves ==
  ASSUME TypeOK, JobInv, NEW c \in Callers, NextTarget(c)
  PROVE  PcTyped /\ Moved(c)
<1> DEFINE j == [job[c] EXCEPT !.place = "global", !.held = NoKey]
<1>1. job[c] \in Jobs
  BY DEF TypeOK, Jobs
<1>2. j \in Jobs /\ j.place = "global"
  BY <1>1, Numbers DEF Jobs, Targets, NoKey
<1>3. Fits("read", j) /\ "read" \in Steps
  BY <1>2 DEF Fits, Targets, Steps
<1>4. Goto(c, "read", j) \/ Return(c)
  BY DEF NextTarget
<1> HIDE DEF j
<1> QED
  BY <1>2, <1>3, <1>4, Stepped, Returns

LEMMA AnswerMoves ==
  ASSUME TypeOK, JobInv, NEW c \in Callers, Answer(c)
  PROVE  PcTyped /\ Moved(c)
<1> USE Numbers, EmptyJob
<1> DEFINE status == IF standing = "cancelled" THEN "cancelled"
                     ELSE IF key <= over THEN "expired" ELSE "active"
           newer  == status = "active" /\ job[c].asked # key
           new    == IF newer THEN key ELSE NoKey
           l      == IF newer THEN "prev" ELSE "read"
           j      == [NoJob EXCEPT !.status = status, !.new = new]
<1>1. Goto(c, l, j)
  BY DEF Answer
<1>2. key \in Keys /\ status \in Statuses
  BY DEF TypeOK, Statuses
<1>3. new \in 0 .. MaxKeys /\ (newer => new \in Keys)
  BY <1>2 DEF NoKey
<1>4. l \in Steps /\ (l = "prev" => newer) /\ l \in {"prev", "read"}
  BY DEF Steps
<1> HIDE DEF status, newer, new, l
<1>5. j \in Jobs /\ j.new = new /\ j.place = "business"
  BY <1>2, <1>3 DEF Jobs
<1>6. Fits(l, j)
  BY <1>3, <1>4, <1>5 DEF Fits, Targets
<1> HIDE DEF j
<1> QED
  BY <1>1, <1>4, <1>5, <1>6, Stepped

LEMMA Moves ==
  ASSUME TypeOK, JobInv, NEW c \in Callers,
         \/ Restored(c) \/ FailRestore(c) \/ ReadPrevious(c) \/ WriteSecret(c) \/ Installed(c)
         \/ RollBack(c) \/ ReadRow(c) \/ WriteStatus(c) \/ Remove(c) \/ RemoveRow(c) \/ Forget(c)
         \/ Fail(c) \/ FailWrite(c) \/ \E k \in Keys : Activate(c, k)
  PROVE  PcTyped /\ Moved(c)
<1> USE Numbers, Records, EmptyJob
<1>0. job[c] \in Jobs /\ pc[c] \in Steps /\ Fits(pc[c], job[c])
  BY DEF TypeOK, Jobs, JobInv
<1>a. ASSUME NEW k \in 0 .. MaxKeys, Goto(c, "ask", [NoJob EXCEPT !.asked = k])
      PROVE  PcTyped /\ Moved(c)
  <2> DEFINE j == [NoJob EXCEPT !.asked = k]
  <2>1. j \in Jobs
    BY DEF Jobs
  <2>2. Fits("ask", j) /\ "ask" \in Steps
    BY DEF Fits, Steps
  <2> HIDE DEF j
  <2> QED  BY <1>a, <2>1, <2>2, Stepped DEF j
<1>1. CASE Restored(c)
  <2> DEFINE newest == IF job[c].held > job[c].new THEN job[c].held ELSE job[c].new
  <2>1. newest \in 0 .. MaxKeys
    BY <1>0 DEF Jobs
  <2>2. Goto(c, "ask", [NoJob EXCEPT !.asked = newest])
    BY <1>1 DEF Restored
  <2> HIDE DEF newest
  <2> QED  BY <1>a, <2>1, <2>2
<1>2. CASE FailRestore(c)
  <2>1. Return(c) \/ Goto(c, "ask", [NoJob EXCEPT !.asked = job[c].held])
    BY <1>2 DEF FailRestore
  <2>2. job[c].held \in 0 .. MaxKeys
    BY <1>0 DEF Jobs
  <2> QED  BY <1>a, <2>1, <2>2, Returns
<1>3. CASE ReadPrevious(c)
  <2>1. CASE Return(c)
    BY <2>1, Returns
  <2>2. CASE Goto(c, "secret", [job[c] EXCEPT !.prev = secret])
    <3> DEFINE j == [job[c] EXCEPT !.prev = secret]
    <3>1. j \in Jobs /\ j.new = job[c].new
      BY <1>0 DEF Jobs, TypeOK
    <3>2. Fits("secret", j) /\ "secret" \in Steps
      BY <1>0, <1>3, <3>1 DEF ReadPrevious, Fits, Steps
    <3> HIDE DEF j
    <3> QED  BY <2>2, <3>1, <3>2, Stepped DEF j
  <2> QED  BY <1>3, <2>1, <2>2 DEF ReadPrevious
<1>4. CASE WriteSecret(c)
  <2>1. Goto(c, "rows", job[c]) /\ Fits("rows", job[c]) /\ "rows" \in Steps
    BY <1>0, <1>4 DEF WriteSecret, Fits, Steps
  <2> QED  BY <1>0, <2>1, Stepped
<1>5. CASE Installed(c)
  <2>1. job[c].new \in 0 .. MaxKeys /\ job[c].status \in Statuses
    BY <1>0 DEF Jobs
  <2>2. CASE Goto(c, "ask", [NoJob EXCEPT !.asked = job[c].new])
    BY <1>a, <2>1, <2>2
  <2>3. CASE Goto(c, "read", [NoJob EXCEPT !.status = job[c].status])
    <3> DEFINE j == [NoJob EXCEPT !.status = job[c].status]
    <3>1. j \in Jobs /\ j.place = "business"
      BY <2>1 DEF Jobs
    <3>2. Fits("read", j) /\ "read" \in Steps
      BY <3>1 DEF Fits, Targets, Steps
    <3> HIDE DEF j
    <3> QED  BY <2>3, <3>1, <3>2, Stepped DEF j
  <2> QED  BY <1>5, <2>2, <2>3 DEF Installed
<1>6. CASE ReadRow(c)
  <2>1. CASE row.place = job[c].place /\ Goto(c, "write", [job[c] EXCEPT !.held = row.key])
    <3> DEFINE j == [job[c] EXCEPT !.held = row.key]
    <3>1. row \in Rows /\ row.place \in Targets
      BY <1>0, <1>6, <2>1 DEF ReadRow, Fits, TypeOK
    <3>2. row # NoRow
      BY <3>1 DEF Targets
    <3>3. row.key \in Keys
      BY <3>1, <3>2
    <3>4. j \in Jobs /\ j.held = row.key /\ j.place = row.place
      BY <1>0, <2>1, <3>3 DEF Jobs
    <3>5. Fits("write", j) /\ "write" \in Steps
      BY <3>1, <3>3, <3>4 DEF Fits, Steps
    <3> HIDE DEF j
    <3> QED  BY <2>1, <3>4, <3>5, Stepped DEF j
  <2> QED  BY <1>6, <2>1, NextTargetMoves DEF ReadRow
<1>7. CASE WriteStatus(c)
  BY <1>7, NextTargetMoves DEF WriteStatus
<1>8. CASE Remove(c)
  <2> DEFINE j == [NoJob EXCEPT !.place = "global"]
  <2>1. j \in Jobs
    BY DEF Jobs, Targets
  <2>2. Fits("remove", j) /\ "remove" \in Steps
    BY DEF Fits, Steps
  <2>3. Goto(c, "remove", j)
    BY <1>8 DEF Remove
  <2> HIDE DEF j
  <2> QED  BY <2>1, <2>2, <2>3, Stepped
<1>9. CASE RemoveRow(c)
  <2>1. Goto(c, "remove", NoJob) \/ Goto(c, "forget", NoJob)
    BY <1>9 DEF RemoveRow
  <2>2. /\ "remove" \in Steps /\ "forget" \in Steps
        /\ Fits("remove", NoJob) /\ Fits("forget", NoJob)
    BY DEF Fits, Steps
  <2> QED  BY <2>1, <2>2, Stepped
<1>10. CASE RollBack(c) \/ Forget(c) \/ Fail(c) \/ FailWrite(c)
  <2>1. Return(c)
    BY <1>10 DEF RollBack, Forget, Fail, FailWrite
  <2> QED  BY <2>1, Returns
<1>11. ASSUME NEW k \in Keys, Activate(c, k) PROVE PcTyped /\ Moved(c)
  <2> DEFINE j == [NoJob EXCEPT !.new = k]
  <2>1. j \in Jobs /\ j.new = k
    BY DEF Jobs
  <2>2. Fits("prev", j) /\ "prev" \in Steps
    BY <2>1 DEF Fits, Steps
  <2>3. Goto(c, "prev", j)
    BY <1>11 DEF Activate
  <2> HIDE DEF j
  <2> QED  BY <2>1, <2>2, <2>3, Stepped
<1> QED
  BY <1>1, <1>2, <1>3, <1>4, <1>5, <1>6, <1>7, <1>8, <1>9, <1>10, <1>11
-----------------------------------------------------------------------------
(* The copies keep their types.                                            *)
CopiesTyped ==
  /\ row' \in Rows /\ secret' \in 0 .. MaxKeys
  /\ memory' \in 0 .. Unset /\ fetch' \in 0 .. Unset
  /\ crossed' \in BOOLEAN /\ split' \in BOOLEAN

LEMMA CopiesKeepTypes == TypeOK /\ JobInv /\ [Next]_vars => CopiesTyped
<1> SUFFICES ASSUME TypeOK, JobInv, [Next]_vars PROVE CopiesTyped
  OBVIOUS
<1> USE Numbers, Records
<1>1. /\ row \in Rows /\ secret \in 0 .. MaxKeys
      /\ memory \in 0 .. Unset /\ fetch \in 0 .. Unset /\ crossed \in BOOLEAN /\ split \in BOOLEAN
      /\ \A c \in Callers : job[c] \in Jobs /\ Fits(pc[c], job[c])
  BY DEF TypeOK, Jobs, JobInv
<1>2. CASE UNCHANGED copyVars
  BY <1>1, <1>2 DEF CopiesTyped, copyVars
<1>3. ASSUME NEW c \in Callers, NEW place, Look(c, place) PROVE CopiesTyped
  BY <1>1, <1>3 DEF Look, CopiesTyped
<1>4. ASSUME NEW c \in Callers, WriteRow(c) PROVE CopiesTyped
  <2>1. row' \in Rows
    BY <1>4, WriteRowMoves DEF WriteRow, Statuses
  <2> QED  BY <1>1, <1>4, <2>1 DEF WriteRow, CopiesTyped
<1>5. ASSUME NEW c \in Callers, WriteSecret(c) PROVE CopiesTyped
  <2>1. job[c].new \in 0 .. MaxKeys
    BY <1>1 DEF Jobs
  <2> QED  BY <1>1, <1>5, <2>1 DEF WriteSecret, CopiesTyped
<1>6. ASSUME NEW c \in Callers, Installed(c) PROVE CopiesTyped
  BY <1>1, <1>6 DEF Installed, CopiesTyped
<1>7. ASSUME NEW c \in Callers, RollBack(c) PROVE CopiesTyped
  <2>1. job[c].prev \in 0 .. MaxKeys
    BY <1>1 DEF Jobs
  <2>2. split' \in BOOLEAN /\ crossed' \in BOOLEAN
    BY <1>7 DEF RollBack
  <2>3. secret' \in 0 .. MaxKeys /\ memory' \in 0 .. Unset
    BY <1>1, <1>7, <2>1 DEF RollBack
  <2> QED  BY <1>1, <1>7, <2>2, <2>3 DEF RollBack, CopiesTyped
<1>8. ASSUME NEW c \in Callers, WriteStatus(c) PROVE CopiesTyped
  <2>1. job[c].held \in Keys /\ job[c].status \in Statuses /\ job[c].place \in Targets
    BY <1>1, <1>8 DEF Jobs, WriteStatus, Fits
  <2>2. row' \in Rows
    BY <1>8, <2>1 DEF WriteStatus
  <2> QED  BY <1>1, <1>8, <2>2 DEF WriteStatus, CopiesTyped
<1>9. ASSUME NEW c \in Callers, RemoveRow(c) \/ Forget(c) PROVE CopiesTyped
  BY <1>1, <1>9 DEF RemoveRow, Forget, CopiesTyped, NoKey
<1>10. CASE Fetch \/ Fetched \/ Crash
  <2>1. CASE Fetch    BY <1>1, <2>1 DEF Fetch, CopiesTyped
  <2>2. CASE Fetched  BY <1>1, <2>2 DEF Fetched, CopiesTyped
  <2>3. CASE Crash    BY <1>1, <2>3 DEF Crash, CopiesTyped
  <2> QED  BY <1>10, <2>1, <2>2, <2>3
<1>11. ASSUME NEW c \in Callers,
              \/ Restored(c) \/ FailRestore(c) \/ Answer(c) \/ ReadPrevious(c) \/ ReadRow(c)
              \/ Remove(c) \/ Fail(c) \/ FailWrite(c) \/ \E k \in Keys : Activate(c, k)
       PROVE  UNCHANGED copyVars
  BY <1>11 DEF Restored, FailRestore, Answer, ReadPrevious, ReadRow, Remove, Fail, FailWrite, Activate
<1>12. CASE (\E kind \in {"renew", "extend", "reset"}, late \in BOOLEAN : Sign(kind, late))
            \/ Suspend \/ Expire \/ UNCHANGED vars
  BY <1>2, <1>12 DEF Sign, Suspend, Expire, vars
<1> QED
  BY <1>2, <1>3, <1>4, <1>5, <1>6, <1>7, <1>8, <1>9, <1>10, <1>11, <1>12 DEF Next, Proceed, Fails

ServerTyped ==
  /\ key' \in Keys /\ standing' \in {"active", "cancelled"} /\ refused' \subseteq Keys
  /\ over' \in 0 .. MaxKeys /\ events' \in Nat

LEMMA ServerKeepsTypes == TypeOK /\ [Next]_vars => ServerTyped
<1> SUFFICES ASSUME TypeOK, [Next]_vars PROVE ServerTyped
  OBVIOUS
<1> USE Numbers
<1>1. /\ key \in 1 .. MaxKeys /\ over \in 0 .. MaxKeys /\ events \in Nat /\ refused \subseteq 1 .. MaxKeys
      /\ standing \in {"active", "cancelled"}
  BY DEF TypeOK, Keys
<1>2. ASSUME NEW kind, NEW late, Sign(kind, late) PROVE ServerTyped
  <2>1. key + 1 \in 1 .. MaxKeys
    BY <1>1, <1>2 DEF Sign
  <2>2. key' \in Keys /\ refused' \subseteq Keys
    BY <1>1, <1>2, <2>1 DEF Sign, Keys
  <2>3. standing' \in {"active", "cancelled"} /\ over' = over /\ events' = events
    BY <1>1, <1>2 DEF Sign
  <2> QED  BY <1>1, <2>2, <2>3 DEF ServerTyped
<1>3. CASE Suspend
  BY <1>1, <1>3 DEF Suspend, Event, Keys, ServerTyped
<1>4. CASE Expire
  BY <1>1, <1>4 DEF Expire, Keys, ServerTyped
<1>5. UNCHANGED events \/ Event => events' \in Nat
  BY <1>1 DEF Event
<1>6. UNCHANGED serverVars /\ (UNCHANGED events \/ Event) => ServerTyped
  BY <1>1, <1>5 DEF serverVars, ServerTyped, Keys
<1>7. ASSUME NEW c \in Callers
      PROVE  /\ Proceed(c) \/ Fails(c) \/ Remove(c) \/ Fail(c) => UNCHANGED serverVars
             /\ Proceed(c) \/ Fails(c) \/ Remove(c) \/ Fail(c) => UNCHANGED events \/ Event
  BY DEF Proceed, Look, Start, Restored, Answer, ReadPrevious, WriteSecret, WriteRow, Installed, ReadRow,
         WriteStatus, RemoveRow, Forget, Fails, FailRestore, RollBack, FailWrite, Refused, Remove, Fail
<1>8. ASSUME NEW c \in Callers, NEW k \in Keys, Look(c, "global") \/ Activate(c, k)
      PROVE  UNCHANGED serverVars /\ (UNCHANGED events \/ Event)
  BY <1>8 DEF Activate, Look, Start
<1>9. ASSUME NEW c \in Callers, Look(c, "global") PROVE ServerTyped
  BY <1>6, <1>9 DEF Look, Start
<1>10. CASE Fetch \/ Fetched \/ Crash \/ UNCHANGED vars
  BY <1>6, <1>10 DEF Fetch, Fetched, Crash, vars
<1> QED
  BY <1>2, <1>3, <1>4, <1>6, <1>7, <1>8, <1>9, <1>10 DEF Next
-----------------------------------------------------------------------------
(* The copies stay together.                                               *)

(* A caller that is not about to write rows leaves the others as they are. *)
LEMMA OthersWriting ==
  ASSUME NEW c \in Callers, Moved(c), pc[c] # "rows", row' \in {row, NoRow},
         NEW x, Backed(x, row, pc, job)
  PROVE  Backed(x, row', pc', job')
  BY DEF Backed, Moved

LEMMA CopyKept ==
  ASSUME NEW c \in Callers, Moved(c), pc[c] # "rows", row' \in {row, NoRow},
         UNCHANGED <<secret, memory>>, ~crossed' /\ ~split' => ~crossed /\ ~split, CopyInv
  PROVE  CopyInv'
  BY OthersWriting DEF CopyInv

(* A key the row has, or one above it, backs it.                           *)
LEMMA Above ==
  ASSUME NEW x \in Nat, NEW r, NEW p, NEW j, r.key \in Nat, ~(r.key > x)
  PROVE  Backed(x, r, p, j)
  BY DEF Backed

LEMMA CopyStep ==
  ASSUME IInv, [Next]_vars PROVE PcTyped /\ CopyInv' /\ FetchInv'
<1> USE DEF IInv
<1>0. /\ CopiesTyped /\ row \in Rows /\ secret \in 0 .. MaxKeys /\ crossed \in BOOLEAN /\ split \in BOOLEAN
      /\ memory \in 0 .. Unset /\ Unset \notin 0 .. MaxKeys
      /\ \A c \in Callers : job[c] \in Jobs
  BY CopiesKeepTypes, Numbers DEF TypeOK, Jobs
<1>1. /\ row.key \in Nat /\ row'.key \in Nat /\ secret \in Nat /\ secret' \in Nat /\ memory \in Nat /\ memory' \in Nat
      /\ \A c \in Callers : job[c].new \in Nat /\ job[c].prev \in 0 .. MaxKeys
  <2>1. row.key \in 0 .. MaxKeys /\ row'.key \in 0 .. MaxKeys
    BY <1>0, Records DEF CopiesTyped
  <2>2. \A c \in Callers : job[c].new \in 0 .. MaxKeys /\ job[c].prev \in 0 .. MaxKeys
    BY <1>0 DEF Jobs
  <2> QED  BY <1>0, <2>1, <2>2, Numbers DEF CopiesTyped
<1>2. ASSUME NEW c \in Callers, NEW place, Look(c, place) PROVE PcTyped /\ CopyInv' /\ FetchInv'
  <2>1. PcTyped /\ Moved(c)
    BY <1>2, LookMoves
  <2>2. /\ pc[c] = "idle" /\ UNCHANGED <<row, secret, fetch, crossed, split>>
        /\ memory' \in {memory, secret}
    BY <1>2 DEF Look
  <2>3. CopyInv'
    BY <2>1, <2>2, OthersWriting DEF CopyInv
  <2>4. FetchInv'
    BY <1>0, <2>2 DEF FetchInv
  <2> QED  BY <2>1, <2>3, <2>4
<1>3. ASSUME NEW c \in Callers, WriteRow(c) PROVE PcTyped /\ CopyInv' /\ FetchInv'
  <2>1. PcTyped
    BY <1>3, WriteRowMoves
  <2>2. /\ row'.key = job[c].new /\ UNCHANGED <<secret, memory, fetch>>
        /\ ~crossed' => secret = job[c].new /\ memory = job[c].new
    BY <1>3 DEF WriteRow
  <2>3. CopyInv'
    BY <1>1, <2>2, Above DEF CopyInv
  <2>4. FetchInv'
    BY <2>2 DEF FetchInv
  <2> QED  BY <2>1, <2>3, <2>4
<1>4. ASSUME NEW c \in Callers,
             \/ Restored(c) \/ FailRestore(c) \/ Answer(c) \/ ReadPrevious(c) \/ ReadRow(c)
             \/ Remove(c) \/ RemoveRow(c) \/ Fail(c) \/ FailWrite(c) \/ \E k \in Keys : Activate(c, k)
      PROVE  PcTyped /\ CopyInv' /\ FetchInv'
  <2>1. PcTyped /\ Moved(c)
    BY <1>4, Moves, AnswerMoves
  <2>2. pc[c] # "rows" /\ UNCHANGED <<secret, memory, fetch, split>>
    BY <1>4 DEF Restored, FailRestore, Answer, ReadPrevious, ReadRow, Remove, RemoveRow, Fail, FailWrite,
                Activate, copyVars
  <2>3. row' \in {row, NoRow} /\ (~crossed' => ~crossed)
    BY <1>0, <1>4 DEF Restored, FailRestore, Answer, ReadPrevious, ReadRow, Remove, RemoveRow, Fail, FailWrite,
                Activate, copyVars
  <2>4. CopyInv'
    BY <2>1, <2>2, <2>3, CopyKept
  <2>5. FetchInv'
    BY <2>2 DEF FetchInv
  <2> QED  BY <2>1, <2>4, <2>5
<1>5. ASSUME NEW c \in Callers, WriteSecret(c) PROVE PcTyped /\ CopyInv' /\ FetchInv'
  <2>1. PcTyped
    BY <1>5, Moves
  <2>2. secret' = job[c].new /\ memory' = job[c].new /\ Goto(c, "rows", job[c])
    BY <1>5 DEF WriteSecret
  <2>3. pc'[c] = "rows" /\ job'[c].new = job[c].new
    BY <2>2 DEF Goto, TypeOK
  <2>4. CopyInv'
    BY <2>2, <2>3 DEF CopyInv, Backed
  <2>5. FetchInv'
    BY <1>0, <2>2 DEF FetchInv, Jobs
  <2> QED  BY <2>1, <2>4, <2>5
<1>6. ASSUME NEW c \in Callers, Installed(c) PROVE PcTyped /\ CopyInv' /\ FetchInv'
  <2>1. PcTyped /\ Moved(c)
    BY <1>6, Moves
  <2>2. /\ UNCHANGED <<row, secret, memory, fetch, split>> /\ (~crossed' => ~crossed)
        /\ ~crossed' => row.key = job[c].new
    BY <1>0, <1>6 DEF Installed
  <2>3. ASSUME NEW x \in Nat, Backed(x, row, pc, job), ~crossed' PROVE Backed(x, row', pc', job')
    <3>1. CASE row = NoRow
      BY <2>2, <3>1 DEF Backed
    <3>2. CASE x >= row.key
      BY <2>2, <3>2 DEF Backed
    <3>3. ASSUME NEW d \in Callers, pc[d] = "rows", x = job[d].new PROVE Backed(x, row', pc', job')
      <4>1. CASE d = c
        <5>1. row'.key = x
          BY <2>2, <2>3, <3>3, <4>1
        <5> QED  BY <1>1, <5>1, Above
      <4>2. CASE d # c
        BY <2>1, <3>3, <4>2 DEF Moved, Backed
      <4> QED  BY <4>1, <4>2
    <3> QED  BY <2>3, <3>1, <3>2, <3>3 DEF Backed
  <2>4. CopyInv'
    BY <1>1, <2>2, <2>3 DEF CopyInv
  <2>5. FetchInv'
    BY <2>2 DEF FetchInv
  <2> QED  BY <2>1, <2>4, <2>5
<1>7. ASSUME NEW c \in Callers, RollBack(c) PROVE PcTyped /\ CopyInv' /\ FetchInv'
  <2>1. PcTyped
    BY <1>7, Moves
  <2>2. row' = row /\ memory' = job[c].prev
    BY <1>7 DEF RollBack
  <2>3. ~split' => secret' = job[c].prev
    BY <1>7 DEF RollBack
  <2>4. ~crossed' /\ ~split' => ~(row.key > job[c].prev)
    BY <1>7 DEF RollBack
  <2>5. CopyInv'
    BY <1>1, <2>2, <2>3, <2>4, Above DEF CopyInv
  <2>6. FetchInv'
    BY <1>0, <1>1, <2>2 DEF FetchInv
  <2> QED  BY <2>1, <2>5, <2>6
<1>8. ASSUME NEW c \in Callers, WriteStatus(c) PROVE PcTyped /\ CopyInv' /\ FetchInv'
  <2>1. PcTyped /\ Moved(c)
    BY <1>8, Moves
  <2>2. /\ pc[c] = "write" /\ UNCHANGED <<secret, memory, fetch, split>> /\ row'.key = job[c].held
        /\ job[c].held \in Keys
    BY <1>8 DEF WriteStatus, JobInv, Fits
  <2>3. ~crossed' => ~crossed /\ row.key = job[c].held
    BY <1>8 DEF WriteStatus
  <2>4. job[c].held # 0
    BY <2>2, Numbers
  <2>5. ASSUME NEW x, Backed(x, row, pc, job), ~crossed' PROVE Backed(x, row', pc', job')
    <3>1. row # NoRow /\ row'.key = row.key
      BY <2>2, <2>3, <2>4, <2>5, Records
    <3>2. CASE x >= row.key
      BY <3>1, <3>2 DEF Backed
    <3>3. ASSUME NEW d \in Callers, pc[d] = "rows", x = job[d].new PROVE Backed(x, row', pc', job')
      BY <2>1, <2>2, <3>3 DEF Moved, Backed
    <3> QED  BY <2>5, <3>1, <3>2, <3>3 DEF Backed
  <2>6. CopyInv'
    BY <2>2, <2>3, <2>5 DEF CopyInv
  <2>7. FetchInv'
    BY <2>2 DEF FetchInv
  <2> QED  BY <2>1, <2>6, <2>7
<1>9. ASSUME NEW c \in Callers, Forget(c) PROVE PcTyped /\ CopyInv' /\ FetchInv'
  <2>1. PcTyped
    BY <1>9, Moves
  <2>2. CopyInv'
    BY <1>9 DEF Forget, CopyInv, Backed
  <2>3. FetchInv'
    BY <1>9, Numbers DEF Forget, FetchInv, NoKey
  <2> QED  BY <2>1, <2>2, <2>3
<1>10. ASSUME UNCHANGED <<pc, job>> PROVE PcTyped
  BY <1>10 DEF PcTyped, TypeOK, Jobs, JobInv
<1>11. CASE Fetch
  <2>1. UNCHANGED <<pc, job, row, secret, memory, crossed, split>> /\ fetch' = secret
    BY <1>11 DEF Fetch
  <2> QED  BY <1>10, <2>1 DEF CopyInv, FetchInv
<1>12. CASE Fetched
  <2>1. UNCHANGED <<pc, job, row, secret, split>> /\ fetch # Unset /\ memory' = fetch /\ fetch' = Unset
    BY <1>12 DEF Fetched
  <2>2. ~crossed' => ~crossed /\ memory \in {Unset, fetch}
    BY <1>12 DEF Fetched
  <2>3. ~crossed' => memory' = secret \/ (memory # Unset /\ memory' = memory)
    BY <2>1, <2>2 DEF FetchInv
  <2>4. CopyInv'
    BY <2>1, <2>2, <2>3 DEF CopyInv
  <2>5. FetchInv'
    BY <2>1 DEF FetchInv
  <2> QED  BY <1>10, <2>1, <2>4, <2>5
<1>13. CASE Crash
  <2>1. PcTyped
    BY <1>13, EmptyJob DEF Crash, PcTyped, Steps, JobInv, Fits
  <2>2. UNCHANGED <<row, secret, crossed>> /\ memory' = Unset /\ fetch' = Unset
    BY <1>13 DEF Crash
  <2>3. ~split' => ~split /\ \A c \in Callers : pc[c] = "rows" => ~(job[c].new < row.key)
    BY <1>13 DEF Crash
  <2>4. ASSUME ~crossed', ~split' PROVE Backed(secret', row', pc', job')
    <3>1. Backed(secret, row, pc, job)
      BY <2>2, <2>3, <2>4 DEF CopyInv
    <3>2. CASE row = NoRow
      BY <2>2, <3>2 DEF Backed
    <3>3. CASE secret >= row.key
      BY <2>2, <3>3 DEF Backed
    <3>4. ASSUME NEW c \in Callers, pc[c] = "rows", secret = job[c].new PROVE secret >= row.key
      <4>1. ~(secret < row.key)
        BY <2>3, <2>4, <3>4
      <4> QED  BY <1>1, <4>1
    <3> QED  BY <3>1, <3>2, <3>3, <3>4 DEF Backed
  <2>5. CopyInv'
    BY <2>2, <2>4 DEF CopyInv
  <2>6. FetchInv'
    BY <2>2 DEF FetchInv
  <2> QED  BY <2>1, <2>5, <2>6
<1>14. CASE (\E kind \in {"renew", "extend", "reset"}, late \in BOOLEAN : Sign(kind, late))
            \/ Suspend \/ Expire \/ UNCHANGED vars
  <2>1. UNCHANGED <<pc, job>> /\ UNCHANGED <<row, secret, memory, fetch, crossed, split>>
    BY <1>14 DEF Sign, Suspend, Expire, vars, copyVars
  <2> QED  BY <1>10, <2>1 DEF CopyInv, FetchInv
<1> QED
  BY <1>2, <1>3, <1>4, <1>5, <1>6, <1>7, <1>8, <1>9, <1>11, <1>12, <1>13, <1>14 DEF Next, Proceed, Fails

LEMMA InitiallyInv == Init => IInv
<1> SUFFICES ASSUME Init PROVE IInv
  OBVIOUS
<1>1. TypeOK
  <2>1. key \in Keys /\ standing \in {"active", "cancelled"} /\ refused \subseteq Keys
    BY LicensingAssumption DEF Init, Keys
  <2>2. over \in 0 .. MaxKeys /\ secret \in 0 .. MaxKeys
    BY Numbers DEF Init, NoKey
  <2>3. row \in Rows /\ memory \in 0 .. Unset /\ fetch \in 0 .. Unset
    BY Numbers, Records DEF Init
  <2>4. pc \in [Callers -> Steps] /\ job \in [Callers -> Jobs]
    BY EmptyJob DEF Init, Steps
  <2>5. crossed \in BOOLEAN /\ split \in BOOLEAN /\ events \in Nat
    BY DEF Init
  <2> QED  BY <2>1, <2>2, <2>3, <2>4, <2>5 DEF TypeOK, Jobs
<1>2. JobInv
  BY DEF Init, JobInv, Fits
<1>3. CopyInv /\ FetchInv
  BY DEF Init, CopyInv, Backed, FetchInv
<1> QED
  BY <1>1, <1>2, <1>3 DEF IInv

(* IInv is an inductive invariant.                                         *)
THEOREM Inductive == Spec => []IInv
<1>1. IInv /\ [Next]_vars => IInv'
  <2> SUFFICES ASSUME IInv, [Next]_vars PROVE IInv'
    OBVIOUS
  <2>1. PcTyped /\ CopyInv' /\ FetchInv'
    BY CopyStep
  <2>2. TypeOK'
    BY <2>1, CopiesKeepTypes, ServerKeepsTypes DEF IInv, TypeOK, PcTyped, CopiesTyped, ServerTyped, Jobs
  <2> QED  BY <2>1, <2>2 DEF IInv, PcTyped
<1> QED
  BY <1>1, InitiallyInv, PTL DEF Spec
-----------------------------------------------------------------------------
(* Every variable keeps its type (license.ts, the licence's three copies). *)
THEOREM TypeCorrect == Spec => []TypeOK
<1>1. IInv => TypeOK
  BY DEF IInv
<1> QED
  BY <1>1, Inductive, PTL

(* However check-ins, imports, removals, refused rows, failures and        *)
(* crashes follow one another, for any number of callers: unless two       *)
(* changes overlapped, or one was left with a part of it in place and no   *)
(* key written since, what the row allows the key of a native write allows *)
(* too (license.ts:300-327).                                               *)
THEOREM WritesAgreeAlways == Spec => []WritesAgree
<1>1. IInv => WritesAgree
  <2> SUFFICES ASSUME IInv, Quiet, ~crossed, ~split, Allowed(row) PROVE Native > over
    BY DEF WritesAgree
  <2>1. row.key > over /\ row.status = "active"
    BY DEF Allowed
  <2>2. row.key \in Nat /\ secret \in Nat /\ memory \in Nat /\ over \in Nat /\ row # NoRow
    BY <2>1, Numbers, Records DEF IInv, TypeOK
  <2>3. secret >= row.key /\ (memory # Unset => memory >= row.key)
    BY <2>2 DEF IInv, CopyInv, Backed, Quiet
  <2>4. Native >= row.key /\ Native \in Nat
    BY <2>2, <2>3 DEF Native
  <2> QED  BY <2>1, <2>2, <2>4
<1> QED
  BY <1>1, Inductive, PTL
=============================================================================
