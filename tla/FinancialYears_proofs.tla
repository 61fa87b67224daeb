------------------------ MODULE FinancialYears_proofs ------------------------
(***************************************************************************)
(* Theorems about FinancialYears, for any set of calls, any number of      *)
(* years and both calendars: the types, the operational pointer, that a    *)
(* closed year keeps what it holds, and, with one call at a time, that     *)
(* every year opens with what the year before it closes with.              *)
(*                                                                         *)
(* ActiveIsOpen is not inductive alone: CommitStart activates the year     *)
(* after the one its call is about, which has a row to open only if it is  *)
(* in the calendar.  StartsByItsDate adds that such a call has checked it. *)
(* The books of the years need more (SerialInv): that the years on record  *)
(* are consecutive, and that what the one call has read is still so.       *)
(***************************************************************************)
EXTENDS FinancialYears, TLAPS

(* A call that starts a year starts one that has begun when it was called. *)
StartsByItsDate ==
  \A c \in Calls : step[c] \in {"next", "count", "balances", "start"} => Target(c) <= date[c]

IInv == TypeOK /\ StartsByItsDate /\ ActiveIsOpen

(* fiscalStartYear: a year begins at or before each of its days, and those *)
(* of the default calendar never before the first.                         *)
LEMMA BeginsBefore ==
  ASSUME NEW t \in Nat, NEW m \in 0 .. 1
  PROVE  /\ Begins(t, m) \in Int
         /\ Begins(t, m) <= t
         /\ Begins(t, April) \in Nat
<1>1. (t - m) \in Int /\ (t - m) % 2 \in 0 .. 1
  OBVIOUS
<1>2. (t - April) % 2 <= t
  <2>1. CASE t = 0
    BY <2>1 DEF April
  <2>2. CASE t # 0
    BY <2>2 DEF April
  <2> QED
    BY <2>1, <2>2
<1> QED
  BY <1>1, <1>2 DEF Begins, April

(* The types of the tables, and of what a call keeps, apart.               *)
CallsTyped ==
  /\ kind \in [Calls -> Kinds] /\ step \in [Calls -> Steps]
  /\ date \in [Calls -> Years] /\ about \in [Calls -> Years]
  /\ found \in [Calls -> BOOLEAN] /\ amount \in [Calls -> Nat]

TablesTyped ==
  /\ status \in [Years -> {"absent", "OPEN", "CLOSED"}] /\ active \in SUBSET Years
  /\ summary \in [Years -> Nat] /\ entries \in [Years -> Nat]
  /\ opening \in [Years -> Nat] /\ carried \in [Years -> Nat]
  /\ balance \in Nat

LEMMA TypeParts == TypeOK <=> now \in Years /\ CallsTyped /\ TablesTyped
BY DEF TypeOK, CallsTyped, TablesTyped

LEMMA YearsBounds == /\ Years \subseteq Nat
                     /\ 0 \in Years
                     /\ \A y \in Years, x \in Nat : x <= y => x \in Years
BY CalendarAssumption DEF Years

-----------------------------------------------------------------------------
(* The initial states.                                                     *)

LEMMA InitInvariant == Init => IInv
<1> SUFFICES ASSUME Init PROVE IInv
  OBVIOUS
<1>1. 1 \in Years
  BY CalendarAssumption DEF Years
<1>2. StartMonth \in 0 .. 1 /\ Begins(1, StartMonth) \in Years
  <2>1. StartMonth \in 0 .. 1
    BY CalendarAssumption
  <2>2. CASE StartMonth = 0
    BY <2>2, YearsBounds DEF Begins
  <2>3. CASE StartMonth = 1
    BY <2>3, <1>1 DEF Begins
  <2> QED
    BY <2>1, <2>2, <2>3
<1>3. CallsTyped
  BY YearsBounds DEF Init, CallsTyped, Kinds, Steps
<1>4. TablesTyped /\ ActiveIsOpen
  <2>1. summary \in [Years -> Nat] /\ entries \in [Years -> Nat] /\ opening \in [Years -> Nat] /\ carried \in [Years -> Nat] /\ balance \in Nat
    BY DEF Init
  <2>2. CASE /\ status = [y \in Years |-> IF y = Begins(now, StartMonth) THEN "OPEN" ELSE "absent"]
             /\ active = {Begins(now, StartMonth)}
    <3>1. now = 1
      BY DEF Init
    <3> QED
      BY <2>1, <2>2, <3>1, <1>2 DEF TablesTyped, ActiveIsOpen
  <2>3. CASE status = [y \in Years |-> "absent"] /\ active = {}
    BY <2>1, <2>3 DEF TablesTyped, ActiveIsOpen
  <2> QED
    BY <2>2, <2>3 DEF Init
<1>5. StartsByItsDate
  BY DEF Init, StartsByItsDate
<1> QED
  BY <1>1, <1>3, <1>4, <1>5, TypeParts DEF Init, IInv

-----------------------------------------------------------------------------
(* What the steps of a call do to the variables of the calls.              *)

Starting == {"next", "count", "balances", "start"}

LEMMA EndKeeps ==
  ASSUME NEW c \in Calls, CallsTyped, StartsByItsDate, End(c)
  PROVE  CallsTyped' /\ StartsByItsDate'
<1>1. CallsTyped'
  BY YearsBounds DEF End, CallsTyped, Kinds, Steps
<1>2. StartsByItsDate'
  BY DEF End, CallsTyped, StartsByItsDate, Target
<1> QED
  BY <1>1, <1>2

LEMMA ProceedKeeps ==
  ASSUME NEW c \in Calls, NEW s \in Steps, CallsTyped, StartsByItsDate, Proceed(c, s),
         s \in Starting => Target(c) <= date[c],
         found' \in [Calls -> BOOLEAN], amount' \in [Calls -> Nat]
  PROVE  CallsTyped' /\ StartsByItsDate'
<1>1. CallsTyped'
  BY DEF Proceed, CallsTyped
<1>2. StartsByItsDate'
  BY DEF Proceed, CallsTyped, StartsByItsDate, Target, Starting
<1> QED
  BY <1>1, <1>2

LEMMA SubmitKeeps ==
  ASSUME NEW c \in Calls, now \in Years, CallsTyped, StartsByItsDate, Submit(c)
  PROVE  CallsTyped' /\ StartsByItsDate'
<1>1. PICK o \in Operations, y \in Years :
        /\ kind' = [kind EXCEPT ![c] = o]
        /\ step' = [step EXCEPT ![c] = First[o]]
        /\ about' = [about EXCEPT ![c] = y]
  BY DEF Submit
<1>2. o \in Kinds
  BY OperationAssumption
<1>3. First[o] \in Steps /\ First[o] \notin Starting
  BY <1>2 DEF Kinds, First, Steps, Starting
<1>4. CallsTyped'
  BY <1>1, <1>2, <1>3 DEF Submit, CallsTyped
<1>5. StartsByItsDate'
  BY <1>1, <1>3 DEF Submit, CallsTyped, StartsByItsDate, Target, Starting
<1> QED
  BY <1>4, <1>5

LEMMA ReconciledKeeps ==
  ASSUME NEW c \in Calls, CallsTyped, StartsByItsDate, Reconciled(c)
  PROVE  CallsTyped' /\ StartsByItsDate' /\ now' = now
<1>1. CASE kind[c] = "post"
  <2>1. Proceed(c, "year") /\ UNCHANGED <<found, amount>>
    BY <1>1 DEF Reconciled
  <2>2. "year" \in Steps /\ "year" \notin Starting
    BY DEF Steps, Starting
  <2>3. found' \in [Calls -> BOOLEAN] /\ amount' \in [Calls -> Nat]
    BY <2>1 DEF CallsTyped
  <2> QED
    BY <2>1, <2>2, <2>3, ProceedKeeps DEF Proceed
<1>2. CASE kind[c] # "post"
  BY <1>2, EndKeeps DEF Reconciled, End
<1> QED
  BY <1>1, <1>2

(* The calls keep their types and their checks in every step.              *)
LEMMA CallsKept ==
  ASSUME IInv, [Next]_vars
  PROVE  now' \in Years /\ CallsTyped' /\ StartsByItsDate'
<1> USE DEF IInv
<1>1. now \in Years /\ CallsTyped /\ TablesTyped
  BY TypeParts
<1>2. CASE UNCHANGED vars
  BY <1>1, <1>2 DEF vars, callVars, CallsTyped, StartsByItsDate, Target
<1>3. CASE Tick
  BY <1>1, <1>3, CalendarAssumption DEF Tick, callVars, CallsTyped, StartsByItsDate, Target, Years
<1>4. ASSUME NEW c \in Calls,
             Submit(c) \/ Refuse(c) \/ Reconcile(c) \/ Post(c) \/ StartNext(c) \/ CloseYear(c) \/ ReopenYear(c)
      PROVE  now' \in Years /\ CallsTyped' /\ StartsByItsDate'
  <2>1. /\ found \in [Calls -> BOOLEAN] /\ amount \in [Calls -> Nat]
        /\ date[c] \in Years /\ about[c] \in Years
    BY <1>1 DEF CallsTyped
  <2>2. CASE Submit(c)
    BY <1>1, <2>2, SubmitKeeps DEF Submit
  <2>3. CASE Refuse(c) \/ CommitPost(c) \/ CommitStart(c) \/ CommitClose(c) \/ CommitReopen(c)
    <3>1. End(c)
      BY <2>3 DEF Refuse, CommitPost, CommitStart, CommitClose, CommitReopen
    <3> QED
      BY <1>1, <3>1, EndKeeps DEF End
  <2>4. CASE ReadRows(c) \/ CommitReconcile(c)
    <3>1. Reconciled(c)
      BY <2>4 DEF ReadRows, CommitReconcile
    <3> QED
      BY <1>1, <3>1, ReconciledKeeps
  <2>5. CASE ReadRowsAstray(c)
    <3>1. (status[Expected(c)] = "OPEN") \in BOOLEAN
      OBVIOUS
    <3>2. found' \in [Calls -> BOOLEAN] /\ amount' \in [Calls -> Nat]
      BY <2>1, <2>5, <3>1 DEF ReadRowsAstray
    <3>3. Proceed(c, "reconcile") /\ "reconcile" \in Steps /\ "reconcile" \notin Starting
      BY <2>5 DEF ReadRowsAstray, Steps, Starting
    <3> QED
      BY <1>1, <3>2, <3>3, ProceedKeeps DEF Proceed
  <2>6. CASE ReadNoRows(c) \/ EnsureCurrent(c) \/ ReadYear(c) \/ ReadOpen(c) \/ ReadClosed(c)
    <3>1. PICK s \in {"ensure", "rows", "post", "summary", "reopen"} : Proceed(c, s)
      BY <2>6 DEF ReadNoRows, EnsureCurrent, ReadYear, ReadOpen, ReadClosed
    <3>2. s \in Steps /\ s \notin Starting
      BY DEF Steps, Starting
    <3>3. found' \in [Calls -> BOOLEAN] /\ amount' \in [Calls -> Nat]
      BY <2>1, <2>6 DEF ReadNoRows, EnsureCurrent, ReadYear, ReadOpen, ReadClosed
    <3> QED
      BY <1>1, <3>1, <3>2, <3>3, ProceedKeeps DEF Proceed
  <2>7. CASE ReadSource(c)
    <3>1. Target(c) <= date[c]
      <4>1. Target(c) = Begins(date[c], StartMonth)
        BY <2>7 DEF ReadSource, Startable, Target
      <4> QED
        BY <4>1, <2>1, YearsBounds, CalendarAssumption, BeginsBefore
    <3>2. Proceed(c, "next") /\ "next" \in Steps
      BY <2>7 DEF ReadSource, Steps
    <3>3. found' \in [Calls -> BOOLEAN] /\ amount' \in [Calls -> Nat]
      BY <2>1, <2>7 DEF ReadSource
    <3> QED
      BY <1>1, <3>1, <3>2, <3>3, ProceedKeeps DEF Proceed
  <2>8. CASE ReadNext(c) \/ ReadCount(c) \/ ReadBalances(c)
    <3>1. PICK s \in {"count", "balances", "start"} : Proceed(c, s)
      BY <2>8 DEF ReadNext, ReadCount, ReadBalances
    <3>2. step[c] \in Starting
      BY <2>8 DEF ReadNext, ReadCount, ReadBalances, Starting
    <3>3. Target(c) <= date[c] /\ s \in Steps
      BY <3>2 DEF StartsByItsDate, Starting, Steps
    <3>4. Exists(Target(c)) \in BOOLEAN
      BY DEF Exists
    <3>5. found' \in [Calls -> BOOLEAN]
      <4>1. found' = found \/ found' = [found EXCEPT ![c] = Exists(Target(c))]
        BY <2>8 DEF ReadNext, ReadCount, ReadBalances
      <4> QED
        BY <4>1, <3>4, <2>1
    <3>6. amount' \in [Calls -> Nat]
      <4>1. Closing(about[c]) \in Nat
        BY <1>1, <2>1 DEF Closing, TablesTyped
      <4> QED
        BY <4>1, <2>1, <2>8 DEF ReadNext, ReadCount, ReadBalances
    <3> QED
      BY <1>1, <3>1, <3>3, <3>5, <3>6, ProceedKeeps DEF Proceed
  <2>9. CASE ReadSummary(c)
    <3>1. Summary(about[c]) \in Nat
      BY <1>1, <2>1 DEF Summary, TablesTyped
    <3>2. found' \in [Calls -> BOOLEAN] /\ amount' \in [Calls -> Nat]
      BY <2>1, <2>9, <3>1 DEF ReadSummary
    <3>3. Proceed(c, "close") /\ "close" \in Steps /\ "close" \notin Starting
      BY <2>9 DEF ReadSummary, Steps, Starting
    <3> QED
      BY <1>1, <3>2, <3>3, ProceedKeeps DEF Proceed
  <2> QED
    BY <1>4, <2>2, <2>3, <2>4, <2>5, <2>6, <2>7, <2>8, <2>9
       DEF Reconcile, Post, StartNext, CloseYear, ReopenYear
<1> QED
  BY <1>2, <1>3, <1>4 DEF Next

-----------------------------------------------------------------------------
(* What the steps do to the tables.                                        *)

Writes(c) == EnsureCurrent(c) \/ CommitReconcile(c) \/ CommitPost(c)
               \/ CommitStart(c) \/ CommitClose(c) \/ CommitReopen(c)

(* Only the commits write.                                                 *)
LEMMA ReadsOnly ==
  ASSUME [Next]_vars
  PROVE  UNCHANGED <<yearVars, bookVars>> \/ \E c \in Calls : Writes(c)
<1>1. CASE UNCHANGED vars \/ Tick
  BY <1>1 DEF vars, Tick
<1>2. ASSUME NEW c \in Calls, Submit(c) \/ Refuse(c)
      PROVE  UNCHANGED <<yearVars, bookVars>>
  BY <1>2 DEF Submit, Refuse
<1>3. ASSUME NEW c \in Calls, Reconcile(c) \/ Post(c)
      PROVE  UNCHANGED <<yearVars, bookVars>> \/ Writes(c)
  BY <1>3 DEF Reconcile, Post, ReadRows, ReadRowsAstray, ReadNoRows, ReadYear, Writes
<1>4. ASSUME NEW c \in Calls, StartNext(c)
      PROVE  UNCHANGED <<yearVars, bookVars>> \/ Writes(c)
  BY <1>4 DEF StartNext, ReadSource, ReadNext, ReadCount, ReadBalances, Writes
<1>5. ASSUME NEW c \in Calls, CloseYear(c) \/ ReopenYear(c)
      PROVE  UNCHANGED <<yearVars, bookVars>> \/ Writes(c)
  BY <1>5 DEF CloseYear, ReopenYear, ReadOpen, ReadSummary, ReadClosed, Writes
<1> QED
  BY <1>1, <1>2, <1>3, <1>4, <1>5 DEF Next

(* The step of ClosedFrozen.                                               *)
Frozen ==
  \A y \in Years : status[y] = "CLOSED" /\ status'[y] = "CLOSED" =>
    /\ entries'[y] = entries[y] /\ summary'[y] = summary[y]
    /\ opening'[y] = opening[y] /\ carried'[y] = carried[y]

LEMMA TablesKept ==
  ASSUME IInv, [Next]_vars
  PROVE  TablesTyped' /\ ActiveIsOpen' /\ Frozen
<1> USE DEF IInv
<1>1. TablesTyped /\ CallsTyped
  BY TypeParts
<1>2. CASE UNCHANGED <<yearVars, bookVars>>
  BY <1>1, <1>2 DEF yearVars, bookVars, TablesTyped, ActiveIsOpen, Frozen
<1>3. ASSUME NEW c \in Calls, Writes(c)
      PROVE  TablesTyped' /\ ActiveIsOpen' /\ Frozen
  <2>1. about[c] \in Years /\ amount[c] \in Nat
    BY <1>1 DEF CallsTyped
  <2>2. Expected(c) \in Years
    <3>1. date[c] \in Years
      BY <1>1 DEF CallsTyped
    <3>2. /\ Begins(date[c], April) <= date[c]
          /\ Begins(date[c], April) \in Nat
      <4>1. April \in 0 .. 1
        BY DEF April
      <4> QED
        BY <3>1, <4>1, YearsBounds, BeginsBefore
    <3> QED
      BY <3>1, <3>2, CalendarAssumption DEF Expected, Years
  <2>3. CASE EnsureCurrent(c)
    <3>1. UNCHANGED <<summary, entries, opening, carried, balance>>
      BY <2>3 DEF EnsureCurrent, yearVars, bookVars
    <3>2. CASE UNCHANGED yearVars
      BY <1>1, <3>1, <3>2 DEF yearVars, TablesTyped, ActiveIsOpen, Frozen
    <3>3. CASE /\ ~ Exists(Expected(c))
               /\ status' = [status EXCEPT ![Expected(c)] = "OPEN"]
               /\ active' = IF active = {} THEN {Expected(c)} ELSE active
      <4>1. status[Expected(c)] = "absent"
        BY <2>2, <3>3 DEF Exists
      <4>2. TablesTyped'
        BY <1>1, <2>2, <3>1, <3>3 DEF TablesTyped
      <4>3. ActiveIsOpen'
        BY <1>1, <2>2, <3>3, <4>1 DEF TablesTyped, ActiveIsOpen
      <4> QED
        BY <3>1, <4>2, <4>3 DEF Frozen
    <3> QED
      BY <2>3, <3>2, <3>3 DEF EnsureCurrent
  <2>4. CASE CommitReconcile(c)
    <3>1. UNCHANGED <<status, summary, entries, opening, carried, balance>>
      BY <2>4 DEF CommitReconcile, bookVars
    <3>2. active' \in SUBSET Years /\ ActiveIsOpen'
      BY <2>2, <2>4, <3>1 DEF CommitReconcile, ActiveIsOpen
    <3> QED
      BY <1>1, <3>1, <3>2 DEF TablesTyped, Frozen
  <2>5. CASE CommitPost(c)
    <3>1. UNCHANGED <<status, active, summary, opening, carried>>
      BY <2>5 DEF CommitPost, yearVars
    <3>2. entries' = [entries EXCEPT ![about[c]] = @ + 1] /\ balance' = balance + 1 /\ status[about[c]] = "OPEN"
      BY <2>5 DEF CommitPost
    <3>3. TablesTyped' /\ ActiveIsOpen'
      BY <1>1, <2>1, <3>1, <3>2 DEF TablesTyped, ActiveIsOpen
    <3>4. Frozen
      BY <1>1, <2>1, <3>1, <3>2 DEF TablesTyped, Frozen
    <3> QED
      BY <3>3, <3>4
  <2>6. CASE CommitStart(c)
    <3>1. Target(c) \in Years
      <4>1. Target(c) <= date[c]
        BY <2>6 DEF CommitStart, StartsByItsDate
      <4>2. Target(c) \in Nat /\ date[c] \in Years
        <5>1. about[c] \in Nat
          BY <2>1, YearsBounds
        <5> QED
          BY <1>1, <5>1 DEF Target, CallsTyped
      <4> QED
        BY <4>1, <4>2, YearsBounds
    <3>2. /\ status' = [status EXCEPT ![Target(c)] = "OPEN"] /\ active' = {Target(c)}
          /\ summary' = [summary EXCEPT ![Target(c)] = 0]
          /\ opening' = [opening EXCEPT ![Target(c)] = balance]
          /\ carried' = [carried EXCEPT ![Target(c)] = IF amount[c] = 0 THEN @ ELSE amount[c]]
          /\ entries' = entries /\ balance' = balance
      BY <2>6 DEF CommitStart
    <3>3. TablesTyped'
      BY <1>1, <2>1, <3>1, <3>2 DEF TablesTyped
    <3>4. ActiveIsOpen'
      BY <1>1, <3>1, <3>2 DEF TablesTyped, ActiveIsOpen
    <3>5. Frozen
      BY <1>1, <3>1, <3>2 DEF TablesTyped, Frozen
    <3> QED
      BY <3>3, <3>4, <3>5
  <2>7. CASE CommitClose(c)
    <3>1. UNCHANGED <<entries, opening, carried, balance>>
      BY <2>7 DEF CommitClose, bookVars
    <3>2. CASE UNCHANGED yearVars
      BY <1>1, <3>1, <3>2 DEF yearVars, TablesTyped, ActiveIsOpen, Frozen
    <3>3. CASE /\ status[about[c]] = "OPEN"
               /\ status' = [status EXCEPT ![about[c]] = "CLOSED"]
               /\ active' = active \ {about[c]}
               /\ summary' = [summary EXCEPT ![about[c]] = amount[c]]
      <4>1. TablesTyped'
        BY <1>1, <2>1, <3>1, <3>3 DEF TablesTyped
      <4>2. ActiveIsOpen'
        BY <1>1, <2>1, <3>3 DEF TablesTyped, ActiveIsOpen
      <4>3. Frozen
        BY <1>1, <2>1, <3>1, <3>3 DEF TablesTyped, Frozen
      <4> QED
        BY <4>1, <4>2, <4>3
    <3> QED
      BY <2>7, <3>2, <3>3 DEF CommitClose
  <2>8. CASE CommitReopen(c)
    <3>1. UNCHANGED <<active, summary, entries, opening, carried, balance>>
      BY <2>8 DEF CommitReopen, bookVars
    <3>2. \/ status' = status
          \/ status[about[c]] = "CLOSED" /\ status' = [status EXCEPT ![about[c]] = "OPEN"]
      BY <2>8 DEF CommitReopen
    <3>3. TablesTyped' /\ ActiveIsOpen'
      BY <1>1, <2>1, <3>1, <3>2 DEF TablesTyped, ActiveIsOpen
    <3> QED
      BY <3>1, <3>3 DEF Frozen
  <2> QED
    BY <1>3, <2>3, <2>4, <2>5, <2>6, <2>7, <2>8 DEF Writes
<1> QED
  BY <1>2, <1>3, ReadsOnly

-----------------------------------------------------------------------------
(* IInv holds in every state the program reaches: the steps of a handler   *)
(* and the change of the date keep it.                                     *)
THEOREM Inductive == Spec => []IInv
<1>1. Init => IInv
  BY InitInvariant
<1>2. IInv /\ [Next]_vars => IInv'
  <2> SUFFICES ASSUME IInv, [Next]_vars PROVE IInv'
    OBVIOUS
  <2>1. TypeOK'
    BY CallsKept, TablesKept DEF TypeOK, CallsTyped, TablesTyped
  <2> QED
    BY <2>1, CallsKept, TablesKept DEF IInv
<1> QED
  BY <1>1, <1>2, PTL DEF Spec

(* The variables keep their types: no handler starts a year beyond those   *)
(* that have begun (createNextFinancialYear).                              *)
THEOREM TypeCorrect == Spec => []TypeOK
<1>1. IInv => TypeOK
  BY DEF IInv
<1> QED
  BY <1>1, Inductive, PTL

(* At most one year is the operational one, and it is open                 *)
(* (reconcileOperationalFinancialYear, createNextFinancialYear,            *)
(* closeFinancialYear).                                                    *)
THEOREM ActiveIsOpenAlways == Spec => []ActiveIsOpen
<1>1. IInv => ActiveIsOpen
  BY DEF IInv
<1> QED
  BY <1>1, Inductive, PTL

(* A closed year keeps its documents, its balances and its summary for as  *)
(* long as it stays closed (the closed-year triggers, closeFinancialYear,  *)
(* createNextFinancialYear).                                               *)
THEOREM ClosedFrozenAlways == Spec => ClosedFrozen
<1>1. IInv /\ [Next]_vars => [Frozen]_vars
  BY TablesKept
<1> QED
  BY <1>1, Inductive, PTL DEF Spec, ClosedFrozen, Frozen

-----------------------------------------------------------------------------
(* One call at a time: what a call has read is still so when it commits,   *)
(* and the books of a year continue those of the year before it.           *)

OneCall == \A c, d \in Calls : c = d

(* The years on record follow one another.                                 *)
YearsInARow ==
  \A y, z \in Years : Exists(y) /\ Exists(z) /\ y < z => y + 2 <= z /\ Exists(y + 2)

(* None is on record, or written to, before it begins.                     *)
NoneAhead ==
  \A y \in Years :
    /\ Exists(y) => y <= now
    /\ ~ Exists(y) => entries[y] = 0 /\ opening[y] = 0 /\ carried[y] = 0

(* What the customer owes is the opening balance of the last year and its  *)
(* documents.                                                              *)
BalanceOfLast ==
  /\ (\A y \in Years : ~ Exists(y)) => balance = 0
  /\ \A y \in Years : Exists(y) /\ ~ Exists(y + 2) => balance = opening[y] + entries[y]

OpeningsContinue ==
  \A y \in Years : Exists(y) /\ Exists(y + 2) => opening[y + 2] = opening[y] + entries[y]

BooksInv == /\ YearsInARow /\ NoneAhead /\ BalanceOfLast
            /\ OpeningsContinue /\ (Accounting => JournalContinues) /\ SummaryTrue

(* What c has read, checked or computed is so.                             *)
ReadCurrent(c) ==
  /\ date[c] <= now
  /\ step[c] # "idle" => \A y \in Years : Exists(y) => y <= date[c]
  /\ step[c] \in {"rows", "ensure", "reconcile", "year", "post"} => about[c] = Begins(date[c], StartMonth)
  /\ step[c] = "ensure" => \A y \in Years : ~ Exists(y)
  /\ step[c] \in Starting => Exists(about[c]) /\ Target(c) = Begins(date[c], StartMonth)
  /\ step[c] \in {"balances", "start"} => Transactions(Target(c)) = 0
  /\ step[c] = "start" => amount[c] = IF Accounting THEN Closing(about[c]) ELSE 0
  /\ step[c] \in {"summary", "close"} => status[about[c]] = "OPEN"
  /\ step[c] = "close" => amount[c] = opening[about[c]] + entries[about[c]]

SerialInv == IInv /\ BooksInv /\ \A c \in Calls : ReadCurrent(c)

LEMMA LastOfDay ==
  ASSUME NEW t \in Years, NEW y \in Years, y = Begins(t, StartMonth),
         \A x \in Years : Exists(x) => x <= t
  PROVE  ~ Exists(y + 2)
<1>1. t \in Int /\ StartMonth \in 0 .. 1
  BY CalendarAssumption, YearsBounds
<1>2. (t - StartMonth) % 2 \in 0 .. 1
  BY <1>1
<1>3. t < y + 2 /\ y + 2 \in Int
  BY <1>1, <1>2 DEF Begins
<1> QED
  BY <1>1, <1>3 DEF Exists, Years

LEMMA SerialInitially == Init => BooksInv /\ \A c \in Calls : ReadCurrent(c)
<1> SUFFICES ASSUME Init PROVE BooksInv /\ \A c \in Calls : ReadCurrent(c)
  OBVIOUS
<1>1. /\ now = 1 /\ entries = [y \in Years |-> 0] /\ opening = [y \in Years |-> 0]
      /\ carried = [y \in Years |-> 0] /\ balance = 0
      /\ step = [c \in Calls |-> "idle"] /\ date = [c \in Calls |-> 0]
  BY DEF Init
<1>2. PICK b \in Int : b <= 1 /\ \A y \in Years : Exists(y) => y = b /\ status[y] = "OPEN"
  <2>1. Begins(1, StartMonth) \in Int /\ Begins(1, StartMonth) <= 1
    BY CalendarAssumption, BeginsBefore
  <2>2. \A y \in Years : Exists(y) => y = Begins(now, StartMonth) /\ status[y] = "OPEN"
    BY DEF Init, Exists
  <2> QED
    BY <1>1, <2>1, <2>2
<1>3. YearsInARow
  BY <1>2, YearsBounds DEF YearsInARow
<1>4. NoneAhead
  BY <1>1, <1>2 DEF NoneAhead
<1>5. BalanceOfLast
  BY <1>1 DEF BalanceOfLast
<1>6. OpeningsContinue /\ JournalContinues
  <2>1. \A y \in Years : ~ (Exists(y) /\ Exists(y + 2))
    <3> SUFFICES ASSUME NEW y \in Years, Exists(y), Exists(y + 2) PROVE FALSE
      OBVIOUS
    <3>1. y = b /\ y + 2 = b
      BY <1>2 DEF Exists
    <3> QED
      BY <3>1, <1>2
  <2> QED
    BY <2>1 DEF OpeningsContinue, JournalContinues
<1>7. SummaryTrue
  BY <1>2 DEF SummaryTrue, Exists
<1>8. \A c \in Calls : ReadCurrent(c)
  <2>1. \A c \in Calls : step[c] = "idle" /\ date[c] = 0
    BY <1>1
  <2>2. 0 <= now
    BY <1>1
  <2> QED
    BY <2>1, <2>2 DEF ReadCurrent, Starting
<1> QED
  BY <1>3, <1>4, <1>5, <1>6, <1>7, <1>8 DEF BooksInv

(* The books as they are, at a later date.                                 *)
LEMMA BooksRest ==
  ASSUME IInv, BooksInv, now' \in Years, now <= now', UNCHANGED <<status, summary, bookVars>>
  PROVE  BooksInv'
<1> USE DEF bookVars
<1>1. \A y : Exists(y)' <=> Exists(y)
  BY DEF Exists
<1>2. NoneAhead'
  BY <1>1, YearsBounds DEF IInv, TypeOK, BooksInv, NoneAhead
<1>3. YearsInARow' /\ BalanceOfLast'
  BY <1>1 DEF BooksInv, YearsInARow, BalanceOfLast
<1>4. OpeningsContinue' /\ (Accounting => JournalContinues')
  BY <1>1 DEF BooksInv, OpeningsContinue, JournalContinues
<1>5. SummaryTrue'
  BY DEF BooksInv, SummaryTrue
<1> QED
  BY <1>2, <1>3, <1>4, <1>5 DEF BooksInv

(* The document of the last year is owed.                                  *)
LEMMA PostKeepsBooks ==
  ASSUME IInv, BooksInv, NEW c \in Calls, ReadCurrent(c), CommitPost(c)
  PROVE  BooksInv'
<1> DEFINE y == about[c]
<1>0. TablesTyped /\ y \in Years /\ date[c] \in Years
  BY TypeParts DEF IInv, CallsTyped
<1>1. /\ step[c] = "post" /\ status[y] = "OPEN" /\ UNCHANGED <<now, status, active, summary, opening, carried>>
      /\ entries' = [entries EXCEPT ![y] = @ + 1] /\ balance' = balance + 1
  BY DEF CommitPost, End, yearVars
<1>2. Exists(y) /\ ~ Exists(y + 2)
  <2>1. y = Begins(date[c], StartMonth) /\ \A x \in Years : Exists(x) => x <= date[c]
    BY <1>1 DEF ReadCurrent
  <2>2. ~ Exists(y + 2)
    BY <2>1, <1>0, LastOfDay
  <2> QED
    BY <2>2, <1>0, <1>1 DEF Exists
<1> HIDE DEF y
<1>3. \A z : Exists(z)' <=> Exists(z)
  BY <1>1 DEF Exists
<1>4. entries[y] \in Nat /\ entries'[y] = entries[y] + 1 /\ \A z \in Years : z # y => entries'[z] = entries[z]
  BY <1>0, <1>1 DEF TablesTyped
<1>5. \A z \in Years : Exists(z) /\ (Exists(z + 2) <=> FALSE) => z = y
  <2> SUFFICES ASSUME NEW z \in Years, Exists(z), ~ Exists(z + 2), z # y PROVE FALSE
    OBVIOUS
  <2>1. z < y \/ y < z
    BY <1>0, YearsBounds
  <2> QED
    BY <2>1, <1>0, <1>2 DEF BooksInv, YearsInARow
<1>6. YearsInARow'
  BY <1>3 DEF BooksInv, YearsInARow
<1>7. NoneAhead'
  <2> SUFFICES ASSUME NEW z \in Years
               PROVE  /\ Exists(z) => z <= now
                      /\ ~ Exists(z) => entries'[z] = 0 /\ opening[z] = 0 /\ carried[z] = 0
    BY <1>1, <1>3 DEF NoneAhead
  <2> QED
    BY <1>2, <1>4 DEF BooksInv, NoneAhead
<1>8. BalanceOfLast'
  <2>1. balance = opening[y] + entries[y]
    BY <1>0, <1>2 DEF BooksInv, BalanceOfLast
  <2>2. opening[y] \in Nat
    BY <1>0 DEF TablesTyped
  <2>3. balance' = opening[y] + entries'[y]
    BY <1>1, <1>4, <2>1, <2>2
  <2>4. \A z \in Years : Exists(z) /\ ~ Exists(z + 2) => balance' = opening'[z] + entries'[z]
    BY <1>1, <1>5, <2>3
  <2> QED
    BY <1>0, <1>2, <1>3, <2>4 DEF BalanceOfLast
<1>9. OpeningsContinue' /\ (Accounting => JournalContinues')
  <2>1. \A z \in Years : Exists(z) /\ Exists(z + 2) => entries'[z] = entries[z]
    BY <1>2, <1>4
  <2> QED
    BY <2>1, <1>1, <1>3 DEF BooksInv, OpeningsContinue, JournalContinues
<1>10. SummaryTrue'
  BY <1>1, <1>4 DEF BooksInv, SummaryTrue
<1> QED
  BY <1>6, <1>7, <1>8, <1>9, <1>10 DEF BooksInv

(* A year is started from the last one, or rebuilt as the last one while   *)
(* it is empty.                                                            *)
LEMMA StartKeepsBooks ==
  ASSUME IInv, BooksInv, NEW c \in Calls, ReadCurrent(c), CommitStart(c)
  PROVE  BooksInv'
<1> DEFINE y == about[c]
           t == Target(c)
<1>0. TablesTyped /\ y \in Years /\ date[c] \in Years /\ now \in Years /\ amount[c] \in Nat
  BY TypeParts DEF IInv, CallsTyped
<1>1. /\ step[c] = "start" /\ UNCHANGED <<now, entries, balance>>
      /\ status' = [status EXCEPT ![t] = "OPEN"]
      /\ summary' = [summary EXCEPT ![t] = 0]
      /\ carried' = [carried EXCEPT ![t] = IF amount[c] = 0 THEN @ ELSE amount[c]]
      /\ opening' = [opening EXCEPT ![t] = balance]
  BY DEF CommitStart, End
<1>2. t = y + 2 /\ t \in Years /\ t <= now
  <2>1. t <= date[c] /\ date[c] <= now
    BY <1>1 DEF IInv, StartsByItsDate, ReadCurrent
  <2>2. t = y + 2 /\ t \in Nat /\ date[c] \in Nat /\ now \in Nat
    <3>1. about[c] \in Nat /\ date[c] \in Nat /\ now \in Nat
      BY <1>0, YearsBounds
    <3> QED
      BY <3>1 DEF Target
  <2> QED
    BY <2>1, <2>2, <1>0, YearsBounds
<1>3. Exists(y) /\ ~ Exists(t + 2) /\ Transactions(t) = 0
  <2>1. t = Begins(date[c], StartMonth) /\ \A x \in Years : Exists(x) => x <= date[c]
    BY <1>1 DEF ReadCurrent, Starting
  <2>2. ~ Exists(t + 2)
    BY <2>1, <1>0, <1>2, LastOfDay
  <2> QED
    BY <2>2, <1>1 DEF ReadCurrent, Starting
<1>4. amount[c] = IF Accounting THEN carried[y] + entries[y] ELSE 0
  BY <1>1 DEF ReadCurrent, Closing
<1> HIDE DEF t, y
<1>5. entries[t] = 0 /\ carried[t] = 0
  <2>1. entries[t] \in Nat /\ carried[t] \in Nat
    BY <1>0, <1>2 DEF TablesTyped
  <2> QED
    BY <2>1, <1>3 DEF Transactions
<1>6. balance = opening[y] + entries[y]
  <2>1. CASE Exists(t)
    <3>1. balance = opening[t] + entries[t]
      BY <1>2, <1>3, <2>1 DEF BooksInv, BalanceOfLast
    <3>2. opening[t] = opening[y] + entries[y]
      BY <1>0, <1>2, <1>3, <2>1 DEF BooksInv, OpeningsContinue
    <3>3. opening[y] \in Nat /\ entries[y] \in Nat
      BY <1>0 DEF TablesTyped
    <3> QED
      BY <3>1, <3>2, <3>3, <1>5
  <2>2. CASE ~ Exists(t)
    BY <1>0, <1>2, <1>3, <2>2 DEF BooksInv, BalanceOfLast
  <2> QED
    BY <2>1, <2>2
<1>7. /\ status'[t] = "OPEN" /\ opening'[t] = balance
      /\ carried'[t] = IF amount[c] = 0 THEN 0 ELSE amount[c]
      /\ \A z \in Years : z # t => /\ status'[z] = status[z] /\ summary'[z] = summary[z]
                                   /\ opening'[z] = opening[z] /\ carried'[z] = carried[z]
  BY <1>0, <1>1, <1>2, <1>5 DEF TablesTyped
<1>8. \A z : Exists(z)' <=> Exists(z) \/ z = t
  BY <1>2, <1>7 DEF Exists
<1>9. y # t /\ t + 2 # t /\ (\A z \in Years : z + 2 = t => z = y) /\ y + 2 = t
  BY <1>0, <1>2, YearsBounds
<1>10. \A z \in Years : Exists(z) => z < y \/ z = y \/ z = t
  <2> SUFFICES ASSUME NEW z \in Years, Exists(z), y < z, z # t PROVE FALSE
    BY <1>0, YearsBounds
  <2>1. t <= z /\ Exists(t)
    BY <1>0, <1>2, <1>3 DEF BooksInv, YearsInARow
  <2>2. t < z
    BY <2>1, <1>2, YearsBounds
  <2> QED
    BY <2>1, <2>2, <1>2, <1>3 DEF BooksInv, YearsInARow
<1>11. YearsInARow'
  <2> SUFFICES ASSUME NEW x \in Years, NEW z \in Years, Exists(x)', Exists(z)', x < z
               PROVE  x + 2 <= z /\ Exists(x + 2)'
    BY DEF YearsInARow
  <2>1. x \in Nat /\ z \in Nat /\ y \in Nat /\ t \in Nat /\ t = y + 2
    BY <1>0, <1>2, YearsBounds
  <2>2. CASE Exists(x) /\ Exists(z)
    BY <2>2, <1>8 DEF BooksInv, YearsInARow
  <2>3. CASE z = t /\ x = y
    BY <2>1, <2>3, <1>8
  <2>4. CASE z = t /\ x # t /\ x # y
    <3>1. x < y /\ Exists(x)
      BY <1>8, <1>10, <2>1, <2>4
    <3>2. x + 2 <= y /\ Exists(x + 2)
      BY <3>1, <1>0, <1>3 DEF BooksInv, YearsInARow
    <3> QED
      BY <3>2, <2>1, <2>4, <1>8
  <2>5. x # t
    BY <1>8, <1>10, <2>1
  <2> QED
    BY <2>1, <2>2, <2>3, <2>4, <2>5, <1>8
<1>12. NoneAhead'
  <2> SUFFICES ASSUME NEW z \in Years
               PROVE  /\ Exists(z) \/ z = t => z <= now
                      /\ ~ (Exists(z) \/ z = t) => entries[z] = 0 /\ opening'[z] = 0 /\ carried'[z] = 0
    BY <1>1, <1>8 DEF NoneAhead
  <2> QED
    BY <1>2, <1>7 DEF BooksInv, NoneAhead
<1>13. BalanceOfLast'
  <2>1. opening'[t] = balance /\ balance = opening'[t] + entries[t]
    <3>1. balance \in Nat
      BY <1>0 DEF TablesTyped
    <3> QED
      BY <3>1, <1>5, <1>7
  <2>2. \A z \in Years : Exists(z)' /\ ~ Exists(z + 2)' => z = t
    <3> SUFFICES ASSUME NEW z \in Years, Exists(z), z # t, ~ Exists(z + 2)' PROVE FALSE
      BY <1>8
    <3>1. z # y /\ ~ Exists(z + 2)
      BY <1>2, <1>8
    <3>2. z < y
      BY <3>1, <1>10
    <3> QED
      BY <3>1, <3>2, <1>0, <1>3 DEF BooksInv, YearsInARow
  <2> QED
    BY <2>1, <2>2, <1>1, <1>2, <1>8 DEF BalanceOfLast
<1>14. \A z \in Years : Exists(z)' /\ Exists(z + 2)' => z = y \/ (z # t /\ z + 2 # t /\ Exists(z) /\ Exists(z + 2))
  BY <1>3, <1>8, <1>9
<1>15. OpeningsContinue'
  <2> SUFFICES ASSUME NEW z \in Years, Exists(z)', Exists(z + 2)'
               PROVE  opening'[z + 2] = opening'[z] + entries[z]
    BY <1>1 DEF OpeningsContinue
  <2>1. CASE z = y
    BY <2>1, <1>0, <1>2, <1>6, <1>7, <1>9
  <2>2. CASE z # t /\ z + 2 # t /\ Exists(z) /\ Exists(z + 2)
    BY <2>2, <1>7 DEF BooksInv, OpeningsContinue, Exists
  <2> QED
    BY <2>1, <2>2, <1>14
<1>16. Accounting => JournalContinues'
  <2> SUFFICES ASSUME Accounting, NEW z \in Years, Exists(z)', Exists(z + 2)'
               PROVE  carried'[z + 2] = carried'[z] + entries[z]
    BY <1>1 DEF JournalContinues
  <2>1. CASE z = y
    BY <2>1, <1>0, <1>2, <1>4, <1>7, <1>9
  <2>2. CASE z # t /\ z + 2 # t /\ Exists(z) /\ Exists(z + 2)
    BY <2>2, <1>7 DEF BooksInv, JournalContinues, Exists
  <2> QED
    BY <2>1, <2>2, <1>14
<1>17. SummaryTrue'
  BY <1>1, <1>7 DEF BooksInv, SummaryTrue
<1> QED
  BY <1>11, <1>12, <1>13, <1>15, <1>16, <1>17 DEF BooksInv

(* The first year of a business that has none.                             *)
LEMMA EnsureKeepsBooks ==
  ASSUME IInv, BooksInv, NEW c \in Calls, ReadCurrent(c), EnsureCurrent(c)
  PROVE  BooksInv'
<1> DEFINE y == Expected(c)
<1>0. TablesTyped /\ date[c] \in Years /\ now \in Years
  BY TypeParts DEF IInv, CallsTyped
<1>1. y \in Years /\ y <= now
  <2>1. date[c] \in Nat /\ April \in 0 .. 1 /\ now \in Nat
    <3>1. April \in 0 .. 1
      BY DEF April
    <3> QED
      BY <3>1, <1>0, YearsBounds
  <2>2. y \in Nat /\ y <= date[c] /\ date[c] <= now
    BY <2>1, BeginsBefore DEF Expected, ReadCurrent
  <2> QED
    BY <2>1, <2>2, <1>0, YearsBounds
<1>2. \A z \in Years : ~ Exists(z)
  BY DEF EnsureCurrent, ReadCurrent
<1> HIDE DEF y
<1>3. /\ status' = [status EXCEPT ![y] = "OPEN"]
      /\ UNCHANGED <<now, summary, entries, opening, carried, balance>>
  BY <1>1, <1>2 DEF EnsureCurrent, Proceed, bookVars, y
<1>4. \A z : Exists(z)' <=> z = y
  BY <1>0, <1>1, <1>2, <1>3 DEF TablesTyped, Exists
<1>5. \A z \in Years : entries[z] = 0 /\ opening[z] = 0 /\ carried[z] = 0
  BY <1>2 DEF BooksInv, NoneAhead
<1>6. y + 2 # y
  BY <1>1, YearsBounds
<1>7. YearsInARow'
  BY <1>1, <1>4, YearsBounds DEF YearsInARow
<1>8. NoneAhead'
  BY <1>1, <1>3, <1>4, <1>5 DEF NoneAhead
<1>9. BalanceOfLast'
  <2>1. balance = 0
    BY <1>2 DEF BooksInv, BalanceOfLast
  <2> QED
    BY <2>1, <1>1, <1>3, <1>4, <1>5 DEF BalanceOfLast
<1>10. OpeningsContinue' /\ JournalContinues'
  BY <1>4, <1>6 DEF OpeningsContinue, JournalContinues
<1>11. SummaryTrue'
  BY <1>0, <1>1, <1>2, <1>3 DEF TablesTyped, SummaryTrue, Exists
<1> QED
  BY <1>7, <1>8, <1>9, <1>10, <1>11 DEF BooksInv

(* A year is closed with the summary its call has read.                    *)
LEMMA CloseKeepsBooks ==
  ASSUME IInv, BooksInv, NEW c \in Calls, ReadCurrent(c), CommitClose(c) \/ CommitReopen(c)
  PROVE  BooksInv'
<1>0. TablesTyped /\ about[c] \in Years
  BY TypeParts DEF IInv, CallsTyped
<1>1. UNCHANGED <<now, entries, opening, carried, balance>>
  BY DEF CommitClose, CommitReopen, End, bookVars
<1>2. \A z : Exists(z)' <=> Exists(z)
  BY <1>0 DEF CommitClose, CommitReopen, yearVars, TablesTyped, Exists
<1>3. YearsInARow' /\ NoneAhead' /\ BalanceOfLast'
  BY <1>1, <1>2 DEF BooksInv, YearsInARow, NoneAhead, BalanceOfLast
<1>4. OpeningsContinue' /\ (Accounting => JournalContinues')
  BY <1>1, <1>2 DEF BooksInv, OpeningsContinue, JournalContinues
<1>5. SummaryTrue'
  <2>1. CASE CommitClose(c)
    <3>1. status[about[c]] = "OPEN" /\ amount[c] = opening[about[c]] + entries[about[c]]
      BY <2>1 DEF CommitClose, ReadCurrent
    <3> QED
      BY <2>1, <3>1, <1>0, <1>1 DEF CommitClose, TablesTyped, BooksInv, SummaryTrue
  <2>2. CASE CommitReopen(c)
    BY <2>2, <1>0, <1>1 DEF CommitReopen, TablesTyped, BooksInv, SummaryTrue
  <2> QED
    BY <2>1, <2>2
<1> QED
  BY <1>3, <1>4, <1>5 DEF BooksInv

LEMMA BooksKept ==
  ASSUME SerialInv, [Next]_vars
  PROVE  BooksInv'
<1> USE DEF SerialInv
<1>1. now' \in Years /\ now \in Years
  BY CallsKept, TypeParts DEF IInv
<1>2. CASE UNCHANGED <<yearVars, bookVars>>
  <2>1. now' = now \/ now' = now + 1
    BY DEF Next, vars, Tick, Submit, Refuse, Reconcile, ReadRows, ReadRowsAstray, ReadNoRows, EnsureCurrent,
           CommitReconcile, Reconciled, Post, ReadYear, CommitPost, StartNext, ReadSource, ReadNext, ReadCount,
           ReadBalances, CommitStart, CloseYear, ReadOpen, ReadSummary, CommitClose, ReopenYear, ReadClosed,
           CommitReopen, Proceed, End
  <2>2. now <= now'
    BY <2>1, <1>1, YearsBounds
  <2> QED
    BY <2>2, <1>1, <1>2, BooksRest DEF yearVars, bookVars
<1>3. ASSUME NEW c \in Calls, Writes(c)
      PROVE  BooksInv'
  <2>1. ReadCurrent(c)
    OBVIOUS
  <2>2. CASE EnsureCurrent(c)
    BY <2>1, <2>2, EnsureKeepsBooks DEF EnsureCurrent, bookVars
  <2>3. CASE CommitReconcile(c)
    <3>1. now' = now /\ UNCHANGED <<status, summary, bookVars>>
      BY <2>3 DEF CommitReconcile, Reconciled, Proceed, End
    <3>2. now <= now'
      BY <3>1, <1>1, YearsBounds
    <3> QED
      BY <3>1, <3>2, <1>1, BooksRest DEF bookVars
  <2>4. CASE CommitPost(c)
    BY <2>1, <2>4, PostKeepsBooks DEF CommitPost
  <2>5. CASE CommitStart(c)
    BY <2>1, <2>5, StartKeepsBooks
  <2>6. CASE CommitClose(c) \/ CommitReopen(c)
    BY <2>1, <2>6, CloseKeepsBooks DEF CommitClose, CommitReopen, bookVars
  <2> QED
    BY <1>3, <2>2, <2>3, <2>4, <2>5, <2>6 DEF Writes
<1> QED
  BY <1>2, <1>3, ReadsOnly

LEMMA EndForgets ==
  ASSUME NEW c \in Calls, CallsTyped, now \in Years, End(c)
  PROVE  ReadCurrent(c)'
<1>1. step'[c] = "idle" /\ date'[c] = 0 /\ now' \in Nat
  BY YearsBounds DEF End, CallsTyped
<1> QED
  BY <1>1 DEF ReadCurrent, Starting

LEMMA SubmitCurrent ==
  ASSUME NEW c \in Calls, IInv, BooksInv, Submit(c)
  PROVE  ReadCurrent(c)'
<1>0. CallsTyped /\ now \in Nat
  BY TypeParts, YearsBounds DEF IInv
<1>1. PICK o \in Operations, y \in Years :
        /\ IF o \in {"list", "post"} THEN y = Begins(now, StartMonth) ELSE Exists(y)
        /\ kind' = [kind EXCEPT ![c] = o]
        /\ step' = [step EXCEPT ![c] = First[o]]
        /\ about' = [about EXCEPT ![c] = y]
  BY DEF Submit
<1>2. /\ date'[c] = now /\ step'[c] = First[o] /\ about'[c] = y
      /\ UNCHANGED <<now, status, active, summary, entries, opening, carried, balance>>
  BY <1>0, <1>1 DEF Submit, CallsTyped, yearVars, bookVars
<1>3. /\ First[o] \in {"rows", "source", "open", "closed"}
      /\ First[o] = "rows" => o \in {"list", "post"}
  BY OperationAssumption DEF Kinds, First
<1>4. \A x \in Years : Exists(x)' => x <= now
  BY <1>2 DEF BooksInv, NoneAhead, Exists
<1> QED
  BY <1>0, <1>1, <1>2, <1>3, <1>4 DEF ReadCurrent, Starting

(* A call goes on over tables that stay as they are.                       *)
LEMMA ProceedCurrent ==
  ASSUME NEW c \in Calls, NEW s, CallsTyped, ReadCurrent(c), step[c] # "idle",
         Proceed(c, s), UNCHANGED <<status, bookVars>>,
         s # "ensure",
         s \in {"rows", "reconcile", "year", "post"} => step[c] \in {"rows", "ensure", "reconcile", "year", "post"},
         s \in Starting => Exists(about[c]) /\ Target(c) = Begins(date[c], StartMonth),
         s \in {"balances", "start"} => Transactions(Target(c)) = 0,
         s = "start" => amount'[c] = IF Accounting THEN Closing(about[c]) ELSE 0,
         s \in {"summary", "close"} => status[about[c]] = "OPEN",
         s = "close" => amount'[c] = opening[about[c]] + entries[about[c]]
  PROVE  ReadCurrent(c)'
<1>1. /\ step'[c] = s /\ UNCHANGED <<now, date, about, status, entries, opening, carried>>
  BY DEF Proceed, CallsTyped, bookVars
<1>2. /\ \A y : Exists(y)' <=> Exists(y)
      /\ Target(c)' = Target(c)
      /\ \A y : Transactions(y)' = Transactions(y) /\ Closing(y)' = Closing(y)
  BY <1>1 DEF Exists, Target, Transactions, Closing
<1>3. /\ (date[c] <= now)'
      /\ (step[c] # "idle" => \A y \in Years : Exists(y) => y <= date[c])'
      /\ (step[c] \in {"rows", "ensure", "reconcile", "year", "post"} => about[c] = Begins(date[c], StartMonth))'
      /\ (step[c] = "ensure" => \A y \in Years : ~ Exists(y))'
  BY <1>1, <1>2 DEF ReadCurrent
<1>4. /\ (step[c] \in Starting => Exists(about[c]) /\ Target(c) = Begins(date[c], StartMonth))'
      /\ (step[c] \in {"balances", "start"} => Transactions(Target(c)) = 0)'
      /\ (step[c] = "start" => amount[c] = IF Accounting THEN Closing(about[c]) ELSE 0)'
  BY <1>1, <1>2 DEF Starting
<1>5. /\ (step[c] \in {"summary", "close"} => status[about[c]] = "OPEN")'
      /\ (step[c] = "close" => amount[c] = opening[about[c]] + entries[about[c]])'
  BY <1>1
<1> QED
  BY <1>3, <1>4, <1>5 DEF ReadCurrent

LEMMA ReadsKept ==
  ASSUME OneCall, SerialInv, [Next]_vars
  PROVE  \A c \in Calls : ReadCurrent(c)'
<1> SUFFICES ASSUME NEW c \in Calls PROVE ReadCurrent(c)'
  OBVIOUS
<1>0. IInv /\ BooksInv /\ ReadCurrent(c)
  BY DEF SerialInv
<1>1. CallsTyped /\ TablesTyped /\ now \in Years /\ about[c] \in Years /\ date[c] \in Years
  BY <1>0, TypeParts DEF IInv, CallsTyped
<1>2. CASE UNCHANGED vars \/ Tick
  <2>1. UNCHANGED <<callVars, yearVars, bookVars>>
    BY <1>2 DEF vars, Tick
  <2>2. date[c] <= now'
    <3>1. now' = now \/ now' = now + 1
      BY <1>2 DEF vars, Tick
    <3>2. date[c] <= now /\ date[c] \in Nat /\ now \in Nat
      BY <1>0, <1>1, YearsBounds DEF ReadCurrent
    <3> QED
      BY <3>1, <3>2
  <2>3. /\ \A y : Exists(y)' <=> Exists(y)
        /\ Target(c)' = Target(c)
        /\ \A y : Transactions(y)' = Transactions(y) /\ Closing(y)' = Closing(y)
    BY <2>1 DEF callVars, yearVars, bookVars, Exists, Target, Transactions, Closing
  <2> QED
    BY <1>0, <2>1, <2>2, <2>3 DEF callVars, yearVars, bookVars, ReadCurrent
<1>3. ASSUME NEW d \in Calls,
             Submit(d) \/ Refuse(d) \/ Reconcile(d) \/ Post(d) \/ StartNext(d) \/ CloseYear(d) \/ ReopenYear(d)
      PROVE  ReadCurrent(c)'
  <2>1. d = c
    BY DEF OneCall
  <2>2. CASE Submit(c)
    BY <1>0, <2>2, SubmitCurrent
  <2>3. CASE End(c)
    BY <1>1, <2>3, EndForgets
  <2>4. ASSUME Reconciled(c), ~ End(c), step[c] \in {"rows", "reconcile"},
               UNCHANGED <<status, bookVars>>
        PROVE  ReadCurrent(c)'
    <3>1. Proceed(c, "year")
      BY <2>4 DEF Reconciled
    <3> QED
      BY <1>0, <1>1, <2>4, <3>1, ProceedCurrent DEF Starting
  <2>5. CASE Reconcile(c)
    <3>1. CASE ReadRows(c) \/ CommitReconcile(c)
      BY <2>3, <2>4, <3>1 DEF ReadRows, CommitReconcile, yearVars
    <3>2. CASE ReadRowsAstray(c)
      <4>1. Proceed(c, "reconcile") /\ step[c] = "rows" /\ UNCHANGED <<status, bookVars>>
        BY <3>2 DEF ReadRowsAstray, yearVars
      <4> QED
        BY <1>0, <1>1, <4>1, ProceedCurrent DEF Starting
    <3>3. CASE ReadNoRows(c)
      <4>1. /\ step[c] = "rows" /\ step'[c] = "ensure" /\ \A y \in Years : ~ Exists(y)'
            /\ date'[c] = date[c] /\ now' = now /\ about'[c] = about[c]
        BY <1>1, <3>3 DEF ReadNoRows, Proceed, CallsTyped, yearVars, Exists
      <4> QED
        BY <1>0, <4>1 DEF ReadCurrent, Starting
    <3>4. CASE EnsureCurrent(c)
      <4>1. /\ step[c] = "ensure" /\ step'[c] = "rows" /\ date'[c] = date[c] /\ now' = now /\ about'[c] = about[c]
        BY <1>1, <3>4 DEF EnsureCurrent, Proceed, CallsTyped
      <4>2. \A y \in Years : Exists(y)' => y <= date[c]
        <5>1. Expected(c) <= date[c]
          <6>1. April \in 0 .. 1 /\ date[c] \in Nat
            <7>1. April \in 0 .. 1
              BY DEF April
            <7> QED
              BY <1>1, <7>1, YearsBounds
          <6> QED
            BY <6>1, BeginsBefore DEF Expected
        <5>2. \A y \in Years : Exists(y)' => y = Expected(c)
          <6>1. \A y \in Years : ~ Exists(y)
            BY <1>0, <4>1 DEF ReadCurrent
          <6> QED
            BY <1>1, <3>4, <6>1 DEF EnsureCurrent, TablesTyped, Exists, yearVars
        <5> QED
          BY <5>1, <5>2
      <4> QED
        BY <1>0, <4>1, <4>2 DEF ReadCurrent, Starting
    <3> QED
      BY <2>5, <3>1, <3>2, <3>3, <3>4 DEF Reconcile
  <2>6. CASE Post(c)
    <3>1. CASE ReadYear(c)
      <4>1. Proceed(c, "post") /\ step[c] = "year" /\ UNCHANGED <<status, bookVars>>
        BY <3>1 DEF ReadYear, yearVars
      <4> QED
        BY <1>0, <1>1, <4>1, ProceedCurrent DEF Starting
    <3> QED
      BY <2>3, <2>6, <3>1 DEF Post, CommitPost
  <2>7. CASE StartNext(c)
    <3>1. CASE ReadSource(c)
      <4>1. Proceed(c, "next") /\ step[c] = "source" /\ UNCHANGED <<status, bookVars>>
        BY <3>1 DEF ReadSource, yearVars
      <4>2. Exists(about[c]) /\ Target(c) = Begins(date[c], StartMonth)
        BY <3>1 DEF ReadSource, Startable, Target
      <4> QED
        BY <1>0, <1>1, <4>1, <4>2, ProceedCurrent DEF Starting
    <3>2. CASE ReadNext(c)
      <4>1. step[c] = "next" /\ UNCHANGED <<status, bookVars>>
        BY <3>2 DEF ReadNext, yearVars
      <4>2. Exists(about[c]) /\ Target(c) = Begins(date[c], StartMonth)
        BY <1>0, <4>1 DEF ReadCurrent, Starting
      <4>3. CASE Exists(Target(c))
        <5>1. Proceed(c, "count")
          BY <3>2, <4>3 DEF ReadNext
        <5> QED
          BY <1>0, <1>1, <4>1, <4>2, <5>1, ProceedCurrent
      <4>4. CASE ~ Exists(Target(c))
        <5>1. Proceed(c, "balances")
          BY <3>2, <4>4 DEF ReadNext
        <5>2. Target(c) \in Years
          <6>1. Target(c) <= date[c]
            BY <1>0, <4>1 DEF IInv, StartsByItsDate
          <6>2. about[c] \in Nat /\ Target(c) \in Nat
            <7>1. about[c] \in Nat
              BY <1>1, YearsBounds
            <7> QED
              BY <7>1 DEF Target
          <6> QED
            BY <6>1, <6>2, <1>1, YearsBounds
        <5>3. Transactions(Target(c)) = 0
          BY <1>0, <4>4, <5>2 DEF BooksInv, NoneAhead, Transactions
        <5> QED
          BY <1>0, <1>1, <4>1, <4>2, <5>1, <5>3, ProceedCurrent
      <4> QED
        BY <4>3, <4>4
    <3>3. CASE ReadCount(c)
      <4>1. /\ Proceed(c, "balances") /\ step[c] = "count" /\ UNCHANGED <<status, bookVars>>
            /\ Transactions(Target(c)) = 0
        BY <3>3 DEF ReadCount, yearVars
      <4>2. Exists(about[c]) /\ Target(c) = Begins(date[c], StartMonth)
        BY <1>0, <4>1 DEF ReadCurrent, Starting
      <4> QED
        BY <1>0, <1>1, <4>1, <4>2, ProceedCurrent
    <3>4. CASE ReadBalances(c)
      <4>1. /\ Proceed(c, "start") /\ step[c] = "balances" /\ UNCHANGED <<status, bookVars>>
            /\ amount'[c] = IF Accounting THEN Closing(about[c]) ELSE 0
        BY <1>1, <3>4 DEF ReadBalances, yearVars, CallsTyped
      <4>2. /\ Exists(about[c]) /\ Target(c) = Begins(date[c], StartMonth)
            /\ Transactions(Target(c)) = 0
        BY <1>0, <4>1 DEF ReadCurrent, Starting
      <4> QED
        BY <1>0, <1>1, <4>1, <4>2, ProceedCurrent
    <3> QED
      BY <2>3, <2>7, <3>1, <3>2, <3>3, <3>4 DEF StartNext, CommitStart
  <2>8. CASE CloseYear(c)
    <3>1. CASE ReadOpen(c)
      <4>1. Proceed(c, "summary") /\ step[c] = "open" /\ status[about[c]] = "OPEN" /\ UNCHANGED <<status, bookVars>>
        BY <3>1 DEF ReadOpen, yearVars
      <4> QED
        BY <1>0, <1>1, <4>1, ProceedCurrent DEF Starting
    <3>2. CASE ReadSummary(c)
      <4>1. /\ Proceed(c, "close") /\ step[c] = "summary" /\ UNCHANGED <<status, bookVars>>
            /\ amount'[c] = Summary(about[c])
        BY <1>1, <3>2 DEF ReadSummary, yearVars, CallsTyped
      <4>2. status[about[c]] = "OPEN"
        BY <1>0, <4>1 DEF ReadCurrent
      <4>3. amount'[c] = opening[about[c]] + entries[about[c]]
        BY <4>1, <4>2 DEF Summary
      <4> QED
        BY <1>0, <1>1, <4>1, <4>2, <4>3, ProceedCurrent DEF Starting
    <3> QED
      BY <2>3, <2>8, <3>1, <3>2 DEF CloseYear, CommitClose
  <2>9. CASE ReopenYear(c)
    <3>1. CASE ReadClosed(c)
      <4>1. Proceed(c, "reopen") /\ step[c] = "closed" /\ UNCHANGED <<status, bookVars>>
        BY <3>1 DEF ReadClosed, yearVars
      <4> QED
        BY <1>0, <1>1, <4>1, ProceedCurrent DEF Starting
    <3> QED
      BY <2>3, <2>9, <3>1 DEF ReopenYear, CommitReopen
  <2> QED
    BY <1>3, <2>1, <2>2, <2>3, <2>5, <2>6, <2>7, <2>8, <2>9 DEF Refuse
<1> QED
  BY <1>2, <1>3 DEF Next

LEMMA Serially == ASSUME OneCall PROVE Spec => []SerialInv
<1>1. Init => SerialInv
  BY InitInvariant, SerialInitially DEF SerialInv
<1>2. SerialInv /\ [Next]_vars => SerialInv'
  <2> SUFFICES ASSUME SerialInv, [Next]_vars PROVE SerialInv'
    OBVIOUS
  <2>1. IInv'
    BY CallsKept, TablesKept DEF SerialInv, IInv, TypeOK, CallsTyped, TablesTyped
  <2> QED
    BY <2>1, BooksKept, ReadsKept DEF SerialInv
<1> QED
  BY <1>1, <1>2, PTL DEF Spec

(* With one call at a time, and journals, a year opens with what the year  *)
(* before it closes with, on both books, for as many years as the business *)
(* has and also if it rebuilds one that was left empty                     *)
(* (createNextFinancialYear).                                              *)
THEOREM BooksContinueSerially == ASSUME OneCall, Accounting PROVE Spec => []BooksContinue
<1>1. SerialInv => BooksContinue
  BY DEF SerialInv, BooksInv, BooksContinue, OpeningsContinue
<1> QED
  BY Serially, <1>1, PTL

(* With one call at a time the summary on record of a closed year is that  *)
(* of its opening balance and its documents (closeFinancialYear).          *)
THEOREM SummaryTrueSerially == ASSUME OneCall PROVE Spec => []SummaryTrue
<1>1. SerialInv => SummaryTrue
  BY DEF SerialInv, BooksInv
<1> QED
  BY Serially, <1>1, PTL

=============================================================================
