--------------------------- MODULE FinancialYears ---------------------------
(***************************************************************************)
(* The financial years of a business: the pointer to the operational year  *)
(* (reconcileOperationalFinancialYear), the check every dated document     *)
(* passes before it is written (assertFinancialYearWriteAllowed), starting *)
(* the next year with its opening balances (createNextFinancialYear),      *)
(* closing and reopening (closeFinancialYear, reopenFinancialYear).        *)
(*                                                                         *)
(* Each is a handler of localApiFetch that takes the date when it is       *)
(* called, reads with separate SELECTs and commits one write transaction.  *)
(* The date may change, and other handlers commit, between any two of      *)
(* these; triggers on the tables of dated documents look again at the year *)
(* a row belongs to.                                                       *)
(*                                                                         *)
(* Time is counted in half-years: a financial year is two of them, and is  *)
(* named by the first, as its id is by start year and month.  Documents    *)
(* are one customer's, of one unit each; stock openings are snapshots of   *)
(* the same kind, and invoice numbers are in Inventory.                    *)
(***************************************************************************)
EXTENDS Integers

CONSTANTS
  Calls,         \* the calls that run at a time
  Operations,    \* the kinds of calls a behaviour may make
  StartMonth,    \* when the years of the business begin: 0 in April, 1 in October
  Accounting,    \* accounting is initialized, and journals are posted
  LastDate,      \* bound: the last half-year
  MaxDocuments   \* bound: the documents of a behaviour

ASSUME CalendarAssumption == StartMonth \in 0 .. 1 /\ LastDate \in Nat /\ LastDate >= 1
ASSUME BoundAssumption == MaxDocuments \in Nat /\ Accounting \in BOOLEAN
Kinds == {"list", "post", "start", "close", "reopen"}
ASSUME OperationAssumption == Operations \subseteq Kinds

Years == 0 .. LastDate
April == 0       \* DEFAULT_FISCAL_START_MONTH

VARIABLES
  now,           \* the local business date
  (* calls *)
  kind,          \* kind[c]: the handler c calls
  step,          \* step[c]: what c is about to do
  date,          \* date[c]: the date when c was called
  about,         \* about[c]: the year c names
  found,         \* found[c]: whether c found the year it may change as wanted
  amount,        \* amount[c]: the balance c has read
  (* tables *)
  status,        \* financial_years.status, "absent" if there is no row
  active,        \* the rows with is_active = 1
  summary,       \* the receivables in close_summary_json
  entries,       \* the documents of the year, on the customer's account
  opening,       \* financial_year_opening_balances
  carried,       \* the receivables in the YEAR_OPENING journal, 0 if there is none
  balance        \* customers.current_balance

callVars == <<kind, step, date, about, found, amount>>
yearVars == <<status, active, summary>>
bookVars == <<entries, opening, carried, balance>>
vars == <<now, callVars, yearVars, bookVars>>

Steps == {"idle", "rows", "ensure", "reconcile", "year", "post",
          "source", "next", "count", "balances", "start",
          "open", "summary", "close", "closed", "reopen"}

TypeOK ==
  /\ now \in Years
  /\ kind \in [Calls -> Kinds]
  /\ step \in [Calls -> Steps]
  /\ date \in [Calls -> Years]
  /\ about \in [Calls -> Years]
  /\ found \in [Calls -> BOOLEAN]
  /\ amount \in [Calls -> Nat]
  /\ status \in [Years -> {"absent", "OPEN", "CLOSED"}]
  /\ active \in SUBSET Years
  /\ summary \in [Years -> Nat]
  /\ entries \in [Years -> Nat]
  /\ opening \in [Years -> Nat]
  /\ carried \in [Years -> Nat]
  /\ balance \in Nat

-----------------------------------------------------------------------------
(* The calendar.                                                           *)

(* fiscalStartYear: the year that contains t, for years that begin in m.   *)
Begins(t, m) == t - ((t - m) % 2)

Exists(y) == y \in Years /\ status[y] # "absent"

(* Mutant: any year can be continued.                                      *)
Startable_Anytime(y, t) == Exists(y)

(* createNextFinancialYear starts the year that contains t, from the one   *)
(* just before it.                                                         *)
Startable(y, t) == Exists(y) /\ y + 2 = Begins(t, StartMonth)

(* Onboarding creates the year of the day; a business that was restored or *)
(* created by a licence has no years yet.                                  *)
Init ==
  /\ now = 1
  /\ kind = [c \in Calls |-> "list"] /\ step = [c \in Calls |-> "idle"]
  /\ date = [c \in Calls |-> 0] /\ about = [c \in Calls |-> 0]
  /\ found = [c \in Calls |-> FALSE] /\ amount = [c \in Calls |-> 0]
  /\ \/ /\ status = [y \in Years |-> IF y = Begins(now, StartMonth) THEN "OPEN" ELSE "absent"]
        /\ active = {Begins(now, StartMonth)}
     \/ /\ StartMonth = April
        /\ status = [y \in Years |-> "absent"]
        /\ active = {}
  /\ summary = [y \in Years |-> 0]
  /\ entries = [y \in Years |-> 0]
  /\ opening = [y \in Years |-> 0] /\ carried = [y \in Years |-> 0]
  /\ balance = 0

Tick ==
  /\ now < LastDate
  /\ now' = now + 1
  /\ UNCHANGED <<callVars, yearVars, bookVars>>

-----------------------------------------------------------------------------
(* Calls begin and end.                                                    *)

First == [list |-> "rows", post |-> "rows", start |-> "source", close |-> "open", reopen |-> "closed"]

(* A list and a document are about the year of the day, by the calendar of *)
(* the business; the others about a year on record.                        *)
Submit(c) ==
  /\ step[c] = "idle"
  /\ date' = [date EXCEPT ![c] = now]
  /\ \E o \in Operations, y \in Years :
       /\ IF o \in {"list", "post"} THEN y = Begins(now, StartMonth) ELSE Exists(y)
       /\ kind' = [kind EXCEPT ![c] = o]
       /\ step' = [step EXCEPT ![c] = First[o]]
       /\ about' = [about EXCEPT ![c] = y]
  /\ UNCHANGED <<now, found, amount, yearVars, bookVars>>

(* The call is answered; what it has read is forgotten.                    *)
End(c) ==
  /\ kind' = [kind EXCEPT ![c] = "list"] /\ step' = [step EXCEPT ![c] = "idle"]
  /\ date' = [date EXCEPT ![c] = 0] /\ about' = [about EXCEPT ![c] = 0]
  /\ found' = [found EXCEPT ![c] = FALSE] /\ amount' = [amount EXCEPT ![c] = 0]
  /\ UNCHANGED now

(* A check refuses the call, a read or the backup fails, or a transaction  *)
(* is rolled back.                                                         *)
Refuse(c) ==
  /\ step[c] # "idle"
  /\ End(c)
  /\ UNCHANGED <<yearVars, bookVars>>

(* c goes on to its next step.                                             *)
Proceed(c, s) ==
  /\ step' = [step EXCEPT ![c] = s]
  /\ UNCHANGED <<now, kind, date, about>>

-----------------------------------------------------------------------------
(* reconcileOperationalFinancialYear, first in a list and before every     *)
(* dated document.  The year it expects is that of the default calendar.   *)

Expected(c) == Begins(date[c], April)

Reconciled(c) == IF kind[c] = "post" THEN Proceed(c, "year") /\ UNCHANGED <<found, amount>> ELSE End(c)

(* The pointer is right, or there is nothing to point at ...               *)
PointerStands(c) ==
  \/ active = {Expected(c)} /\ status[Expected(c)] = "OPEN"
  \/ active = {} /\ status[Expected(c)] # "OPEN"

ReadRows(c) ==
  /\ step[c] = "rows" /\ (\E y \in Years : Exists(y)) /\ PointerStands(c)
  /\ Reconciled(c)
  /\ UNCHANGED <<yearVars, bookVars>>

(* ... or it has to move ...                                               *)
ReadRowsAstray(c) ==
  /\ step[c] = "rows" /\ (\E y \in Years : Exists(y)) /\ ~ PointerStands(c)
  /\ Proceed(c, "reconcile")
  /\ found' = [found EXCEPT ![c] = status[Expected(c)] = "OPEN"]
  /\ UNCHANGED <<amount, yearVars, bookVars>>

(* ... or there are no years at all.                                       *)
ReadNoRows(c) ==
  /\ step[c] = "rows" /\ \A y \in Years : ~ Exists(y)
  /\ Proceed(c, "ensure")
  /\ UNCHANGED <<found, amount, yearVars, bookVars>>

(* ensureCurrentFinancialYear: INSERT OR IGNORE, and the rows are read     *)
(* again.                                                                  *)
EnsureCurrent(c) ==
  /\ step[c] = "ensure"
  /\ IF Exists(Expected(c)) THEN UNCHANGED yearVars
     ELSE /\ status' = [status EXCEPT ![Expected(c)] = "OPEN"]
          /\ active' = IF active = {} THEN {Expected(c)} ELSE active
          /\ UNCHANGED summary
  /\ Proceed(c, "rows")
  /\ UNCHANGED <<found, amount, bookVars>>

(* Mutant: the year is activated as it was read.                           *)
CommitReconcile_AsRead(c) ==
  /\ step[c] = "reconcile"
  /\ active' = IF found[c] THEN {Expected(c)} ELSE {}
  /\ Reconciled(c)
  /\ UNCHANGED <<status, summary, bookVars>>

CommitReconcile(c) ==
  /\ step[c] = "reconcile"
  /\ active' = IF found[c] /\ status[Expected(c)] = "OPEN" THEN {Expected(c)} ELSE {}
  /\ Reconciled(c)
  /\ UNCHANGED <<status, summary, bookVars>>

-----------------------------------------------------------------------------
(* A dated document.                                                       *)

(* assertFinancialYearWriteAllowed: the year of the date is active, open   *)
(* and contains the day of the call.                                       *)
ReadYear(c) ==
  /\ step[c] = "year" /\ status[about[c]] = "OPEN" /\ about[c] \in active
  /\ Proceed(c, "post")
  /\ UNCHANGED <<found, amount, yearVars, bookVars>>

(* Mutant: the tables rely on the check the call has made.                 *)
CommitPost_Checked(c) ==
  /\ step[c] = "post" /\ balance < MaxDocuments
  /\ entries' = [entries EXCEPT ![about[c]] = @ + 1]
  /\ balance' = balance + 1
  /\ End(c)
  /\ UNCHANGED <<yearVars, opening, carried>>

(* The transaction of the document, under the triggers of its tables.      *)
CommitPost(c) ==
  /\ step[c] = "post" /\ balance < MaxDocuments
  /\ status[about[c]] = "OPEN"
  /\ entries' = [entries EXCEPT ![about[c]] = @ + 1]
  /\ balance' = balance + 1
  /\ End(c)
  /\ UNCHANGED <<yearVars, opening, carried>>

-----------------------------------------------------------------------------
(* createNextFinancialYear: c is about the year to continue.               *)

Target(c) == about[c] + 2

ReadSource(c) ==
  /\ step[c] = "source" /\ Startable(about[c], date[c])
  /\ Proceed(c, "next")
  /\ UNCHANGED <<found, amount, yearVars, bookVars>>

ReadNext(c) ==
  /\ step[c] = "next"
  /\ found' = [found EXCEPT ![c] = Exists(Target(c))]
  /\ Proceed(c, IF Exists(Target(c)) THEN "count" ELSE "balances")
  /\ UNCHANGED <<amount, yearVars, bookVars>>

(* The dated rows of the year, the journal it was opened with included.    *)
Transactions(y) == entries[y] + (IF carried[y] = 0 THEN 0 ELSE 1)

ReadCount(c) ==
  /\ step[c] = "count" /\ Transactions(Target(c)) = 0
  /\ Proceed(c, "balances")
  /\ UNCHANGED <<found, amount, yearVars, bookVars>>

(* What the customer owes at the end of y, by the journals of y.           *)
Closing(y) == carried[y] + entries[y]

(* After the checks and the backup.                                        *)
ReadBalances(c) ==
  /\ step[c] = "balances"
  /\ amount' = [amount EXCEPT ![c] = IF Accounting THEN Closing(about[c]) ELSE 0]
  /\ Proceed(c, "start")
  /\ UNCHANGED <<found, yearVars, bookVars>>

(* Mutant: the opening balance is what the year before added.              *)
CommitStart_OwnEntries(c) ==
  /\ step[c] = "start" /\ (found[c] \/ ~ Exists(Target(c)))
  /\ amount[c] # 0 => carried[Target(c)] = 0
  /\ status' = [status EXCEPT ![Target(c)] = "OPEN"]
  /\ active' = {Target(c)}
  /\ summary' = [summary EXCEPT ![Target(c)] = 0]
  /\ carried' = [carried EXCEPT ![Target(c)] = IF amount[c] = 0 THEN @ ELSE amount[c]]
  /\ opening' = [opening EXCEPT ![Target(c)] = entries[about[c]]]
  /\ End(c)
  /\ UNCHANGED <<entries, balance>>

(* The row is updated if it was found, otherwise inserted; the journal has *)
(* an id of its own, so there can be one only; the opening balances are    *)
(* replaced by the balances of the moment.                                 *)
CommitStart(c) ==
  /\ step[c] = "start" /\ (found[c] \/ ~ Exists(Target(c)))
  /\ amount[c] # 0 => carried[Target(c)] = 0
  /\ status' = [status EXCEPT ![Target(c)] = "OPEN"]
  /\ active' = {Target(c)}
  /\ summary' = [summary EXCEPT ![Target(c)] = 0]
  /\ carried' = [carried EXCEPT ![Target(c)] = IF amount[c] = 0 THEN @ ELSE amount[c]]
  /\ opening' = [opening EXCEPT ![Target(c)] = balance]
  /\ End(c)
  /\ UNCHANGED <<entries, balance>>

-----------------------------------------------------------------------------
(* closeFinancialYear and reopenFinancialYear.                             *)

ReadOpen(c) ==
  /\ step[c] = "open" /\ status[about[c]] = "OPEN" /\ about[c] + 2 <= date[c]
  /\ Proceed(c, "summary")
  /\ UNCHANGED <<found, amount, yearVars, bookVars>>

(* Mutant: the balances the year was opened with are left out.             *)
Summary_OwnEntries(y) == IF status[y] = "CLOSED" THEN summary[y] ELSE entries[y]

(* financialYearSummary: outstandingReceivables; a closed year has it on   *)
(* record.                                                                 *)
Summary(y) == IF status[y] = "CLOSED" THEN summary[y] ELSE opening[y] + entries[y]

ReadSummary(c) ==
  /\ step[c] = "summary"
  /\ amount' = [amount EXCEPT ![c] = Summary(about[c])]
  /\ Proceed(c, "close")
  /\ UNCHANGED <<found, yearVars, bookVars>>

CommitClose(c) ==
  /\ step[c] = "close"
  /\ IF status[about[c]] # "OPEN" THEN UNCHANGED yearVars
     ELSE /\ status' = [status EXCEPT ![about[c]] = "CLOSED"]
          /\ active' = active \ {about[c]}
          /\ summary' = [summary EXCEPT ![about[c]] = amount[c]]
  /\ End(c)
  /\ UNCHANGED bookVars

ReadClosed(c) ==
  /\ step[c] = "closed" /\ status[about[c]] = "CLOSED" /\ about[c] <= date[c]
  /\ Proceed(c, "reopen")
  /\ UNCHANGED <<found, amount, yearVars, bookVars>>

CommitReopen(c) ==
  /\ step[c] = "reopen"
  /\ IF status[about[c]] # "CLOSED" THEN UNCHANGED status
     ELSE status' = [status EXCEPT ![about[c]] = "OPEN"]
  /\ End(c)
  /\ UNCHANGED <<active, summary, bookVars>>

-----------------------------------------------------------------------------
Reconcile(c) == ReadRows(c) \/ ReadRowsAstray(c) \/ ReadNoRows(c) \/ EnsureCurrent(c) \/ CommitReconcile(c)
Post(c) == ReadYear(c) \/ CommitPost(c)
StartNext(c) == ReadSource(c) \/ ReadNext(c) \/ ReadCount(c) \/ ReadBalances(c) \/ CommitStart(c)
CloseYear(c) == ReadOpen(c) \/ ReadSummary(c) \/ CommitClose(c)
ReopenYear(c) == ReadClosed(c) \/ CommitReopen(c)

Next == \/ Tick
        \/ \E c \in Calls : \/ Submit(c) \/ Refuse(c)
                            \/ Reconcile(c) \/ Post(c) \/ StartNext(c) \/ CloseYear(c) \/ ReopenYear(c)

Spec == Init /\ [][Next]_vars

-----------------------------------------------------------------------------
(* Properties.                                                             *)

(* The operational year is one, and it is open: a year that was closed is  *)
(* never pointed at, also by a handler that read it while it was open      *)
(* (reconcileOperationalFinancialYear, closeFinancialYear).                *)
ActiveIsOpen ==
  \A y \in active : status[y] = "OPEN" /\ active = {y}

(* A closed year keeps its documents, its opening balances and its summary *)
(* until it is reopened, whatever was checked before it was closed (the    *)
(* closed-year triggers of schema.ts).                                     *)
ClosedFrozen ==
  [][\A y \in Years : status[y] = "CLOSED" /\ status'[y] = "CLOSED" =>
       /\ entries'[y] = entries[y] /\ summary'[y] = summary[y]
       /\ opening'[y] = opening[y] /\ carried'[y] = carried[y]]_vars

(* A year carries the closing balances of the year before it as its        *)
(* YEAR_OPENING journal (createNextFinancialYear).                         *)
JournalContinues ==
  \A y \in Years : Exists(y) /\ Exists(y + 2) => carried[y + 2] = carried[y] + entries[y]

(* A year opens with what the year before it closes with, on both books:   *)
(* the opening balance and the documents of a year add up to the opening   *)
(* balance of the next, and so do its journals (createNextFinancialYear).  *)
BooksContinue ==
  /\ \A y \in Years : Exists(y) /\ Exists(y + 2) => opening[y + 2] = opening[y] + entries[y]
  /\ JournalContinues

(* The opening balances of an existing year are taken again only while     *)
(* nothing is recorded in it (createNextFinancialYear).                    *)
RebuiltOnlyEmpty ==
  [][\A y \in Years : Exists(y) /\ opening'[y] # opening[y] => Transactions(y) = 0]_vars

(* The summary a year is closed with is that of its documents              *)
(* (closeFinancialYear).                                                   *)
SummaryTrue ==
  \A y \in Years : status[y] = "CLOSED" => summary[y] = opening[y] + entries[y]

(* The pointer leaves an open year only when the year is over              *)
(* (reconcileOperationalFinancialYear, createNextFinancialYear).           *)
ActiveWhileCurrent ==
  [][\A y \in active : now \in {y, y + 1} /\ status'[y] = "OPEN" => y \in active']_vars

(* A business that has years has the one of the day or can start it        *)
(* (createNextFinancialYear, assertFinancialYearWriteAllowed).             *)
NeverStranded ==
  (\E y \in Years : Exists(y)) =>
    \E y \in Years : Exists(y) /\ (now \in {y, y + 1} \/ Startable(y, now))
=============================================================================
