----------------------------- MODULE Receivables -----------------------------
(***************************************************************************)
(* Settling the invoices of one customer: marking an invoice paid          *)
(* (updateInvoiceStatus, createPaymentTransaction), customer receipts,     *)
(* advances and credit notes (createPartyPayment, applyPartyAdvance,       *)
(* createSalesCreditNote) and the reversal of a posted journal             *)
(* (reverseJournal).                                                       *)
(*                                                                         *)
(* Every request of localApiFetch reads with separate SELECTs, computes,   *)
(* and commits one write transaction; other requests may commit between    *)
(* any two of these steps.  A request is one such call; what it read or    *)
(* computed is kept in the variables of the request.                       *)
(*                                                                         *)
(* Amounts are in minor units; paid_amount and outstanding_amount hold the *)
(* same numbers in rupees.  An invoice has one line of unit price 1, and a *)
(* receipt names at most one invoice (a document may appear only once in   *)
(* its allocations, so the allocations of a receipt do not interact).      *)
(***************************************************************************)
EXTENDS Integers, FiniteSets, Functions

CONSTANTS
  Invoices,      \* the customer's posted, unpaid invoices
  Total,         \* Total[i]: grand total of i, and the quantity on its line
  Requests,      \* the calls of a behaviour
  Operations,    \* the kinds of calls a behaviour may make
  Reversible,    \* the kinds of vouchers they may ask to reverse
  Overlap,       \* may a request begin before the one before it is answered?
  None,          \* no request
  Owed,          \* what the customer owes when the behaviour begins
  MaxAmount      \* bound: the largest amount a request asks for

Numbered == {"receipt", "apply", "creditNote"}   \* kinds with a voucher series
Kinds == Numbered \cup {"markPaid", "reverse"}

ASSUME RequestAssumption == /\ None \notin Requests
                            /\ Operations \subseteq Kinds /\ Reversible \subseteq Kinds
                            /\ Overlap \in BOOLEAN
ASSUME AmountAssumption == /\ MaxAmount \in Nat
                           /\ Invoices # {} /\ IsFiniteSet(Invoices)
                           /\ Total \in [Invoices -> Nat]
                           /\ Owed \in Nat
                           /\ Owed = SumFunction(Total)

VARIABLES
  (* requests *)
  phase,         \* phase[r]: how far r has got
  kind,          \* kind[r]: the endpoint r calls
  doc,           \* doc[r]: the invoice r is about
  of,            \* of[r]: the advance r applies, the voucher r reverses
  amount,        \* amount[r]: receipt and settlement amount, quantity returned
  cut,           \* cut[r]: the part of it that settles doc[r]
  number,        \* number[r]: the voucher number prepared for r
  (* tables *)
  paid, due,           \* sales_invoices.paid_amount, outstanding_amount
  paidMinor, dueMinor, \* sales_invoices.paid_minor, outstanding_minor
  balance,       \* customers.current_balance
  posted,        \* accounting_vouchers: the requests whose journal is posted
  arCredit,      \* arCredit[r]: what its journal credits Accounts Receivable
  ledger,        \* balance of Accounts Receivable in the posted journals
  next,          \* accounting_voucher_series.next_number
  reversedAt,    \* payments with reversed_at set
  returned,      \* returned[i]: quantity in the posted credit_note_items of i
  advance, applied, status   \* party_advances, by the request they come from

requestVars == <<kind, doc, of, amount>>
draftVars   == <<cut, number>>
invoiceVars == <<paid, due, paidMinor, dueMinor>>
bookVars    == <<balance, posted, arCredit, ledger, next>>
advanceVars == <<advance, applied, status>>
tables == <<invoiceVars, bookVars, reversedAt, returned, advanceVars>>
vars == <<phase, requestVars, draftVars, tables>>

Phases == {"idle", "submitted", "looked", "checked", "ready", "done", "same", "failed"}
Active == {"submitted", "looked", "checked", "ready"}

TypeOK ==
  /\ phase \in [Requests -> Phases]
  /\ kind \in [Requests -> Kinds]
  /\ doc \in [Requests -> Invoices]
  /\ of \in [Requests -> Requests \cup {None}]
  /\ amount \in [Requests -> Nat]
  /\ cut \in [Requests -> Nat]
  /\ number \in [Requests -> Nat]
  /\ paid \in [Invoices -> Nat]
  /\ due \in [Invoices -> Nat]
  /\ paidMinor \in [Invoices -> Nat]
  /\ dueMinor \in [Invoices -> Nat]
  /\ balance \in Nat
  /\ posted \subseteq Requests
  /\ arCredit \in [Requests -> Int]
  /\ ledger \in Int
  /\ next \in [Numbered -> Nat]
  /\ reversedAt \subseteq posted
  /\ returned \in [Invoices -> Nat]
  /\ advance \in [Requests -> Nat]
  /\ applied \in [Requests -> Nat]
  /\ status \in [Requests -> {"none", "OPEN", "APPLIED"}]

(* Every invoice is unpaid and posted; createInvoice added its total to    *)
(* the customer's balance and to Accounts Receivable.                      *)
Init ==
  /\ phase = [r \in Requests |-> "idle"]
  /\ kind = [r \in Requests |-> "receipt"]
  /\ doc = [r \in Requests |-> CHOOSE i \in Invoices : TRUE]
  /\ of = [r \in Requests |-> None]
  /\ amount = [r \in Requests |-> 0]
  /\ cut = [r \in Requests |-> 0]
  /\ number = [r \in Requests |-> 0]
  /\ paid = [i \in Invoices |-> 0] /\ due = Total
  /\ paidMinor = [i \in Invoices |-> 0] /\ dueMinor = Total
  /\ balance = Owed /\ ledger = Owed
  /\ posted = {} /\ arCredit = [r \in Requests |-> 0]
  /\ next = [k \in Numbered |-> 1]
  /\ reversedAt = {}
  /\ returned = [i \in Invoices |-> 0]
  /\ advance = [r \in Requests |-> 0] /\ applied = [r \in Requests |-> 0]
  /\ status = [r \in Requests |-> "none"]

-----------------------------------------------------------------------------
(* Submission, and the reads before the transaction.                       *)

Step(r, p, q) == phase[r] = p /\ phase' = [phase EXCEPT ![r] = q]

Answered == \A r \in Requests : phase[r] \notin Active

(* What a call may ask for: m is the allocation of a receipt; advances and *)
(* vouchers are picked from those the accounting views list.               *)
Asks(k, i, o, n, m) ==
  CASE k = "receipt"    -> o = None /\ m <= n
    [] k = "creditNote" -> o = None /\ m = 0
    [] k = "markPaid"   -> o = None /\ m = 0 /\ n = 1
    [] k = "apply"      -> o \in posted /\ status[o] # "none" /\ m = 0
    [] k = "reverse"    -> /\ o \in posted /\ kind[o] \in Reversible
                           /\ m = 0 /\ n = 1 /\ i = doc[o]

Fill(r, k, i, o, n, m) ==
  /\ kind' = [kind EXCEPT ![r] = k]
  /\ doc' = [doc EXCEPT ![r] = i]
  /\ of' = [of EXCEPT ![r] = o]
  /\ amount' = [amount EXCEPT ![r] = n]
  /\ cut' = [cut EXCEPT ![r] = m]

Submit(r) ==
  /\ Overlap \/ Answered
  /\ Step(r, "idle", "submitted")
  /\ \E k \in Operations, i \in Invoices, o \in posted \cup {None} :
     \E n \in 1 .. MaxAmount, m \in 0 .. MaxAmount :
       Asks(k, i, o, n, m) /\ Fill(r, k, i, o, n, m)
  /\ UNCHANGED <<number, tables>>

(* A check refuses the call (a closed year, an inactive party, too large   *)
(* an amount), a read fails, or the transaction is rolled back.            *)
Refuse(r) ==
  /\ phase[r] \in Active
  /\ phase' = [phase EXCEPT ![r] = "failed"]
  /\ UNCHANGED <<requestVars, draftVars, tables>>

(* outstanding_minor || moneyToMinor(outstanding_amount)                   *)
OpenAmount(i) == IF dueMinor[i] # 0 THEN dueMinor[i] ELSE due[i]

(* updateInvoiceStatus: the amount of the receipt is what is outstanding.  *)
ReadOutstanding(r) ==
  /\ kind[r] = "markPaid"
  /\ \/ /\ due[doc[r]] = 0
        /\ Step(r, "submitted", "same")
        /\ UNCHANGED amount
     \/ /\ due[doc[r]] # 0
        /\ Step(r, "submitted", "looked")
        /\ amount' = [amount EXCEPT ![r] = due[doc[r]]]
  /\ UNCHANGED <<kind, doc, of, draftVars, tables>>

(* The payment that holds the idempotency key of marking i paid.           *)
KeyTaken(i) == \E p \in posted : kind[p] = "markPaid" /\ doc[p] = i

(* createPaymentTransaction: the key is looked up, reversed or not ...     *)
CheckKey(r) ==
  /\ kind[r] = "markPaid"
  /\ Step(r, "looked", IF KeyTaken(doc[r]) THEN "same" ELSE "checked")
  /\ UNCHANGED <<requestVars, draftVars, tables>>

(* ... then the document is read again.                                    *)
CheckOutstanding(r) ==
  /\ kind[r] = "markPaid" /\ amount[r] <= due[doc[r]]
  /\ Step(r, "checked", "ready")
  /\ cut' = [cut EXCEPT ![r] = amount[r]]
  /\ UNCHANGED <<requestVars, number, tables>>

(* createPartyPayment: the allocation against the document.                *)
CheckAllocation(r) ==
  /\ kind[r] = "receipt" /\ cut[r] <= OpenAmount(doc[r])
  /\ Step(r, "submitted", "checked")
  /\ UNCHANGED <<requestVars, draftVars, tables>>

(* applyPartyAdvance reads the advance, then the target document.          *)
ReadAdvance(r) ==
  /\ kind[r] = "apply" /\ status[of[r]] = "OPEN"
  /\ amount[r] <= advance[of[r]] - applied[of[r]]
  /\ Step(r, "submitted", "looked")
  /\ UNCHANGED <<requestVars, draftVars, tables>>

(* Mutant: the target is not compared with the amount.                     *)
CheckTarget_Unbounded(r) ==
  /\ kind[r] = "apply"
  /\ Step(r, "looked", "checked")
  /\ cut' = [cut EXCEPT ![r] = amount[r]]
  /\ UNCHANGED <<requestVars, number, tables>>

CheckTarget(r) ==
  /\ kind[r] = "apply" /\ amount[r] <= OpenAmount(doc[r])
  /\ Step(r, "looked", "checked")
  /\ cut' = [cut EXCEPT ![r] = amount[r]]
  /\ UNCHANGED <<requestVars, number, tables>>

Lesser(m, n) == IF m < n THEN m ELSE n

(* createSalesCreditNote reads the invoice, then what was returned on it.  *)
(* What the open amount does not cover becomes an advance.                 *)
ReadInvoice(r) ==
  /\ kind[r] = "creditNote"
  /\ Step(r, "submitted", "looked")
  /\ cut' = [cut EXCEPT ![r] = Lesser(OpenAmount(doc[r]), amount[r])]
  /\ UNCHANGED <<requestVars, number, tables>>

ReadReturned(r) ==
  /\ kind[r] = "creditNote" /\ amount[r] <= Total[doc[r]] - returned[doc[r]]
  /\ Step(r, "looked", "checked")
  /\ UNCHANGED <<requestVars, draftVars, tables>>

(* prepareAccountingVoucherNumber: the series is read, not reserved.       *)
PrepareNumber(r) ==
  /\ kind[r] \in Numbered
  /\ Step(r, "checked", "ready")
  /\ number' = [number EXCEPT ![r] = next[kind[r]]]
  /\ UNCHANGED <<requestVars, cut, tables>>

Reversed(v) == \E q \in posted : kind[q] = "reverse" /\ of[q] = v

(* reverseJournal: an already reversed journal is answered as it is.       *)
ReadVoucher(r) ==
  /\ kind[r] = "reverse"
  /\ Step(r, "submitted", IF Reversed(of[r]) THEN "same" ELSE "ready")
  /\ UNCHANGED <<requestVars, draftVars, tables>>

-----------------------------------------------------------------------------
(* The write transactions.                                                 *)

Clamp(n) == IF n < 0 THEN 0 ELSE n      \* MAX(0, n)

(* appendJournal, with the credit to Accounts Receivable.                  *)
Journal(r, credit) ==
  /\ posted' = posted \cup {r}
  /\ arCredit' = [arCredit EXCEPT ![r] = credit]
  /\ ledger' = ledger - credit

(* UNIQUE (organization_id, voucher_number), one prefix for each series.   *)
NumberFree(r) == \A q \in posted : kind[q] = kind[r] => number[q] # number[r]

(* Mutant: the series is not advanced with the voucher.                    *)
AdvanceNumber_Forgotten(r) == UNCHANGED next

(* advanceAccountingVoucherNumber                                          *)
AdvanceNumber(r) ==
  next' = [next EXCEPT ![kind[r]] = IF @ <= number[r] THEN number[r] + 1 ELSE @]

(* Mutant: without MAX(0, ...).                                            *)
LowerBalance_Unclamped(n) == balance' = balance - n

LowerBalance(n) == balance' = Clamp(balance - n)

(* The UPDATE of a document by a receipt's allocation or an advance.       *)
Settle(i, n) ==
  /\ paidMinor' = [paidMinor EXCEPT ![i] = @ + n]
  /\ dueMinor' = [dueMinor EXCEPT ![i] = Clamp(@ - n)]
  /\ paid' = [paid EXCEPT ![i] = @ + n]
  /\ due' = [due EXCEPT ![i] = Clamp(@ - n)]

(* INSERT INTO party_advances, if the source leaves any.                   *)
LeaveAdvance(r, n) ==
  /\ advance' = [advance EXCEPT ![r] = n]
  /\ status' = [status EXCEPT ![r] = IF n = 0 THEN "none" ELSE "OPEN"]
  /\ UNCHANGED applied

(* paid_amount becomes n, and outstanding_amount what is then missing.     *)
SetPaid(i, n) ==
  /\ paid' = [paid EXCEPT ![i] = n]
  /\ due' = [due EXCEPT ![i] = Clamp(Total[i] - n)]
  /\ UNCHANGED <<paidMinor, dueMinor>>

(* Mutant: without idx_payments_org_idempotency.                           *)
CommitPayment_NoKey(r) ==
  /\ kind[r] = "markPaid"
  /\ Step(r, "ready", "done")
  /\ Journal(r, cut[r])
  /\ SetPaid(doc[r], Lesser(Total[doc[r]], paid[doc[r]] + cut[r]))
  /\ LowerBalance(cut[r])
  /\ UNCHANGED <<requestVars, draftVars, next, reversedAt, returned, advanceVars>>

(* createNormalizedPaymentAtomic; the payment's key is unique.             *)
CommitPayment(r) ==
  /\ kind[r] = "markPaid" /\ ~KeyTaken(doc[r])
  /\ Step(r, "ready", "done")
  /\ Journal(r, cut[r])
  /\ SetPaid(doc[r], Lesser(Total[doc[r]], paid[doc[r]] + cut[r]))
  /\ LowerBalance(cut[r])
  /\ UNCHANGED <<requestVars, draftVars, next, reversedAt, returned, advanceVars>>

(* createPartyPayment                                                      *)
CommitReceipt(r) ==
  /\ kind[r] = "receipt" /\ NumberFree(r)
  /\ Step(r, "ready", "done")
  /\ Settle(doc[r], cut[r])
  /\ LeaveAdvance(r, amount[r] - cut[r])
  /\ Journal(r, cut[r]) /\ AdvanceNumber(r)
  /\ LowerBalance(cut[r])
  /\ UNCHANGED <<requestVars, draftVars, reversedAt, returned>>

(* Mutant: without CHECK (applied_minor <= advance_minor).                 *)
CommitApply_NoCheck(r) ==
  /\ kind[r] = "apply" /\ NumberFree(r)
  /\ Step(r, "ready", "done")
  /\ Journal(r, cut[r]) /\ AdvanceNumber(r)
  /\ applied' = [applied EXCEPT ![of[r]] = @ + cut[r]]
  /\ status' = [status EXCEPT ![of[r]] =
       IF applied[of[r]] + cut[r] >= advance[of[r]] THEN "APPLIED" ELSE "OPEN"]
  /\ Settle(doc[r], cut[r])
  /\ LowerBalance(cut[r])
  /\ UNCHANGED <<requestVars, draftVars, reversedAt, returned, advance>>

(* applyPartyAdvance                                                       *)
CommitApply(r) ==
  /\ kind[r] = "apply" /\ NumberFree(r)
  /\ applied[of[r]] + cut[r] <= advance[of[r]]
  /\ Step(r, "ready", "done")
  /\ Journal(r, cut[r]) /\ AdvanceNumber(r)
  /\ applied' = [applied EXCEPT ![of[r]] = @ + cut[r]]
  /\ status' = [status EXCEPT ![of[r]] =
       IF applied[of[r]] + cut[r] >= advance[of[r]] THEN "APPLIED" ELSE "OPEN"]
  /\ Settle(doc[r], cut[r])
  /\ LowerBalance(cut[r])
  /\ UNCHANGED <<requestVars, draftVars, reversedAt, returned, advance>>

(* Mutant: the customer's balance falls by the whole note.                 *)
CommitCreditNote_WholeNote(r) ==
  /\ kind[r] = "creditNote" /\ NumberFree(r)
  /\ Step(r, "ready", "done")
  /\ returned' = [returned EXCEPT ![doc[r]] = @ + amount[r]]
  /\ Journal(r, cut[r]) /\ AdvanceNumber(r)
  /\ dueMinor' = [dueMinor EXCEPT ![doc[r]] = Clamp(@ - cut[r])]
  /\ due' = [due EXCEPT ![doc[r]] = Clamp(@ - cut[r])]
  /\ LowerBalance(amount[r])
  /\ LeaveAdvance(r, amount[r] - cut[r])
  /\ UNCHANGED <<requestVars, draftVars, paid, paidMinor, reversedAt>>

(* createSalesCreditNote; the stock it restores is not modelled here.      *)
CommitCreditNote(r) ==
  /\ kind[r] = "creditNote" /\ NumberFree(r)
  /\ Step(r, "ready", "done")
  /\ returned' = [returned EXCEPT ![doc[r]] = @ + amount[r]]
  /\ Journal(r, cut[r]) /\ AdvanceNumber(r)
  /\ dueMinor' = [dueMinor EXCEPT ![doc[r]] = Clamp(@ - cut[r])]
  /\ due' = [due EXCEPT ![doc[r]] = Clamp(@ - cut[r])]
  /\ LowerBalance(cut[r])
  /\ LeaveAdvance(r, amount[r] - cut[r])
  /\ UNCHANGED <<requestVars, draftVars, paid, paidMinor, reversedAt>>

(* Mutant: the invoice keeps its paid amount.                              *)
UndoPayment_InvoiceKept(v) ==
  IF kind[v] = "markPaid"
  THEN /\ reversedAt' = reversedAt \cup {v}
       /\ balance' = balance + amount[v]
       /\ UNCHANGED invoiceVars
  ELSE UNCHANGED <<reversedAt, balance, invoiceVars>>

(* What the reversal of voucher v undoes besides its journal: a payment of *)
(* createPaymentTransaction is taken back, nothing else is.                *)
UndoPayment(v) ==
  IF kind[v] = "markPaid"
  THEN /\ reversedAt' = reversedAt \cup {v}
       /\ balance' = balance + amount[v]
       /\ SetPaid(doc[v], Clamp(paid[doc[v]] - amount[v]))
  ELSE UNCHANGED <<reversedAt, balance, invoiceVars>>

(* Mutant: without idx_vouchers_org_source.                                *)
CommitReversal_NoSource(r) ==
  /\ kind[r] = "reverse"
  /\ Step(r, "ready", "done")
  /\ Journal(r, -arCredit[of[r]])
  /\ UndoPayment(of[r])
  /\ UNCHANGED <<requestVars, draftVars, next, returned, advanceVars>>

(* reverseJournal; the source of a reversal is unique.                     *)
CommitReversal(r) ==
  /\ kind[r] = "reverse" /\ ~Reversed(of[r])
  /\ Step(r, "ready", "done")
  /\ Journal(r, -arCredit[of[r]])
  /\ UndoPayment(of[r])
  /\ UNCHANGED <<requestVars, draftVars, next, returned, advanceVars>>

Read(r)   == \/ ReadOutstanding(r) \/ CheckKey(r) \/ CheckOutstanding(r) \/ CheckAllocation(r)
             \/ ReadAdvance(r) \/ CheckTarget(r) \/ ReadInvoice(r) \/ ReadReturned(r)
             \/ PrepareNumber(r) \/ ReadVoucher(r)
Commit(r) == \/ CommitPayment(r) \/ CommitReceipt(r) \/ CommitApply(r)
             \/ CommitCreditNote(r) \/ CommitReversal(r)

Next == \E r \in Requests : Submit(r) \/ Refuse(r) \/ Read(r) \/ Commit(r)

Spec == Init /\ [][Next]_vars

-----------------------------------------------------------------------------
(* Properties.                                                             *)

SumOf(f, S) == SumFunctionOnSet(f, S)

PostedAs(k) == {r \in posted : kind[r] = k}

Applications(s) == {r \in PostedAs("apply") : of[r] = s}   \* of the advance of s

(* No advance is spent beyond what it is worth, and party_advances agrees  *)
(* with the posted applications, although applyPartyAdvance checks a row   *)
(* that another call may have spent since.                                 *)
AdvancesCovered ==
  \A s \in Requests :
    /\ applied[s] <= advance[s]
    /\ applied[s] = SumOf(amount, Applications(s))
    /\ status[s] = "OPEN" <=> applied[s] < advance[s]

(* However many calls race to reverse a journal, one reversal is posted,   *)
(* and a payment is marked reversed exactly when its reversal is posted:   *)
(* reverseJournal and idx_vouchers_org_source.                             *)
ReversedOnce ==
  /\ \A q, r \in PostedAs("reverse") : of[q] = of[r] => q = r
  /\ \A p \in PostedAs("markPaid") : p \in reversedAt <=> Reversed(p)

(* Marking an invoice paid twice, or twice at once, posts one receipt: the *)
(* idempotency key of updateInvoiceStatus.                                 *)
OneReceiptPerKey == \A p, q \in PostedAs("markPaid") : doc[p] = doc[q] => p = q

(* Voucher numbers are read long before they are used, and yet no two      *)
(* vouchers of a series share one, and the series has moved past all of    *)
(* them, so that a call refused for its number gets a new one on a retry.  *)
FreshNumbers ==
  /\ \A r \in posted : kind[r] \in Numbered => number[r] < next[kind[r]]
  /\ \A q, r \in posted :
       kind[q] = kind[r] /\ kind[r] \in Numbered /\ number[q] = number[r] => q = r

(* "Customer subledger does not agree with Accounts Receivable"            *)
(* (RECEIVABLE_SUBLEDGER_GL of the accounting health report) is never to   *)
(* be reported: the customer's balance is the receivable in the journals.  *)
BooksMatch == ledger = balance

(* The receivable is what the invoices have open, and each invoice adds up: *)
(* paid, credited and open make the total.                                 *)
CreditedOn(i) == SumOf(cut, {r \in PostedAs("creditNote") : doc[r] = i})

InvoicesAddUp ==
  /\ \A i \in Invoices :
       /\ paidMinor[i] + CreditedOn(i) + dueMinor[i] = Total[i]
       /\ paid[i] = paidMinor[i] /\ due[i] = dueMinor[i]
  /\ balance = SumOf(dueMinor, Invoices)

(* Credit notes never take back more than the invoice sold.                *)
ReturnsWithinSold == \A i \in Invoices : returned[i] <= Total[i]

(* Marking invoices paid and reversing those receipts, in any order and at *)
(* once: paid and outstanding make the total, and the books agree for as   *)
(* long as nothing else is called.                                         *)
MarksOrUnmarks(r) ==
  kind[r] = "markPaid" \/ (kind[r] = "reverse" /\ kind[of[r]] = "markPaid")

OnlyMarks == \A r \in Requests : phase[r] # "idle" => MarksOrUnmarks(r)

PaidOrOutstanding ==
  OnlyMarks =>
    /\ \A i \in Invoices : paid[i] + due[i] = Total[i]
    /\ balance = ledger /\ balance = SumOf(due, Invoices)

(* A caller that is told an invoice is paid (payment_status: "paid") is    *)
(* told so when nothing is outstanding on it.                              *)
PaidMeansReceived ==
  [][\A r \in Requests :
       kind[r] = "markPaid" /\ phase'[r] # phase[r] /\ phase'[r] \in {"done", "same"}
         => due'[doc[r]] = 0]_vars

(* The inductive invariant behind the properties of racing calls.          *)
PostedIsDone == posted = {r \in Requests : phase[r] = "done"}

TargetsPosted ==
  \A r \in Requests :
    phase[r] # "idle" /\ kind[r] \in {"apply", "reverse"} => of[r] \in posted

CutsCovered == \A r \in Requests : kind[r] \in {"receipt", "creditNote"} => cut[r] <= amount[r]

IInv == /\ TypeOK /\ PostedIsDone /\ TargetsPosted /\ CutsCovered
        /\ ReversedOnce /\ OneReceiptPerKey /\ FreshNumbers

(* Behind AdvancesCovered: only posted vouchers have an advance, and an    *)
(* application that was checked settles with all it asked for.             *)
AppliesWhole ==
  \A r \in Requests :
    kind[r] = "apply" /\ phase[r] \in {"checked", "ready", "done"} => cut[r] = amount[r]

AdvancesInv ==
  /\ IsFiniteSet(posted)
  /\ \A r \in Requests \ posted : advance[r] = 0 /\ applied[r] = 0
  /\ AppliesWhole /\ AdvancesCovered

(* Behind PaidOrOutstanding: an invoice is paid in full while a receipt    *)
(* that was not taken back is posted for it, and open in full otherwise.   *)
Received(i) == \E p \in PostedAs("markPaid") : doc[p] = i /\ p \notin reversedAt

InvoicesMarked ==
  \A i \in Invoices : /\ due[i] = IF Received(i) THEN 0 ELSE Total[i]
                      /\ paid[i] = IF Received(i) THEN Total[i] ELSE 0

MarkWhole(r) ==
  kind[r] = "markPaid" =>
    /\ phase[r] \in {"looked", "checked", "ready", "done"} => amount[r] = Total[doc[r]]
    /\ phase[r] \in {"ready", "done"} => cut[r] = amount[r]
    /\ phase[r] = "done" => arCredit[r] = cut[r]

MarksInv == /\ InvoicesMarked /\ \A r \in Requests : MarkWhole(r)
            /\ balance = ledger /\ balance = SumOf(due, Invoices)

MarksTrue == OnlyMarks => MarksInv

(* What calls made one after another know while they are under way.        *)
OneAtATime == \A q, r \in Requests : phase[q] \in Active /\ phase[r] \in Active => q = r

ReadCurrent(r) ==
  /\ phase[r] # "idle" => kind[r] \in Operations
  /\ amount[r] <= MaxAmount
  /\ kind[r] = "receipt" /\ phase[r] \in {"checked", "ready"} => cut[r] <= dueMinor[doc[r]]
  /\ kind[r] = "creditNote" /\ phase[r] \in {"looked", "checked", "ready"} =>
       cut[r] <= dueMinor[doc[r]]
  /\ kind[r] = "apply" /\ phase[r] \in {"looked", "checked", "ready"} =>
       amount[r] <= advance[of[r]] - applied[of[r]]
  /\ kind[r] = "apply" /\ phase[r] \in {"checked", "ready"} =>
       cut[r] = amount[r] /\ cut[r] <= dueMinor[doc[r]]

ReadsCurrent == \A r \in Requests : ReadCurrent(r)

CreditsInv ==
  \A r \in Requests : /\ applied[r] <= advance[r]
                      /\ r \notin posted => advance[r] = 0 /\ applied[r] = 0

SerialInv == /\ IInv /\ due = dueMinor
             /\ OneAtATime /\ ReadsCurrent /\ CreditsInv

(* Behind BooksMatch: the receivable is what the invoices have open.       *)
BooksInv == balance = ledger /\ balance = SumOf(dueMinor, Invoices)

Items == INSTANCE OpenItems WITH
           Sources <- Requests,
           MaxCredit <- MaxAmount,
           open <- dueMinor,
           credit <- [r \in Requests |-> advance[r] - applied[r]]

(* Calls that are made one after another settle invoices as OpenItems      *)
(* promises: receipts, advances and credit notes together.                 *)
ItemsSpec == Items!ItemsSpec
=============================================================================
