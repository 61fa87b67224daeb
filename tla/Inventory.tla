------------------------------ MODULE Inventory ------------------------------
(***************************************************************************)
(* The stock of one product and the documents that move it: sales invoices *)
(* (createInvoice), purchases, purchase returns and purchase reversals     *)
(* (createPurchase, createPurchaseReturn, reversePurchase), the goods a    *)
(* credit note takes back (createSalesCreditNote), the stock typed into    *)
(* the product form (saveProduct), stock added, taken out or transferred   *)
(* (createInventoryMovement), invoice cancellation (deleteInvoice), and    *)
(* the numbers invoices are given.                                         *)
(*                                                                         *)
(* A request of localApiFetch reads with separate SELECTs and commits one  *)
(* write transaction; other requests commit between any two of these.      *)
(*                                                                         *)
(* products.stock counts all goods; stock_batches say how much of it is    *)
(* left of each purchase or addition, the rest is loose.  A document has   *)
(* one line, for this product: lines of different products meet only in    *)
(* the transaction, which commits whole or not at all (DesktopWrites).     *)
(* Quantities are whole numbers, there is one warehouse, every purchase    *)
(* gives its batch a batch number of its own, and stock is added to one of *)
(* those or to none.                                                       *)
(***************************************************************************)
EXTENDS Integers, FiniteSets, Functions

CONSTANTS
  Requests,      \* the calls of a behaviour
  Operations,    \* the kinds of calls a behaviour may make
  Years,         \* the open financial years
  InFlight,      \* bound: the calls that run at a time
  Alone,         \* bound: the kinds of calls that only run by themselves
  Opening,       \* the stock when the behaviour begins, all of it loose
  None,          \* no request
  MaxQuantity    \* bound: the largest quantity a request asks for

Numbered == {"sale", "purchase", "return", "creditNote"} \* kinds with a voucher series
Keyed == {"sale", "purchase", "return"}                  \* kinds with an idempotency key
Adjustments == {"stockIn", "stockOut", "transfer"}       \* kinds of createInventoryMovement
Kinds == Numbered \cup Adjustments \cup {"reversal", "edit", "cancel", "numbering"}
Modes == {"CONTINUE", "RESTART"}

ASSUME RequestAssumption == /\ IsFiniteSet(Requests) /\ Years # {}
                            /\ None \notin Requests \cup Years
                            /\ Operations \subseteq Kinds
ASSUME QuantityAssumption == Opening \in Nat /\ MaxQuantity \in Nat /\ InFlight \in Nat
ASSUME AloneAssumption == Alone \subseteq Kinds

VARIABLES
  (* requests *)
  phase,         \* phase[r]: how far r has got
  kind,          \* kind[r]: the endpoint r calls
  of,            \* of[r]: the document r is about; of a sale or an adjustment,
                 \*        the purchase whose batch number it gives
  quantity,      \* quantity[r]: the quantity on its line, the stock typed in
  year,          \* year[r]: the financial year of its date
  key,           \* key[r]: the request whose idempotency key r carries
  wanted,        \* wanted[r]: the numbering mode r asks for
  (* what a request has read *)
  todo,          \* todo[r]: the reads r has yet to make
  stockSeen, batchSeen,   \* products.stock and batch_no
  lotSeen,       \* stock_batches.quantity
  lotsKnown,     \* the batches there were
  openSeen,      \* what is left of the document r is about
  modeSeen,      \* invoice_numbering_mode
  orgSeen, fySeen,        \* the next numbers of the business and of the year
  billSeen,      \* how many documents of its kind there were
  (* what a request writes *)
  label, seq,    \* the number of the invoice: year label, if any, and sequence
  number,        \* the voucher number prepared for r
  (* tables *)
  stock,         \* products.stock
  batch,         \* products.batch_no, as the purchase it was copied from
  lot,           \* lot[p]: stock_batches.quantity of the batch of purchase p
  moved,         \* the sum of stock_movements.quantity
  taken,         \* taken[s][p]: what the movements of sale s took from lot p
  mode,          \* financial_years.invoice_numbering_mode
  orgNext,       \* organizations.next_invoice_number
  fyNext,        \* financial_year_invoice_sequences.next_number
  next           \* accounting_voucher_series.next_number

askVars  == <<kind, of, quantity, year, key, wanted>>
seenVars == <<stockSeen, batchSeen, lotSeen, lotsKnown, openSeen, modeSeen, orgSeen, fySeen, billSeen>>
draftVars == <<label, seq, number>>
stockVars == <<stock, batch, lot, moved, taken>>
invoiceNumberVars == <<mode, orgNext, fyNext>>
vars == <<phase, askVars, todo, seenVars, draftVars, stockVars, invoiceNumberVars, next>>

Phases == {"idle", "active", "done", "same", "failed", "aborted"}
Reads == {"key", "year", "numbers", "stock", "document", "lots", "bill", "voucher"}
Lots == [Requests -> Nat]
NoLots == [p \in Requests |-> 0]

TypeOK ==
  /\ phase \in [Requests -> Phases]
  /\ kind \in [Requests -> Kinds]
  /\ of \in [Requests -> Requests \cup {None}]
  /\ quantity \in [Requests -> Nat]
  /\ year \in [Requests -> Years]
  /\ key \in [Requests -> Requests]
  /\ wanted \in [Requests -> Modes]
  /\ todo \in [Requests -> SUBSET Reads]
  /\ stockSeen \in [Requests -> Nat]
  /\ batchSeen \in [Requests -> Requests \cup {None}]
  /\ lotSeen \in [Requests -> Lots]
  /\ lotsKnown \in [Requests -> SUBSET Requests]
  /\ openSeen \in [Requests -> Int]
  /\ modeSeen \in [Requests -> Modes]
  /\ orgSeen \in [Requests -> Nat]
  /\ fySeen \in [Requests -> Nat]
  /\ billSeen \in [Requests -> Nat]
  /\ label \in [Requests -> Years \cup {None}]
  /\ seq \in [Requests -> Nat]
  /\ number \in [Requests -> Nat]
  /\ stock \in Nat
  /\ batch \in Requests \cup {None}
  /\ lot \in Lots
  /\ moved \in Int
  /\ taken \in [Requests -> Lots]
  /\ mode \in [Years -> Modes]
  /\ orgNext \in Nat
  /\ fyNext \in [Years -> Nat]
  /\ next \in [Numbered -> [Years -> Nat]]

Init ==
  /\ phase = [r \in Requests |-> "idle"]
  /\ kind = [r \in Requests |-> "sale"]
  /\ of = [r \in Requests |-> None]
  /\ quantity = [r \in Requests |-> 0]
  /\ year = [r \in Requests |-> CHOOSE y \in Years : TRUE]
  /\ key = [r \in Requests |-> r]
  /\ wanted = [r \in Requests |-> "CONTINUE"]
  /\ todo = [r \in Requests |-> {}]
  /\ stockSeen = [r \in Requests |-> 0] /\ batchSeen = [r \in Requests |-> None]
  /\ lotSeen = [r \in Requests |-> NoLots] /\ lotsKnown = [r \in Requests |-> {}]
  /\ openSeen = [r \in Requests |-> 0]
  /\ modeSeen = [r \in Requests |-> "CONTINUE"]
  /\ orgSeen = [r \in Requests |-> 0] /\ fySeen = [r \in Requests |-> 0]
  /\ billSeen = [r \in Requests |-> 0]
  /\ label = [r \in Requests |-> None] /\ seq = [r \in Requests |-> 0]
  /\ number = [r \in Requests |-> 0]
  /\ stock = Opening /\ batch = None
  /\ lot = NoLots
  /\ moved = 0
  /\ taken = [r \in Requests |-> NoLots]
  /\ mode = [y \in Years |-> "CONTINUE"]
  /\ orgNext = 1 /\ fyNext = [y \in Years |-> 1]
  /\ next = [k \in Numbered |-> [y \in Years |-> 1]]

(* The posted documents of kind k.                                         *)
Posted(k) == {r \in Requests : phase[r] = "done" /\ kind[r] = k}

-----------------------------------------------------------------------------
(* Submission.                                                             *)

Running == {r \in Requests : phase[r] = "active"}

(* The reads of an endpoint; all but those of createInvoice follow one     *)
(* another in this order.                                                  *)
Order == [key |-> 1, year |-> 2, stock |-> 3, document |-> 4, lots |-> 5, bill |-> 6, voucher |-> 7,
          numbers |-> 8]
ReadsOf(k) ==
  CASE k = "sale"       -> {"key", "year", "numbers", "stock", "lots", "voucher"}
    [] k = "purchase"   -> {"key", "bill", "voucher"}
    [] k = "return"     -> {"key", "stock", "document", "lots", "bill", "voucher"}
    [] k = "reversal"   -> {"document", "lots"}
    [] k = "creditNote" -> {"document", "voucher"}
    [] k = "edit"       -> {"stock"}
    [] k \in Adjustments -> {"stock", "lots"}
    [] k = "cancel"     -> {"document"}
    [] k = "numbering"  -> {"year", "document"}

(* What a call may ask for: documents are picked from those on record.     *)
Asks(k, o, n) ==
  CASE k = "sale"       -> o \in Posted("purchase") \cup {None} /\ n # 0
    [] k = "purchase"   -> o = None /\ n # 0
    [] k = "return"     -> o \in Posted("purchase") /\ n # 0
    [] k = "creditNote" -> o \in Posted("sale") /\ n # 0
    [] k = "reversal"   -> o \in Posted("purchase") /\ n = quantity[o]
    [] k = "cancel"     -> o \in Posted("sale") /\ n = quantity[o]
    [] k = "edit"       -> o = None
    [] k = "transfer"   -> o = None /\ n # 0
    [] k \in {"stockIn", "stockOut"} -> o \in Posted("purchase") \cup {None} /\ n # 0
    [] k = "numbering"  -> o = None /\ n = 0

(* A key is new, or that of an earlier call of the same kind (a retry).    *)
Keys(r, k) ==
  {r} \cup {x \in Requests : k \in Keyed /\ phase[x] # "idle" /\ kind[x] = k /\ key[x] = x}

Fill(r, k, o, n, y) ==
  /\ kind' = [kind EXCEPT ![r] = k]
  /\ of' = [of EXCEPT ![r] = o]
  /\ quantity' = [quantity EXCEPT ![r] = n]
  /\ year' = [year EXCEPT ![r] = y]
  /\ \E x \in Keys(r, k) : key' = [key EXCEPT ![r] = x]
  /\ \E m \in IF k = "numbering" THEN Modes ELSE {"CONTINUE"} :
       wanted' = [wanted EXCEPT ![r] = m]
  /\ todo' = [todo EXCEPT ![r] = ReadsOf(k)]

Submit(r) ==
  /\ phase[r] = "idle" /\ Cardinality(Running) < InFlight
  /\ \A x \in Running : kind[x] \notin Alone
  /\ phase' = [phase EXCEPT ![r] = "active"]
  /\ \E k \in Operations, o \in Requests \cup {None}, n \in 0 .. MaxQuantity, y \in Years :
       (k \in Alone => Running = {}) /\ Asks(k, o, n) /\ Fill(r, k, o, n, y)
  /\ UNCHANGED <<seenVars, draftVars, stockVars, invoiceNumberVars, next>>

(* A call that ends forgets what it has read ...                           *)
Forget(r) ==
  /\ todo' = [todo EXCEPT ![r] = {}]
  /\ stockSeen' = [stockSeen EXCEPT ![r] = 0]
  /\ batchSeen' = [batchSeen EXCEPT ![r] = None]
  /\ lotSeen' = [lotSeen EXCEPT ![r] = NoLots]
  /\ lotsKnown' = [lotsKnown EXCEPT ![r] = {}]
  /\ openSeen' = [openSeen EXCEPT ![r] = 0]
  /\ modeSeen' = [modeSeen EXCEPT ![r] = "CONTINUE"]
  /\ orgSeen' = [orgSeen EXCEPT ![r] = 0]
  /\ fySeen' = [fySeen EXCEPT ![r] = 0]
  /\ billSeen' = [billSeen EXCEPT ![r] = 0]

(* ... and, unless it posts its document, what it would have written.      *)
Discard(r) ==
  /\ Forget(r)
  /\ number' = [number EXCEPT ![r] = 0]
  /\ UNCHANGED <<askVars, label, seq, stockVars, invoiceNumberVars, next>>

(* A check refuses the call, a read fails, or the transaction is rolled    *)
(* back.                                                                   *)
Refuse(r) ==
  /\ phase[r] = "active"
  /\ phase' = [phase EXCEPT ![r] = "failed"]
  /\ Discard(r)

-----------------------------------------------------------------------------
(* The reads.  readNormalizedInvoiceCreationContext issues those of a sale *)
(* together (the voucher number is prepared after them), and so does       *)
(* createInventoryMovement: an order that matters only if other calls run. *)

Together(r) ==
  IF InFlight = 1 THEN {}
  ELSE IF kind[r] = "sale" THEN Reads \ {"voucher"}
  ELSE IF kind[r] \in Adjustments THEN Reads ELSE {}

Reading(r, part) ==
  /\ phase[r] = "active" /\ part \in todo[r]
  /\ \A other \in todo[r] : Order[other] >= Order[part] \/ part \in Together(r)
  /\ todo' = [todo EXCEPT ![r] = @ \ {part}]

(* Mutant: the key is looked up, and unique, among the invoices only.      *)
KeyTaken_SalesOnly(r) ==
  \E x \in Requests : phase[x] = "done" /\ kind[x] = "sale" /\ kind[r] = "sale" /\ key[x] = key[r]

(* The key of r is that of a posted document of the same table.            *)
KeyTaken(r) ==
  \E x \in Requests : /\ phase[x] = "done" /\ kind[x] \in Keyed /\ key[x] = key[r]
                      /\ (kind[x] = "sale") = (kind[r] = "sale")

ReadKey(r) ==
  /\ Reading(r, "key") /\ ~ KeyTaken(r)
  /\ UNCHANGED <<phase, askVars, seenVars, draftVars, stockVars, invoiceNumberVars, next>>

(* A repeated call is answered with the document that has the key.         *)
AnswerSame(r) ==
  /\ phase[r] = "active" /\ "key" \in todo[r] /\ KeyTaken(r)
  /\ phase' = [phase EXCEPT ![r] = "same"]
  /\ Discard(r)

ReadStock(r) ==
  /\ Reading(r, "stock")
  /\ stockSeen' = [stockSeen EXCEPT ![r] = stock]
  /\ batchSeen' = [batchSeen EXCEPT ![r] = batch]
  /\ UNCHANGED <<phase, askVars, lotSeen, lotsKnown, openSeen, modeSeen, orgSeen, fySeen, billSeen, draftVars,
                 stockVars, invoiceNumberVars, next>>

(* The rows of stock_batches, by the call that created them.               *)
Batches == Posted("purchase") \cup {x \in Posted("stockIn") : of[x] = None}

ReadLots(r) ==
  /\ Reading(r, "lots")
  /\ lotSeen' = [lotSeen EXCEPT ![r] = lot]
  /\ lotsKnown' = [lotsKnown EXCEPT ![r] = Batches]
  /\ UNCHANGED <<phase, askVars, stockSeen, batchSeen, openSeen, modeSeen, orgSeen, fySeen, billSeen, draftVars,
                 stockVars, invoiceNumberVars, next>>

(* What was returned of document d, to the supplier or by the customer.    *)
Returned(d) ==
  SumFunctionOnSet(quantity, {x \in Posted("return") \cup Posted("creditNote") : of[x] = d})

Cancelled(p) == \E x \in Posted("reversal") : of[x] = p

(* Mutant: what was returned before is not subtracted.                     *)
Remaining_Whole(r) ==
  IF kind[r] = "numbering" THEN Cardinality({s \in Posted("sale") : year[s] = year[r]})
  ELSE quantity[of[r]]

(* returned_quantity of a POSTED purchase; has_returns; the number of      *)
(* invoices of the year.                                                   *)
Remaining(r) ==
  IF kind[r] = "numbering" THEN Cardinality({s \in Posted("sale") : year[s] = year[r]})
  ELSE IF kind[r] \in {"return", "reversal"} /\ Cancelled(of[r]) THEN 0
  ELSE IF kind[r] = "reversal" /\ Returned(of[r]) # 0 THEN 0
  ELSE quantity[of[r]] - Returned(of[r])

ReadDocument(r) ==
  /\ Reading(r, "document")
  /\ openSeen' = [openSeen EXCEPT ![r] = Remaining(r)]
  /\ UNCHANGED <<phase, askVars, stockSeen, batchSeen, lotSeen, lotsKnown, modeSeen, orgSeen, fySeen, billSeen, draftVars,
                 stockVars, invoiceNumberVars, next>>

ReadYear(r) ==
  /\ Reading(r, "year")
  /\ modeSeen' = [modeSeen EXCEPT ![r] = mode[year[r]]]
  /\ UNCHANGED <<phase, askVars, stockSeen, batchSeen, lotSeen, lotsKnown, openSeen, orgSeen, fySeen, billSeen, draftVars,
                 stockVars, invoiceNumberVars, next>>

(* The sequence of the business and that of the year; only one is used.    *)
ReadNumbers(r) ==
  /\ Reading(r, "numbers")
  /\ orgSeen' = [orgSeen EXCEPT ![r] = orgNext]
  /\ fySeen' = [fySeen EXCEPT ![r] = fyNext[year[r]]]
  /\ UNCHANGED <<phase, askVars, stockSeen, batchSeen, lotSeen, lotsKnown, openSeen, modeSeen, billSeen, draftVars,
                 stockVars, invoiceNumberVars, next>>

(* nextInternalPurchaseNumber: one more than the documents of the kind.    *)
ReadBill(r) ==
  /\ Reading(r, "bill")
  /\ billSeen' = [billSeen EXCEPT ![r] = Cardinality(Posted(kind[r]))]
  /\ UNCHANGED <<phase, askVars, stockSeen, batchSeen, lotSeen, lotsKnown, openSeen, modeSeen, orgSeen, fySeen, draftVars,
                 stockVars, invoiceNumberVars, next>>

ReadVoucher(r) ==
  /\ Reading(r, "voucher")
  /\ number' = [number EXCEPT ![r] = next[kind[r]][year[r]]]
  /\ UNCHANGED <<phase, askVars, seenVars, label, seq, stockVars, invoiceNumberVars, next>>

-----------------------------------------------------------------------------
(* allocateAuthoritativeStock, on what the sale has read: the batches it   *)
(* may take from, oldest first (any order here: purchase dates are free),  *)
(* then loose stock, which is what the batches that remain do not explain. *)

Lesser(m, n) == IF m <= n THEN m ELSE n
Eligible(r) == IF of[r] = None THEN Requests ELSE {of[r]}
FromLots(r) == Lesser(quantity[r], SumFunctionOnSet(lotSeen[r], Eligible(r)))

Splits(r) ==
  {t \in [Requests -> 0 .. quantity[r]] :
     /\ \A p \in Requests : t[p] <= IF p \in Eligible(r) THEN lotSeen[r][p] ELSE 0
     /\ SumFunction(t) = FromLots(r)
     /\ Cardinality({p \in Requests : t[p] \in 1 .. lotSeen[r][p] - 1}) <= 1}

(* Mutant: loose stock is all stock, batches that remain included.         *)
LooseSuffices_Physical(r) ==
  LET rest == quantity[r] - FromLots(r)
  IN  rest = 0 \/ rest <= stockSeen[r] - FromLots(r)

LooseSuffices(r) ==
  LET rest == quantity[r] - FromLots(r)
      left == SumFunction(lotSeen[r]) - FromLots(r)
  IN  \/ rest = 0
      \/ /\ of[r] = None \/ batchSeen[r] = of[r]
         /\ rest <= stockSeen[r] - FromLots(r) - left

-----------------------------------------------------------------------------
(* The constraints and the parts the transactions share.                   *)

(* UNIQUE (organization_id, voucher_number).                               *)
VoucherFree(r) ==
  ~ \E x \in Posted(kind[r]) : year[x] = year[r] /\ number[x] = number[r]

(* UNIQUE (organization_id, bill_number): none was posted since the count. *)
BillFree(r) == billSeen[r] = Cardinality(Posted(kind[r]))

(* The number of the invoice: in a year that restarts, its label and its   *)
(* sequence; otherwise that of the one sequence of the business.           *)
Label(r) == IF modeSeen[r] = "RESTART" THEN year[r] ELSE None
Sequence(r) == IF modeSeen[r] = "RESTART" THEN fySeen[r] ELSE orgSeen[r]

(* UNIQUE (organization_id, invoice_number).                               *)
InvoiceNumberFree(r) ==
  ~ \E s \in Posted("sale") : label[s] = Label(r) /\ seq[s] = Sequence(r)

Larger(m, n) == IF m >= n THEN m ELSE n

(* advanceAccountingVoucherNumber.                                         *)
AdvanceVoucher(r) ==
  next' = [next EXCEPT ![kind[r]][year[r]] = Larger(@, number[r] + 1)]

(* Mutant: the sequence of the invoice's own year is not advanced.         *)
TakeInvoiceNumber_OrgOnly(r) ==
  /\ label' = [label EXCEPT ![r] = Label(r)]
  /\ seq' = [seq EXCEPT ![r] = Sequence(r)]
  /\ orgNext' = Larger(orgNext, Sequence(r) + 1)
  /\ UNCHANGED fyNext

(* MAX(next_number, sequence + 1): a year that restarts advances its own   *)
(* sequence only.                                                          *)
TakeInvoiceNumber(r) ==
  /\ label' = [label EXCEPT ![r] = Label(r)]
  /\ seq' = [seq EXCEPT ![r] = Sequence(r)]
  /\ fyNext' = [fyNext EXCEPT ![year[r]] = Larger(@, Sequence(r) + 1)]
  /\ orgNext' = IF modeSeen[r] = "RESTART" THEN orgNext ELSE Larger(orgNext, Sequence(r) + 1)

(* Mutant: the trigger on products.stock is gone.                          *)
Move_Unguarded(d) == stock' = stock + d /\ moved' = moved + d

(* An UPDATE of stock by d with its movement: stock never goes below zero. *)
Move(d) ==
  /\ stock + d >= 0
  /\ stock' = stock + d
  /\ moved' = moved + d

Commit(r, k) ==
  /\ phase[r] = "active" /\ kind[r] = k /\ todo[r] = {}
  /\ phase' = [phase EXCEPT ![r] = "done"]
  /\ Forget(r)
  /\ UNCHANGED <<askVars, number>>

-----------------------------------------------------------------------------
(* The transactions.                                                       *)

(* Mutant: the stock that was read, less the sale, replaces the stock.     *)
CommitSale_StockAsRead(r) ==
  /\ Commit(r, "sale")
  /\ quantity[r] <= stockSeen[r] /\ LooseSuffices(r)
  /\ ~ KeyTaken(r) /\ InvoiceNumberFree(r) /\ VoucherFree(r)
  /\ stock' = stockSeen[r] - quantity[r] /\ moved' = moved - quantity[r]
  /\ \E t \in Splits(r) :
       /\ \A p \in Requests : t[p] <= lot[p]
       /\ lot' = [p \in Requests |-> lot[p] - t[p]]
       /\ taken' = [taken EXCEPT ![r] = t]
  /\ AdvanceVoucher(r) /\ TakeInvoiceNumber(r)
  /\ UNCHANGED <<batch, mode>>

(* createNormalizedInvoiceAtomic.                                          *)
CommitSale(r) ==
  /\ Commit(r, "sale")
  /\ quantity[r] <= stockSeen[r] /\ LooseSuffices(r)
  /\ ~ KeyTaken(r) /\ InvoiceNumberFree(r) /\ VoucherFree(r)
  /\ Move(- quantity[r])
  /\ \E t \in Splits(r) :
       /\ \A p \in Requests : t[p] <= lot[p]
       /\ lot' = [p \in Requests |-> lot[p] - t[p]]
       /\ taken' = [taken EXCEPT ![r] = t]
  /\ AdvanceVoucher(r) /\ TakeInvoiceNumber(r)
  /\ UNCHANGED <<batch, mode>>

(* createPurchase: a new batch, whose number the product takes over.       *)
CommitPurchase(r) ==
  /\ Commit(r, "purchase")
  /\ ~ KeyTaken(r) /\ BillFree(r) /\ VoucherFree(r)
  /\ Move(quantity[r])
  /\ lot' = [lot EXCEPT ![r] = quantity[r]]
  /\ batch' = r
  /\ AdvanceVoucher(r)
  /\ UNCHANGED <<taken, label, seq, invoiceNumberVars>>

(* createPurchaseReturn: batch and stock are checked as they were read;    *)
(* each UPDATE does nothing when its row has less by now, and the movement *)
(* is posted all the same.                                                 *)
CommitReturn(r) ==
  /\ Commit(r, "return")
  /\ quantity[r] <= openSeen[r]
  /\ quantity[r] <= stockSeen[r] /\ quantity[r] <= lotSeen[r][of[r]]
  /\ ~ KeyTaken(r) /\ BillFree(r) /\ VoucherFree(r)
  /\ lot' = [lot EXCEPT ![of[r]] = IF @ >= quantity[r] THEN @ - quantity[r] ELSE @]
  /\ stock' = IF stock >= quantity[r] THEN stock - quantity[r] ELSE stock
  /\ moved' = moved - quantity[r]
  /\ AdvanceVoucher(r)
  /\ UNCHANGED <<batch, taken, label, seq, invoiceNumberVars>>

(* The batch of the first movement of the invoice with enough goods, in    *)
(* the order of their random ids; none if that one, or none, is loose.     *)
Restores(r) ==
  LET s == of[r]
      loose == quantity[s] - SumFunction(taken[s])
      enough == {p \in Requests : taken[s][p] >= quantity[r]}
  IN  enough \cup (IF loose >= quantity[r] \/ enough = {} THEN {None} ELSE {})

(* createSalesCreditNote, the stock: no batch without a movement.          *)
CommitCreditNote(r) ==
  /\ Commit(r, "creditNote")
  /\ quantity[r] <= openSeen[r]
  /\ VoucherFree(r)
  /\ Move(quantity[r])
  /\ \E p \in Restores(r) :
       lot' = [x \in Requests |-> IF x = p THEN lot[x] + quantity[r] ELSE lot[x]]
  /\ AdvanceVoucher(r)
  /\ UNCHANGED <<batch, taken, label, seq, invoiceNumberVars>>

(* reversePurchase: the journal REV-... is posted once, and CHECK and      *)
(* trigger refuse what is no longer there.                                 *)
CommitReversal(r) ==
  /\ Commit(r, "reversal")
  /\ openSeen[r] # 0 /\ quantity[r] <= lotSeen[r][of[r]]
  /\ ~ Cancelled(of[r])
  /\ quantity[r] <= lot[of[r]]
  /\ lot' = [lot EXCEPT ![of[r]] = @ - quantity[r]]
  /\ Move(- quantity[r])
  /\ UNCHANGED <<batch, taken, label, seq, invoiceNumberVars, next>>

(* saveProduct: the form's stock and the product as it was read replace    *)
(* the row; the movement is the difference to the stock that was read.     *)
CommitEdit(r) ==
  /\ Commit(r, "edit")
  /\ stock' = quantity[r] /\ moved' = moved + quantity[r] - stockSeen[r]
  /\ batch' = batchSeen[r]
  /\ UNCHANGED <<lot, taken, label, seq, invoiceNumberVars, next>>

(* The batches as createInventoryMovement writes them back: as it read     *)
(* them, with what it adds (to the batch with the number given, else to a  *)
(* new one) or with what it takes out, allocated like a sale.              *)
Rebatched(r) ==
  CASE kind[r] = "transfer" -> {lotSeen[r]}
    [] kind[r] = "stockIn"  -> LET added == IF of[r] = None THEN r ELSE of[r]
                               IN  {[lotSeen[r] EXCEPT ![added] = @ + quantity[r]]}
    [] kind[r] = "stockOut" -> {[p \in Requests |-> lotSeen[r][p] - t[p]] : t \in Splits(r)}

Delta(r) ==
  CASE kind[r] = "transfer" -> 0
    [] kind[r] = "stockIn"  -> quantity[r]
    [] kind[r] = "stockOut" -> - quantity[r]

(* createInventoryMovement: product and batches as they were read are      *)
(* written back with the change; batches it does not know stay.            *)
CommitAdjustment(r) ==
  /\ kind[r] \in Adjustments /\ Commit(r, kind[r])
  /\ kind[r] = "stockIn" \/ quantity[r] <= stockSeen[r]
  /\ kind[r] = "stockOut" => LooseSuffices(r)
  /\ stock' = stockSeen[r] + Delta(r) /\ moved' = moved + Delta(r)
  /\ batch' = IF of[r] = None THEN batchSeen[r] ELSE of[r]
  /\ \E l \in Rebatched(r) :
       lot' = [p \in Requests |-> IF p \in lotsKnown[r] \cup {r} THEN l[p] ELSE lot[p]]
  /\ UNCHANGED <<taken, label, seq, invoiceNumberVars, next>>

(* deleteInvoice: after restoring the stock the transaction updates the    *)
(* invoice's items, which trg_sales_posted_item_update aborts while the    *)
(* journal of the invoice is posted, and createInvoice posts it: the       *)
(* transaction is always rolled back.                                      *)
AbortCancel(r) ==
  /\ phase[r] = "active" /\ kind[r] = "cancel" /\ todo[r] = {}
  /\ phase' = [phase EXCEPT ![r] = "aborted"]
  /\ Discard(r)

(* setFinancialYearNumberingMode.                                          *)
CommitNumbering(r) ==
  /\ Commit(r, "numbering")
  /\ openSeen[r] = 0 \/ modeSeen[r] = wanted[r]
  /\ mode' = [mode EXCEPT ![year[r]] = wanted[r]]
  /\ fyNext' = IF wanted[r] = "RESTART" THEN [fyNext EXCEPT ![year[r]] = 1] ELSE fyNext
  /\ UNCHANGED <<label, seq, stockVars, orgNext, next>>

-----------------------------------------------------------------------------
Read(r) ==
  \/ ReadKey(r) \/ AnswerSame(r) \/ ReadStock(r) \/ ReadLots(r)
  \/ ReadDocument(r) \/ ReadYear(r) \/ ReadNumbers(r)
  \/ ReadBill(r) \/ ReadVoucher(r)

Transaction(r) ==
  \/ CommitSale(r) \/ CommitPurchase(r) \/ CommitReturn(r) \/ CommitCreditNote(r)
  \/ CommitReversal(r) \/ CommitEdit(r) \/ CommitAdjustment(r) \/ AbortCancel(r) \/ CommitNumbering(r)

Next == \E r \in Requests : Submit(r) \/ Refuse(r) \/ Read(r) \/ Transaction(r)

Spec == Init /\ [][Next]_vars

-----------------------------------------------------------------------------
(* Every unit of products.stock is explained by a stock movement: what a   *)
(* request read before its transaction must not decide what it writes.     *)
StockIsMoved == stock = Opening + moved

(* The batches never hold more than there is (inventoryAvailability calls  *)
(* this consistent): otherwise goods are sold that are not there, or loose *)
(* stock is hidden.  The product form can type less than the batches hold. *)
LotsCovered == Posted("edit") = {} => SumFunction(lot) <= stock

(* A document is posted once however often its call is retried, in turn or *)
(* at the same time: one document per idempotency key.                     *)
OneDocumentPerKey ==
  \A x, y \in UNION {Posted(k) : k \in Keyed} :
    (key[x] = key[y] /\ (kind[x] = "sale") = (kind[y] = "sale")) => x = y

(* What goes back, to a supplier or from a customer, was bought or sold on *)
(* the document it is returned against, and is not on a reversed purchase. *)
ReturnsTraced ==
  \A d \in Requests : /\ Returned(d) <= quantity[d]
                      /\ Cancelled(d) => Returned(d) = 0

(* Behind these: a call names a document on record, and, of calls made one *)
(* after another, what the call that runs has read is still so, and a batch*)
(* with goods in it, or taken from, is one on record.                      *)
DocumentsNamed ==
  \A r \in Requests :
    phase[r] # "idle" =>
      /\ kind[r] \in {"return", "reversal"} => of[r] \in Posted("purchase")
      /\ kind[r] \in {"creditNote", "cancel"} => of[r] \in Posted("sale")
      /\ kind[r] = "stockIn" => of[r] \in Posted("purchase") \cup {None}
      /\ kind[r] \in {"return", "creditNote"} => quantity[r] # 0

OneAtATime == \A q, r \in Running : q = r

ReadCurrent(r) ==
  LET read == ReadsOf(kind[r]) \ todo[r]
  IN  phase[r] = "active" =>
        /\ "stock" \in read => stockSeen[r] = stock
        /\ "lots" \in read => lotSeen[r] = lot /\ lotsKnown[r] = Batches
        /\ "document" \in read => openSeen[r] = Remaining(r)

BatchesOnRecord ==
  \A p \in Requests : lot[p] # 0 \/ (\E s \in Requests : taken[s][p] # 0) => p \in Batches

SerialInv == /\ DocumentsNamed /\ OneAtATime /\ \A r \in Requests : ReadCurrent(r)
             /\ ReturnsTraced /\ BatchesOnRecord /\ LotsCovered

(* The next number of a sequence is beyond all it has given out: else it   *)
(* will be refused as a duplicate and the year can issue no more invoices. *)
Ahead(s) == seq[s] < IF label[s] = None THEN orgNext ELSE fyNext[label[s]]
SequencesAhead == \A s \in Posted("sale") : Ahead(s)

(* That, provided the numbering of a year is restarted once at most, and   *)
(* that no two invoices have the same number.                              *)
Restarts(y) == {r \in Requests : phase[r] # "idle" /\ kind[r] = "numbering" /\ wanted[r] = "RESTART" /\ year[r] = y}
NumbersFresh ==
  /\ \A s \in Posted("sale") : (\A x, y \in Restarts(label[s]) : x = y) => Ahead(s)
  /\ \A s, t \in Posted("sale") : label[s] = label[t] /\ seq[s] = seq[t] => s = t

(* RELEASE_NOTES.md: invoice cancellation atomically restores stock.       *)
CancellationRestores == \A r \in Requests : phase[r] # "aborted"
=============================================================================
