# Verification of Bezgrow

TLA+ specifications of Bezgrow, a local-first accounting and billing
application: a Next.js page inside a Tauri shell, over one SQLite database on
the user's computer. Each module is translated from the source; TLC checks it
on small instances, and TLAPS proves the main invariants for every value of the
constants, and that the write path and the settling of invoices implement their
abstract specifications. Paths below are those of the repository (`lib/...`, `src-tauri/...`).

Contents: [1 The system](#1-the-system), [2 Modules](#2-modules),
[3 Runs](#3-runs), [4 Proofs](#4-proofs), [5 Findings](#5-findings),
[6 Not modelled](#6-not-modelled), [7 Plan](#7-plan).

## 1 The system

There is no server-side database of invoices: what the page commits to SQLite is
the business. Every request of the user interface goes to `localApiFetch`
(`lib/offline/local/api.ts`), which dispatches to a handler. A handler is an
async function. It reads with several separate SELECTs, computes, and commits
**one** write transaction at the end. Nothing holds the database between the
reads and the transaction, so any other handler may commit between any two
steps. What stands between a stale read and a wrong book is what the
transaction itself does again: conditional and relative UPDATEs, unique
indexes, CHECKs, triggers. That is the recurring hazard of this code, and three
of the eight models are about it. A fourth is about the transaction itself. The
other four are about what surrounds the database: the server process that serves
the page, the files that go into a backup, the password at the door, and the
licence that lets a write through. Their hazard is another one: two or three
stores that must say the same (a row, a file, the operating system's secret
store, the memory of the page), changed one after the other, with a crash, a
failure or a second caller in between.

| component | state | operations | what is hard | what makes it correct |
|---|---|---|---|---|
| **Write path** `service.ts`, `lib.rs` | `transactionTail`, the connection, the native guard's counter, `update_preparing`, SQLite's lock | `transaction`, `execute`, `desktop_execute(_transaction)`, `desktop_prepare_update`, orderly shutdown | queue of promises, retries, page reloads, crashes, two atomics read and written in turn | batches whole and once, answers true, no write while an update is prepared, no call waits for ever |
| **Receivables** `erp.ts`, `repositories.ts`, `accounting*.ts` | invoices (rupees and minor units), customer balance, journals, voucher series, advances, credit notes | mark paid, receipt, apply advance, credit note, reverse journal | stale reads, two sets of columns, retries with idempotency keys | subledger = ledger, invoices add up, one reversal, one receipt per key, fresh voucher numbers |
| **Stock and documents** `api.ts`, `accounting-phase2.ts`, `inventory-availability.ts`, `schema.ts` | `products.stock`, batches, movements, invoice and voucher sequences, numbering mode | sale, purchase, return, reversal, credit note, product form, cancel, numbering mode | allocation from stale reads, conditional updates whose outcome is ignored, triggers | every unit of stock explained by a movement, batches covered, one document per key, numbers unique |
| **Financial years** `financial-years.ts`, `schema.ts` | `financial_years` (status, `is_active`), summaries, opening balances, opening journal | list, dated document, start next, close, reopen | the date changes under a running call; a backup between a check and its use | operational year open and unique, closed years frozen, balances carried exactly once |
| **Licensing on the device** `lib/offline/local/license.ts`, `lib/license/policy.ts` | the row in `license_state`, the key in the secret store, its copy in memory | check in, activate, restore from the secret, remove, fetch the key for a native write | three copies written in turn, the rows in several transactions, a roll-back of the other two only, whole-row read-modify-write against a status reported meanwhile | the guard of the page and the guard of the native database agree; the device comes to hold what the control plane says |
| Licence control plane `supabase/migrations`, `app/api/admin` | licences, devices, mutations by idempotency key | renew, suspend, replace, check in, grant a trial | optimistic lock on `updated_at`, repeated requests | modelled as what it tells a device (`Licensing`, `AppLock`) |
| **App lock** `lib/app-lock`, `AppLockGate.tsx` | credential, watermark, gate | provision, reset, change, create, unlock, lock | licences late, twice and out of order; a reset under a verification; two stores | an older password never comes back, open for the current password only, a reset received in time takes effect |
| **Runtime supervisor** `lib.rs` | child process slot, ownership file, `shutting_down`, windows | launch with retries, supervise, Retry, recover a recorded server, shut down | two threads that launch, stop and replace one process; a killed shell | at most one server, none left behind unrecorded, the right one stopped, a way back for the user |
| **Backup, restore** `lib.rs`, `lib/offline/db.ts`, settings page | database and its WAL, assets, packages, safety copies | export, restore, roll back; change the logo | two stores replaced in turn, failures on the way back, crashes, a WAL behind the main file | packages complete, a failed restore undone but for what the code does not undo, a successful one exact |
| Updates `DesktopUpdateCoordinator.tsx`, `lib/desktop/update-state.ts` | `installing`, pending restart, `update_preparing` | prepare, download, install, restart, report | a page that goes away half-way | an update is reported as installed when it is |
| Startup, onboarding `lib/startup`, `lib/onboarding` | onboarding stage, entitlement, lock status | resolve the screen, resume | a stop between two stages | every stored state leads to a screen from which the user can go on |
| Whole-collection writes `erp.ts`, `api.ts`, `repositories.ts` | products, orders, expenses, vouchers, settings | adjust stock (in `Inventory`), expenses, quotations, vouchers | every row written back as it was read | nobody else's rows are undone |
| Releases, administration, screens, printing, scripts | | | | see section 6 |

How they meet: all handlers write through `LocalDatabaseService.transaction`,
whose batch the shell runs as one `BEGIN IMMEDIATE ... COMMIT`. The models of
handlers therefore take a commit as one step. That is what `DesktopWrites`
shows to be true (`AtomicStore`: whole, once, answered truthfully), and it is
the assumption that composes the modules: a *Commit* of `Receivables`,
`Inventory` or `FinancialYears` is an *Apply* of `AtomicStore`, a *Refuse* is a
*Reject*. Receipts and sales take voucher numbers from the same series table, a
credit note both settles (`Receivables`) and restores goods (`Inventory`), and
every dated document passes the year check (`FinancialYears`). A write also
passes the two guards of `Licensing`, the page's and the native one, whose
agreement is its first property. The licences of `Licensing` carry the app locks
of `AppLock`; a key whose reset `AppLock` refuses is a key that `Licensing` does
not install (`refused`). A restore of `Backup` runs into the triggers of
`FinancialYears`, and puts back a watermark of `AppLock` (`Restore` there).
`RuntimeSupervisor` ends in the shutdown barrier of `DesktopWrites`.

## 2 Modules

| module | what it is |
|---|---|
| `AtomicStore` | what a write transaction promises its caller |
| `DesktopWrites`, `DesktopWrites_proofs`, `MCDesktopWrites` | the queue, the native commands, the guard, update preparation, reloads, stops |
| `OpenItems` | what settling a customer's invoices promises |
| `Receivables`, `Receivables_proofs`, `MCReceivables` | settling invoices with calls in flight |
| `Inventory`, `Inventory_proofs`, `MCInventory` | stock, documents and numbers with calls in flight |
| `FinancialYears`, `FinancialYears_proofs`, `MCFinancialYears` | the years, the date and the books they carry |
| `RuntimeSupervisor`, `RuntimeSupervisor_proofs` | the server process, its two launching threads, its recovery over shells |
| `Backup`, `Backup_proofs`, `MCBackup` | packages, safety copies, restores and their failures |
| `AppLock`, `AppLock_proofs`, `MCAppLock` | the password at the door and where it comes from |
| `Licensing`, `Licensing_proofs`, `MCLicensing` | the three copies of the licence and their check-ins |

Every definition that models code is listed with its lines in `PROJECT.json`
("map"). Definitions whose name has an underscore (`Recheck_Once`,
`Closing_OwnEntries`) are *mutants*: the definition before or after them with
one plausible mistake. No behaviour uses them; they record, for each property,
a mistake it would catch.

Six *history variables* record what a property excepts, each at the step where
it happens, so that the exception is part of the statement and not of the
bounds: `lost` and `early` (`RuntimeSupervisor`), `torn` (`Backup`), `crossed`
and `split` (`Licensing`), `ticket`/`issued` (`DesktopWrites`, for the order). What happens
within an exception is said in section 5.

### DesktopWrites

`js[c]` is the promise of call `c` in the page, `native[c]` the native command
running for it; a page that is reloaded loses the former and not the latter.
`tail` and `prev[c]` are `transactionTail` and the value a call captured of it,
`released` the calls whose `release()` ran. `active` is the set the native
counter counts, `preparing` is `update_preparing`, `writer` the holder of
SQLite's write lock, `rows[c]` how many statements of `c` are committed.

| actions | code |
|---|---|
| `Call`, `Invoke`, `InvokeNothing`, `WorkFails`, `Answer` | `LocalDatabaseService.transaction` and `execute`, `executeNativeTransaction` |
| `Retry` | `withTemporaryLockRetry`; `execute` retries around a connection that retries, hence `Attempts` |
| `CheckFlag`, `CountIn`, `Recheck` | the two loads and the `fetch_add` of `begin_critical_operation` |
| `NotBegun`, `BeginImmediate`, `Statement`, `RollBack`, `Commit` | `desktop_execute_transaction`, `execute_transaction_at_path` |
| `ClaimUpdate`, `LookAtOperations`, `PreparationFails/Succeeds`, `CancelUpdate` | `desktop_prepare_update`, `installUpdate`, `desktop_cancel_update_preparation` |
| `Reload`, `BeginShutdown`, `Stop`, `Start` | page reload, orderly shutdown, end or crash of the process |

Data are left out: a batch is a number of statements. `ticket` and `issued`
are history variables for the order of calls. Each call is issued once.

### Receivables

A request is one call of a handler. `phase[r]` says how far it has got;
`cut[r]` and `number[r]` are what it computed from what it read. Amounts are in
minor units, and `paid`/`due` against `paidMinor`/`dueMinor` are the two pairs
of columns the code keeps (rupees, minor units), which different handlers
update differently. `posted` is the journal: a posted request is its voucher.

| actions | code |
|---|---|
| `ReadOutstanding`, `CheckKey`, `CheckOutstanding`, `CommitPayment` | `updateInvoiceStatus`, `createPaymentTransaction`, `createNormalizedPaymentAtomic` |
| `CheckAllocation`, `PrepareNumber`, `CommitReceipt` | `createPartyPayment` |
| `ReadAdvance`, `CheckTarget`, `CommitApply` | `applyPartyAdvance` |
| `ReadInvoice`, `ReadReturned`, `CommitCreditNote` | `createSalesCreditNote` (the money) |
| `ReadVoucher`, `CommitReversal` | `reverseJournal` |
| `Refuse` | any check that throws, any failed read, any rolled-back transaction |

`Overlap = FALSE` lets a call begin only when the others are answered.

### Inventory

One product in one warehouse. `stock` is `products.stock`, `lot[p]` the batch
that purchase `p` created, `moved` the sum of the stock movements, `taken[s][p]`
what sale `s` took from that batch. `todo[r]` holds the reads a request still
has to make: those of a sale may come in any order, because
`readNormalizedInvoiceCreationContext` issues them together (an order that only
matters, and is only free, when calls overlap: `Together`); those of the others
follow one another. `Splits` and `LooseSuffices` are
`allocateAuthoritativeStock`: batches first, then loose stock, where loose is
what the batches do not explain. Purchase dates are free, so the order of the
batches is any order. `label`/`seq` are an invoice number as the pair it is
formatted from.

`CommitSale`, `CommitPurchase`, `CommitReturn`, `CommitCreditNote`,
`CommitReversal`, `CommitEdit`, `CommitNumbering` are the transactions of
`createInvoice`, `createPurchase`, `createPurchaseReturn`,
`createSalesCreditNote` (the goods), `reversePurchase`, `saveProduct`,
`setFinancialYearNumberingMode`; `AbortCancel` is that of `deleteInvoice`, which
a trigger always rolls back (section 5). `CommitAdjustment` is that of
`createInventoryMovement`: stock added, taken out or transferred within the
warehouse. It writes the product and every batch back as they were read
(`stockSeen`, `lotSeen`, `lotsKnown`), with the change on top (`Delta`): goods
with the batch number of a purchase are added to its batch, goods taken out come
from any of the batches it allocates from (`Rebatched`). A sale too may name the
batch number it is to be served from (`of`).

### FinancialYears

Time is counted in half-years. That is the coarsest unit in which a year that
begins in April differs from one that begins in October and has an inside: a
year is two units, named by its first. `now` may advance between any two steps
of any call; `date[c]` is the date a call took when it began. `entries[y]` are
the documents of a year (one unit each, one customer), `opening[y]` the
opening-balance rows, `carried[y]` the `YEAR_OPENING` journal, `summary[y]` the
`close_summary_json`.

| actions | code |
|---|---|
| `ReadRows`, `ReadRowsAstray`, `ReadNoRows`, `EnsureCurrent`, `CommitReconcile` | `reconcileOperationalFinancialYear`, `ensureCurrentFinancialYear` |
| `ReadYear`, `CommitPost` | `assertFinancialYearWriteAllowed`, a document's transaction under the closed-year triggers |
| `ReadSource`, `ReadNext`, `ReadCount`, `ReadBalances`, `CommitStart` | `createNextFinancialYear` |
| `ReadOpen`, `ReadSummary`, `CommitClose` | `closeFinancialYear` |
| `ReadClosed`, `CommitReopen` | `reopenFinancialYear` |

Documents are dated on the day of their call.

### RuntimeSupervisor

`pc[t]` is the step of the two threads that launch: `"main"`, which runs Tauri's
setup, the commands and the window and exit events one after the other, and
`"sup"`, the supervisor. Servers are numbered as they are spawned; `owner[s]` is
the shell that spawned `s`. `slot` is `NextServerState.process`, `held[t]` the
`Child` a thread has taken out of it into a local, `mutex` the startup mutex,
`closing` is `shutting_down`, `record` the server that the ownership file
(`runtime.json`) names. `window`, `armed` and `clicked` are the window the
user sees, the Retry button and an invoked `desktop_retry_startup`. What the
main thread does to a window happens at once; what the supervisor asks of one
(`asked`) is done by Tauri's event loop when the main thread is free (`Open`,
`Apply`). Were it done at once, the supervisor could open the recovery window
between the main thread's launch and its own ERP window over it, and the user
would be left without either; `RuntimeSupervisor_faults.cfg` shows that the
order of the event loop excludes that.

| actions | code |
|---|---|
| `Lock`, `Take`, `Serve`, `GiveUp`, `Recover`, `Spawn`, `Record` | `start_server_with_retries`, `start_next_server`, `recover_recorded_runtime`, `write_runtime_state`, `wait_for_local_server` |
| `Show`, `Fail`, `Apply`, `Click`, `Retry` | `launch_desktop_ui`, its callers, the event loop, the recovery window |
| `Wake`, `Check`, `Seize`, `Reap`, `Hide` | the loop of `start_runtime_supervisor` |
| `Close`, `Swap`, `Stop`, `Finish`, `Exit` | `orderly_shutdown` on its three occasions, `stop_next_server` |
| `Killed`, `Start`, `Fault` | a killed shell, the next one, a server that hangs or dies |

The health check of a server is one bit (`answering`); time is left out, so that
a delay may be any. A server may hang, die, or never become ready at any moment.
Modelled is the build for macOS; on Windows a job object kills the server with
its shell, which removes the orphans and leaves the rest as it is.

### Backup

`db` is what a reader of the database sees, `main` what its main file holds: in
WAL mode a commit is in the first at once and in the second after a checkpoint.
A snapshot is a checkpoint and a copy of `main`, and `Checkpoint` may happen at
any moment before the copy. `assets` are the files under `business-assets`; the
only file that the database names and that can change is the logo. `export` and
`restore` are the operations under way with their steps, and `restore` holds the
package, the two safety copies, (`origin`, `files`) what there was when it was
asked for, and (`broken`) what went wrong that nothing undoes.

| actions | code |
|---|---|
| `Write`, `StartYear`, `CloseYear`, `Checkpoint` | the business at work, the triggers of `schema.ts` that protect closed years |
| `PickLogo`, `SaveLogo`, `RemoveOldLogo` | `uploadLogo` and `clearLogo` of the settings page |
| `StartExport`, `ExportCheckpoint`, `ExportCopy`, `Pack` | `desktop_export_backup`, `create_consistent_database_snapshot` |
| `StartRestore` ... `Verify` | `desktop_restore_backup`, `restore_database_contents` |
| `FailEarly`, `FailClear`, `FailFill`, `FailContents`, `FailDetach`, `FailVerify` | its failures, with what each puts back (`PutBack`) and what it cannot: a directory removed in part, a put-back that fails unseen, a DETACH that fails after the COMMIT |
| `Crash` | the application stops; committed data and files stay, also those of a step half-way |

Documents may be written at any moment, in particular between the snapshot, the
copies and the replacement. Logo change, closing, export and restore exclude one
another unless `Overlap`: each is started by hand, and the runs assume a user who
waits for one before asking for the next. No lock in the code does (section 5).

### AppLock

A credential is the moment at which it was made; knowing a password is knowing
which credential it belongs to. `cred` is the entry in the operating system's
store, `mark` the watermark in SQLite, `backup` a watermark in a backup,
`issued` the app locks that licences carry, of which the device may see any, any
number of times, in any order. `writing` is what is left to do of the credential
change under way (`serializeCredentialMutation` runs one at a time): the event
to the gate and the watermark, in the order of the function that makes it.
`DeviceTime` is `now + Skew`: the device's clock need not be the server's.

| actions | code |
|---|---|
| `Sign`, `Tick` | the server signs an app lock, time passes |
| `Decision`, `Provision`, `Repair` | `appLockProvisioningDecision`, `provisionAppLockFromLicense` |
| `ChangePassword`, `CreatePassword` | `changeAppPassword`, `createLocalAppPassword` |
| `WriteMark`, `Announce` | the watermark, `APP_LOCK_CREDENTIAL_CHANGED_EVENT` |
| `Load`, `Look`, `Refresh`, `Enter`, `Open`, `Lock` | `AppLockGate`: what it reads, shows and verifies |
| `Stop`, `Lose`, `BackUp`, `Restore` | a stop, a lost credential, a restored database |

### Licensing

Keys of the one licence are numbered in the order in which they are signed, and
expire in that order. `row` is the row of `license_state`: there is one for a
licence, and it belongs to the organization (`place`) it was written for last,
the business or `global`; a key is written for each in turn, each time in a
transaction of its own (`After`). `secret` is the entry in the secret store, `memory` the key in the page's memory that every native write
carries, `fetch` a read of the store for it. `Callers` are the check-ins,
activations and removals that may overlap: each screen that shows the licence
starts its own, and so does a timer.

| actions | code |
|---|---|
| `Sign`, `Suspend`, `Expire` | the control plane, the calendar |
| `Look`, `WriteRow`, `Restored`, `FailRestore`, `Answer` | `getLocalLicenseStatus`, `restoreLicenseRowsFromDesktopSecret`, the report of a check-in and its answer |
| `ReadPrevious`, `WriteSecret`, `WriteRow`, `Installed`, `RollBack` | `installRefreshedLicenseKey`, `activateOfflineLicense` |
| `ReadRow`, `WriteStatus` | `persistAuthoritativeLicenseStatus` |
| `Activate`, `Remove`, `RemoveRow`, `Forget` | an imported key, `removeLocalLicenseFromDevice` |
| `Fetch`, `Fetched` | `getNativeEntitlementKey` |
| `Fail`, `FailWrite`, `Crash` | no connection, a refusing database, a stop |

The transactions on the row are themselves native writes, and the native guard
admits them only with a key that has not expired (`Admits`). `RollBack` puts
back the secret and memory, the former with no look at the result, and leaves
the rows of the targets before: what the code does, and what `split` records.

## 3 Runs

Between them the runs fire every action. Deadlock is checked in
`DesktopWrites_calls` and in the runs of `FinancialYears`, whose calls return and
are made again. It is not checked where behaviours end because bounded calls,
shells, moments or events are used up (`Receivables`, `Inventory`,
`RuntimeSupervisor`, `Backup`, `AppLock`, `Licensing`), nor in
`DesktopWrites_live`, where a reload can leave `update_preparing` raised for good
(section 5). Symmetry is over calls or file names, and only in runs without
liveness.

| run | question | instance |
|---|---|---|
| `DesktopWrites_calls` | Are batches whole and once (`WholeOnce`), answers true (`AnswersHonest`), the queue serial (`SerialQueue`), updates quiet (`PreparedQuiet`), no transaction open that the shutdown does not wait for (`WriterCounted`), and is this `AtomicStore` (`StoreSpec`)? | two queued batches (2 and 1 statements), a direct write, 2 attempts, one stop, no reload |
| `DesktopWrites_live` | Does every call settle (`EveryCallSettles`), also behind an empty or failed batch, or is it lost with its page? | an empty batch, a batch, a direct write, one reload |
| `Receivables_races` | What holds however calls race: `AdvancesCovered`, `ReversedOnce`, `OneReceiptPerKey`, `FreshNumbers`, and `PaidOrOutstanding` for marking and unmarking? | one invoice of 2, three calls of the five kinds |
| `Receivables_serial` | Do calls made one after another keep `BooksMatch`, and implement `OpenItems` (`ItemsSpec`)? | two invoices (2 and 1), three calls: receipts, advances, credit notes |
| `Inventory_races` | Do stock (`StockIsMoved`), keys (`OneDocumentPerKey`) and numbers (`NumbersFresh`) survive two calls in flight? | three calls of the eleven kinds, quantity 1; returns, product form and adjustments run by themselves (`Alone`) |
| `Inventory_serial` | Are batches covered (`LotsCovered`) and returns traced (`ReturnsTraced`) over longer sequences? | four calls one at a time, quantities to 2, adjustments included |
| `FinancialYears_races` | Is the operational year open and unique (`ActiveIsOpen`), are closed years frozen (`ClosedFrozen`), whatever races? | two calls in flight, five half-years, two documents |
| `FinancialYears_serial` | Are balances and journals carried exactly once (`BooksContinue`, with `JournalContinues`), summaries true (`SummaryTrue`), also when an existing year is rebuilt? | one call at a time, seven half-years, three documents |
| `RuntimeSupervisor_recovery` | One server at a time (`OneServer`), orphans on record (`OrphansRecorded`), successors spared (`SparesSuccessor`), a way back for the user (`Recovers`)? | two shells, 2 attempts, 2 misses, 3 faults, one click on Retry |
| `Backup_writes` | Packages and copies complete (`SnapshotsComplete`), failed restores undone but for what is named (`FailureKeepsAll`), successful ones exact (`SuccessIsExact`), the logo on disk (`LogoOnDisk`)? | one document and year, two logo files, two packages, two restores, two failing operations, one crash |
| `AppLock_resets` | Does no older password come back (`NeverOlder`), is the workspace open for the current one only (`OpenForCurrent`), does a reset take effect (`ResetTakesEffect`)? | one licence, five moments, resets fresh for two, one fault |
| `Licensing_checkins` | Do the two guards agree (`WritesAgree`), does the device come to hold what the control plane says (`Converges`)? | two callers, two keys, three events (below) |

**Why the bounds are enough.** *Calls.* Every hazard of the handlers is between
one reader and one committer, so two calls in flight meet all of them; the third
and fourth calls of the runs give the two something to act on (a purchase to
return, a payment to reverse, a batch to sell from). *Quantities.* 1 decides
"all or nothing"; 2 adds "a part", which splits a line over two batches and
leaves an advance. *Years.* Three consecutive years are the least in which a
year both receives and hands on a balance; the seventh half-year lets the last
of them be over, so that it can be closed. `Inventory` runs with one financial
year, whose mode and sequences the calls change; the theorems on numbers hold
for any set of years. *Statements.* Two are needed for a
failure between them. *Attempts.* `MaxAttempts` is 2 where the code has more:
what matters is whether there is one more attempt or none. *Reloads and stops*
are divided over two runs, one each; together in one run they only multiply the
states, as a stop forgets more than a reload does. *Servers.* Two attempts are a
first and a last one, two misses a tolerated and a fatal one; a fault each for a
server, its successor and the shell are three. With a fourth and fifth fault
and a second click, a Retry that fails and a recovery that fails under a Retry
are reached as well: `RuntimeSupervisor_faults.cfg` has them, with one shell and
one attempt. It passes too, `WayBack` included, and is kept out of the runs for
its time. *Packages
and restores.* Two of each let a restore follow one that was cut off, and a
package be made in between; a second document in a second year, which
`Backup_closed.cfg` has, does not tell the steps apart any further, and the
theorems hold for any. Two failing operations are one of a restore and one of its
way back. *Moments.* Five of them order a credential, a
reset, a password made on the device and a lapse. *Events of `Licensing`* are
what may happen a bounded number of times: changes of standing, imports and
removals, failures, stops, a page opened before the business is known, and a
check-in that begins while another is under way. A write refused because the key
of the page has expired is not one of them: it needs no fault. Three events
are a change half-way, its failing row and a stop after it; `WritesAgree` also
holds for any number of them (section 4), and `UnlessSplit` in a run of one
caller with five. Overlapping check-ins are bounded because two of them in
lockstep for ever write each other's stale rows back for ever; convergence is a
promise for a device whose check-ins do not overlap without end.

The bound `InFlight` of `Inventory` and `Overlap` of `Receivables` are also how
the runs separate two kinds of properties: those the transactions enforce
themselves, which are checked with calls in flight, and those that rest on the
reads being current, which are checked one call at a time. That the second kind
does *not* hold with calls in flight is what most findings say.

**Fairness.** Four properties need it.

- `EveryCallSettles`: weak fairness of each call's page steps and of its native
  steps. The event loop runs a promise that can go on, the native runtime polls
  a command that can go on, and every SQLite call returns (there is a busy
  timeout). Nothing is asked of the user, of retries in particular, of updates,
  reloads or stops. A call may wait for ever only behind a call that does, which
  the `finally` block excludes.
- `Recovers`: weak fairness of each of the two threads. The operating system
  schedules both, and every wait of the launch has a deadline. Nobody has to
  click Retry, close the window or start the application again.
- `ResetTakesEffect`: a credential change that has begun goes on (`Finish`), and
  the newest licence keeps arriving (`Renewed`): it is provisioned with every
  check-in and every refresh of the gate.
- `Converges`: a step that has begun ends, with an answer or an error, and the
  timer of the check-ins starts them for ever (`Proceed`); reads for memory end
  (`Fetched`).

## 4 Proofs

All proofs are checked by tlapm 1.4.5 with Z3, Zenon and LS4, for every value of
the constants that satisfies the named assumptions of the module. No bound of a
run is an assumption, except where a constant is the bound itself
(`MaxAmount \in Nat` and the like).

**DesktopWrites.** `IInv` is `TypeOK` with `GuardInv` (who is past the counter is
counted; who has a transaction open holds the lock), `UpdateInv` (the flag is up
while an update is prepared, and then nobody is admitted), `StoredInv` (what a
call's promise and its command say agrees with its rows), `LogInv` (rows and the
commit log agree), `QueueInv` and `CommitOrder`. `PreparedQuiet` is not
inductive: it needs that whoever counted in before the look at the counter is
seen by it, and whoever counts in after it sees the flag, which is `GuardInv`
with `UpdateInv`. The queue is the longest argument. The captured tails form a
chain (`ChainInv`): a pending call whose predecessor has not been released
waits for exactly the call one ticket before it, so that only the head can be at
the native side (`HeadFirst`, `OneInvoking`), and batches commit in order.
`WriterCounted` is `GuardInv` read backwards: a writer is a call whose command
is open, and that call is in `active`.
From this: `TypeCorrect`, `WholeOnceAlways`, `AnswersAlwaysHonest`,
`QueueIsSerial`, `UpdatePreparationIsQuiet`, `OneCountedWriter`, and
`ImplementsAtomicStore` (`StoreStep`: each action is a step of the store or a
stutter).

**Receivables.** `IInv` adds to `TypeOK` that posted requests are the finished
ones, that what a call applies or reverses is posted, and that an allocation is
no larger than its receipt. `ReversedOnceAlways`, `OneReceiptPerKeyAlways` and
`FreshNumbersAlways` hold for calls that race: they rest on the unique indexes
and on `MAX(next, number + 1)`, and the proof shows that no more is needed.
Two more hold for racing calls and are about sums. `AdvancesCoveredAlways`: the
applications of an advance add up to what is taken from it, which the conditional
UPDATE of `party_advances` brings about. `PaidOrOutstandingAlways`: while invoices
are only marked and unmarked, each adds up and the balance is what they have
open; its strengthening (`MarksTrue`) ties both pairs of columns of an invoice to
whether its one receipt is posted and not reversed. `SerialCallsSettleOpenItems`
is the refinement of `OpenItems`, under the assumption `Serial`: no overlap, and
only receipts, advances and credit notes. There `SerialInv` says that what the
running call has read is still so (`ReadsCurrent`), which is exactly what overlap
takes away. `BooksMatchSerially` adds under the same assumption that balance and
ledger agree, since no amount is clamped. The sums range over a finite set of
invoices, which is an assumption of `Receivables` (`AmountAssumption`).

*Sums.* The provers know nothing of a fold over a set, and induction over data
is out of their reach. A sum of natural numbers f[x] is therefore shown to be
the cardinality of a set of units, the pairs of an x and a number up to f[x]:
take a smallest subset for which it is not (the library's theorem that the
strict subsets of a finite set are well-founded gives one), remove an element,
and the two sides change by the same amount. The facts about finite sets do the
rest.

**Inventory.** `IInv` is `TypeOK` with what calls have asked for and read.
`NumbersFreshAlways` needs most of it: an invoice's sequence number was read
together with a mode that the year has had, and a year that restarts was
asked to by a call on record. `OneDocumentPerKeyAlways` rests on the lookups and
the unique indexes. `StockIsMovedAlways` assumes that purchase returns, the
product form and stock adjustments are not used (the handlers for which it is
false when calls overlap).

Without overlap (`InFlight = 1`) these three are included, and more is true.
`SerialInv` says that a call names a document on record (`DocumentsNamed`, which
needs no serial calls), that what the running call has read is still so
(`ReadCurrent`), and that a batch with goods in it is one on record
(`BatchesOnRecord`); with these the conditional UPDATEs of stock and batch always
change a row. Hence `StockIsMovedSerially`, `ReturnsTracedSerially` and
`LotsCoveredSerially`. The last is about the sum of the batches: a sale or an
adjustment takes from several of them what `Splits` says and the rest from loose
stock, which is just what the batches do not claim. Sums are counted as in
`Receivables`.

**FinancialYears.** `IInv` strengthens `TypeOK` and `ActiveIsOpen` with
`StartsByItsDate`: a call that is starting a year works on one whose first day
is not after the call's date, which keeps the year it creates inside the
calendar. `ActiveIsOpenAlways` and `ClosedFrozenAlways` follow: each transaction
that moves the pointer looks at the status again, or sets it, and each write to
a year looks at the status in its own trigger.

The books of the years rest on more (`SerialInv`, for one call at a time). The
years on record are consecutive (`YearsInARow`), none is on record or holds
anything before it begins (`NoneAhead`), and the customer owes what the last
year closes with (`BalanceOfLast`); what the call has read is still so when it
commits (`ReadCurrent`), though the date may have changed under it at any step.
A starting call then works on the last year, or on one before an empty one, so
that the year it creates or rebuilds opens with what its predecessor closes with:
`BooksContinueSerially` (with journals, `Accounting`) and `SummaryTrueSerially`.

**RuntimeSupervisor.** `OneServer` says nothing of where the server is, so it is
not inductive. `IInv` says where a live server can be: in the slot, in the local
of the thread whose step works on it, or, orphaned, on record (`KnownInv`,
`SpawnInv`), with `MutexInv` (a launching thread past its lock holds the mutex)
and `ThreadsInv` (what each step of a thread implies about slot and locals).
Between *recover* and *spawn* no server is alive that is not lost, whichever
thread gets there: the slot was emptied by `Take` under the same mutex, and the
file named the orphan. From this `OneServerAlways` and `OrphansRecordedAlways`,
for any number of shells, attempts and faults.

The other two are about Retry. `SpareInv`: unless a click came early, Retry can
be clicked only while the slot is empty and the supervisor asleep, so that the
main thread launches only then, and the process the supervisor takes is the one
it checked, or none (`SparesSuccessorAlways`). `WayInv` follows the slot the other
way round: whoever empties it fills it again, offers Retry or shuts the shell
down, and what shows the ERP window comes before what asks for the recovery
window. Hence `WayBackAlways`, which is what `Recovers` says apart from liveness:
at rest with an empty slot, there is a Retry to click. A state that violates it
may last for ever, so that the run that checks `Recovers` needs no `WayBack`
beside it; the configuration `RuntimeSupervisor_faults` checks both.

**AppLock.** `IInv` is `TypeOK` with `OpenForCurrent`, which is inductive: each
change of the credential passes through the event before anything else can open
the gate. `NeverOlderAlways` needs that stamps and moments agree (`StampsInv`),
which holds when the device's clock is not behind the server's: the theorem
assumes `Skew \in Nat`, and section 5 shows that it must.

**Backup.** `IInv` is `TypeOK` with three invariants about what is under way.
`LogoInv`: a change of the logo, an export and a restore exclude one another, and
the new logo is on disk before the database names it. `ExportInv`: the documents
asked for are in the database, from the checkpoint on in its main file, from the
copy on in the snapshot. `RestoreInv` says for each step of `restore` what it
may rely on: that the database still has what the restore found (until the
contents are replaced), that the first copy has it too, that the second copy is
the files, and at the last step that database and files are those of the
package. The failures at each step put back just that, or say in `broken` what
they could not. `FailureKeepsAllAlways` therefore names three exceptions, and
limits each: after a failed DETACH the database is the package's, whole; a
directory removed in part has nothing new in it; files that could not be put
back may be any. Beside it stand `SuccessIsExactAlways`,
`SnapshotsCompleteAlways` and `LogoOnDiskAlways`. All four assume
`Overlap = FALSE`; only `TypeCorrect` does without.

**Licensing.** `WritesAgree` looks at quiet states only. Its strengthening says
what is true while callers are at work: the secret, and memory once it is set,
is not behind the row, or is the key a caller has just put there and is about to
write to the row (`Backed`, `CopyInv`); a read of the store for memory has not
been overtaken (`FetchInv`); and what a caller holds fits its step (`JobInv`).
A roll-back is the case that needs it: it leaves secret and memory behind the row
if a row was written before, if the older key cannot be put back, or if two
changes overlapped, and `split` and `crossed` say which. `WritesAgreeAlways`
holds for any number of callers, keys and events.

**Only model-checked.** Liveness (`EveryCallSettles`, `Recovers`,
`ResetTakesEffect`, `Converges`), which is out of the prover's reach. Every other
property of a run is a theorem, some under assumptions that are those of its run:
calls one at a time (`Overlap = FALSE`, `InFlight = 1`, `OneCall`), journals
(`Accounting`), a clock that is not behind (`Skew \in Nat`). One goes further
than its theorems: `Inventory_races` checks `StockIsMoved` with returns, the
product form and adjustments each run by itself (`Alone`) among sales and
purchases that race, and the theorems have either no such call or no race.

## 5 Findings

Where the code does something else than its own documents or messages say, or
where a property holds only with an exception. Each has a configuration that
produces the counterexample in seconds (`tlc -config <name>.cfg MC<module>`);
none is part of the runs of section 3.

| configuration | counterexample |
|---|---|
| `Receivables_twice` (`BooksMatch`) | Marking an invoice paid updates `paid_amount` and leaves `outstanding_minor`, from which `createPartyPayment` takes what is open: the invoice can be settled again, and the customer's balance and Accounts Receivable part. |
| `Inventory_returned` (`StockIsMoved`) | A sale commits between the reads and the transaction of a purchase return. The conditional UPDATEs of batch and stock then change nothing, nobody looks at that, and the movement is posted. |
| `Inventory_adjusted` (`StockIsMoved`) | Stock is added while a sale is in flight: the adjustment writes the product back as it was read, and the sale is lost from the stock. |
| `FinancialYears_october` (`ActiveWhileCurrent`) | The pointer is reconciled with the default calendar; a business whose years begin in another month loses it. |
| `Backup_closed` (`ValidPackageRestores`) | Restoring empties and refills the tables under the triggers that protect closed years. Once a year with documents is closed, every restore is refused (by the DELETEs of `lib.rs:3187`, and rolled back), where `WINDOWS_FINAL_TEST_CHECKLIST.md:79` has restores tested and `ACCOUNTING_PHASE_1_ARCHITECTURE.md:9` promises them. |
| `AppLock_behind` (`NeverOlder`) | A password made on a device whose clock is behind the server's is stamped before the licence it replaces, and a reset older than it, delivered late, replaces it; the comment at `provisioning-policy.ts:45-46` excludes that. |
| `AppLock_ahead` (`ResetTakesEffect`) | A password made on a device whose clock is ahead is stamped after a later reset, which is then ignored as older, without a message. |
| `Licensing_split` (`CopiesAgree`) | The row of the business is written with a new key and the row of `global` is refused: secret and memory go back to the old key, the row keeps the new one. The row has the newest key, so the control plane never sends it again, and the native guard expires before the page's, with one caller and no overlap. |
| `Licensing_crossed` (`UnlessSplit`) | Two refreshes overlap and the slower one writes an older key over the newer secret, with the same end. |
| `DesktopWrites_flag` (`FlagHasOwner`) | A page reloaded while an update is prepared leaves `update_preparing` raised, and every write is refused until a restart, with a message that asks to finish or cancel the update. |
| `Receivables_reversed` (`PaidMeansReceived`) | Mark paid, reverse the receipt, mark paid: the reversed payment still holds the idempotency key; the call answers "paid" and posts nothing. |
| `Receivables_credited` (`PaidMeansReceived`) | Marking a partly credited invoice paid recomputes what is outstanding from the total and forgets the credit note. |
| `Receivables_undone` (`BooksMatch`) | Reversing the journal of a party receipt restores Accounts Receivable and not the customer's balance: the payment is looked up for the source type `PAYMENT` only. |
| `Receivables_returns` (`ReturnsWithinSold`) | Two credit notes in flight together take back more than was sold. |
| `Inventory_typed` (`StockIsMoved`) | The product form writes the stock typed against an old reading: a sale in between is lost from the stock, its movement stays. |
| `Inventory_cancelled` (`CancellationRestores`) | `trg_sales_posted_item_update` aborts the transaction of every cancellation that `deleteInvoice` admits. |
| `Inventory_renumbered` (`SequencesAhead`) | RESTART asked for in a year that restarts sets its next number back to 1 under invoices that have it. |
| `FinancialYears_rebuilt` (`RebuiltOnlyEmpty`) | An existing year is found empty before the backup; a document commits; the year is rebuilt over it. |
| `FinancialYears_late` (`JournalContinues`) | A document checked before midnight commits after the closing balances were read; no later year carries it. |
| `FinancialYears_skipped` (`NeverStranded`) | After a year that nobody started, none can be started. |

`NumbersFresh` of `Inventory` leaves a second restart of the numbering out for
the reason of `Inventory_renumbered`. `ActiveWhileCurrent` is not a run's
property: a call delayed across the change of year moves the pointer back, and
the next call of any kind moves it forward again. `SummaryTrue` has the
exception of `FinancialYears_late` when calls overlap. With `Overlap = TRUE`
`Backup` loses `SnapshotsComplete`: a logo that changes during an export leaves
the package with a path and without its file; only the user keeps them apart.

What the history variables except is real, if narrow. `lost`: a shell killed
between spawning a server and recording it leaves one that no later shell finds.
`early`: a Retry clicked while the supervisor is already recovering, or before
the windows it asked for are there, launches a second time, and the supervisor may stop the server that launch has just put in
the slot. `torn`: a restore ends with the assets of the one and the database of the other,
and a package made from then on may lack the file of its logo. That is so when
it stops while it changes the assets or before the database; and when it fails
and something cannot be undone, each time with a plain message of failure or
with "stuck": `remove_dir_all` stops half-way (`lib.rs:3566`), which nothing
repairs; the assets are put back with results that nobody looks at
(`lib.rs:3570`, `3576`, `3583`); the DETACH after the COMMIT fails
(`lib.rs:3259`), so that the database is the package's under the old assets; the
restored database does not verify, and the safety copy is refused by the
triggers in its turn. `FailureKeepsAll` does not except `torn`: it says for each
of these failures what is left. `split`: a change of the licence is cut off with
a part of it in place, because a row after the first is refused, because the old
key cannot be put back, or because an import of a key older than the row's stops
between the secret and the rows; it ends when a key is written to the row
(`Licensing_split`). `crossed`: two changes of the licence at a time leave the
copies with different keys (`Licensing_crossed`).

Seen in the source and outside the models: a stock adjustment upserts every
movement again, and SQLite runs BEFORE INSERT triggers for upserts, so that
`trg_financial_year_no_closed_movement_insert` (`schema.ts:1462`) refuses every
adjustment once a year with movements is closed. The years of `Inventory` are
open.

## 6 Not modelled

*Inside the modelled components.*

- Write path: start-up of the database service (bootstrap, migrations), reads.
- Receivables: the supplier's side of receipts and advances, receipts over
  several documents, opening balances as documents.
- Stock: several products, warehouses or lines (they meet only in the
  transaction, which is whole), deliveries, archiving, adjustments that give a
  batch number nothing has yet. No screen asks for goods to be taken out
  (`stockOut`); the handler can.
- Years: the checks that refuse to close a year (`CommitClose` is reached
  whenever they pass), ARCHIVED years of earlier versions, period locks, the
  opening of the stock (a trigger compares it with the products in the same
  transaction).
- Runtime: attempts that fail before a server is spawned, servers of versions
  without an ownership file, a second shell (a single-instance plug-in excludes
  it), the Windows job object.
- Backup: checksums and limits of a package (one that does not verify is refused
  before anything is touched), the migration of older data directories, the copy
  made before an update (it is the *prepare* of `DesktopWrites`).
- App lock: delays after wrong passwords, the timers of the automatic lock
  (`Lock` may happen at any moment), an unreadable secret store.
- Licensing: licences of other devices and transfers, the device's clock against
  its watermark, `touchLicense` (it changes no field the model has).
- Everywhere: formatting, wording, tax and rounding; amounts and quantities are
  whole numbers.

*Other components* (each is listed in `PROJECT.json` with its reason). Startup,
the stages of onboarding, payables, and the whole-collection writes other than
stock adjustments have state of their own and are in the plan. Fixed assets,
banking and budgets post one journal each. Administration and releases are
request handlers over the cloud database, whose functions are SQL. Screens,
printing, PDF, sharing and the public site keep no state these properties are
about; scripts and workflows are not part of the program.

*How much of the code that is.* Of the implementation's eighty thousand lines
most are presentation (`app/dashboard`, `components`: tables, forms, charts),
the text of the schema, and reports that read and format. The models cover the
handlers, the transactions, the triggers and the native commands where state
changes; the share of lines stays small because the state is in few of them.

## 7 Plan

The order is by what a mistake would cost the user. There are as many runs as
are useful to keep (a dozen, some ten minutes together); a new component takes
the place of a run whose question another one can take over.

| step | module | models | properties | bounds |
|---|---|---|---|---|
| 1 | `Payables` | `createPartyPayment`, `applyPartyAdvance` for suppliers, the money of `createPurchaseReturn` and `reversePurchase` | payables = ledger; implements `OpenItems` | as `Receivables` |
| 2 | `Inventory` with closed years | adjustments and cancellations under the triggers of closed years | a posted document of a closed year keeps its stock; what is refused changes nothing | one closed, one open year |
| 3 | `Collections` | expenses, quotations, vouchers, settings: read everything, write everything back | nobody else's rows are undone by a call that does not overlap | two calls, two rows |
| 4 | `Startup` | the startup resolution against the onboarding stages, the licence and the app lock | every stored state has a way on | all inputs |
| 5 | `Money` | minor units, discount allocation, weighted cost, rounding | parts add up to the whole | amounts to a dozen units |

Proofs to add, in this order: what overlap leaves of `SummaryTrue` (a summary is
wrong only by documents that were checked before the closing, as in
`FinancialYears_late`); `StockIsMoved` with calls that run by themselves, as the
runs have it; `UnlessSplit` of `Licensing` for check-ins that do not overlap;
the refinement of `OpenItems` by the suppliers' side, when it is modelled.
