# Balanciz: TLA+ models, checks and proofs

Balanciz (`taxdeep/gobooks`) is a multi-company accounting system: Go services on
PostgreSQL through GORM, a server-rendered web front end, generated search tables. Its
rules live in `src/internal/services`; handlers, templates and reports sit around them.
Nearly every service that changes money or stock follows one shape: validate outside a
database transaction, open a READ COMMITTED transaction, lock rows with
`SELECT ... FOR UPDATE` (`applyLockForUpdate`, `posting_errors.go`), check again part of
what was validated, write, commit. Whether that shape holds when several users, a payment
provider and crashes interleave is the question this project asks.

## 1. Inventory

| Component | State | Operations | Hard part | What makes it correct | Modelled in |
|---|---|---|---|---|---|
| Gateway payment settlement (`payment_application_service.go`, `payment_allocation_service.go`, `payment_reverse_allocation_service.go`, `customer_credit_service.go`) | invoice balances, `payment_transactions.applied_*`, allocations, reverse allocations, customer credits | apply, refund, charge back, unapply; allocate a charge or a credit; reverse an allocation | checks before the transaction, lock order, two paths for one charge | balances account for every payment; nothing is spent, restored or applied twice; no circular wait | `Settlement`, `InvoiceSettlement` |
| Proportional reversal (`ComputeReverseAllocationPlan`) | rows of one charge | partial refunds in series | rounding to cents, remainder on the last line | never more than was allocated; a full reversal is exact | `ReversePlan`, `ReverseAllocation` |
| Gateway intake (`hosted_payment_service.go`, `webhook_ingestion_service.go`, `gateway_settlement_service.go`, `payment_posting_service.go`) | checkout attempts, webhook events, charges, their journal entries, settlements | checkout, ingestion, automatic settlement, posting and applying by hand | repeated events, late redirects, crashes between two transactions | a confirmed payment is one charge, booked once, never lost | `Gateway` (partly) |
| Posting and journal (`invoice_post.go`, `bill_post.go`, `posting_snapshot_guard.go`, `journal_reverse.go`, `report_visibility.go`) | documents, journal entries | draft, edit, issue, post, send, delete, void; enter, reverse and replace manual entries | entries prepared before the lock, whole rows saved over others | the books show exactly the posted documents | `Posting` (partly) |
| Invoice lifecycle and void (`invoice_lifecycle_service.go`, `invoice_void.go`, the editors) | invoice status | issue, send, delete, void | racing payments, postings and each other | legal transitions only; voided is final | `Settlement`, `Receivables`, `Posting` (partly) |
| Sales order tracking (`sales_order_invoice_tracking.go`, `sales_order_service.go`) | invoiced quantity and status of an order | count and take back what is invoiced, confirm, cancel | a counter shared by several invoices | what an order says is invoiced of it is | `Posting` (partly) |
| Receive Payment, deposits, receipts, credit notes (`receive_payment.go`, `customer_deposit_service.go`, `customer_receipt_service.go`, `credit_note_*.go`) | the invoices, three kinds of credit, applications, journal | post, apply, give back, void, pay | some write from unlocked snapshots | accounts agree with what is left of the documents | `Receivables` (partly) |
| Inventory verbs (`services/inventory`) | balances, movements, cost layers, lots | receive, issue, transfer, build, adjust, return, reverse, reserve | callers repeat documents; two legs, in one call or two; FIFO layers drawn while average issues leave them | balance and lots agree with the movement ledger, layers cover the stock; whole documents once | `Stock`, `StockLedger` (partly) |
| Report cache (`internal/cache/cache.go`, `report_acceleration.go`) | map and list of entries | get, set, flush, sweep | fills that overtake a flush, copies outside the lock | no report is older than its lifetime allows | `ReportCache` |
| Bank reconciliation (`banking.go`, `web/banking_handlers.go`, `reconcile_match_engine.go`) | reconciliations, the lines linked to them, a draft, match suggestions | tick, save, finish, void the latest, run the engine, answer its suggestions | nothing is locked; old pages, redirects and best-effort follow-ups | a statement that balanced keeps balancing; a line leaves its reconciliation by its void only; answers stand | `Reconcile` (partly) |
| Payables beyond bills, GR/IR and waiting-for-invoice, document numbering, search projection, payroll, reports, web | see PROJECT.json | | | | section 7 |

The components meet in shared rows: settlement, Receive Payment, deposits, receipts,
credit notes, void, lifecycle and the gateway all read and write an invoice's balance and
status; posting, voiding and the journal screen share journal entries; issues, transfers
and returns share balance rows; reconciliation links the lines that all of them post. They coordinate only through row locks and unique indexes.

## 2. Modules

| Module | Models | Role |
|---|---|---|
| `InvoiceRows` | settlement columns of an invoice, what a payment and its return make of them | shared |
| `ReversePlan` | the arithmetic of a proportional reversal | shared |
| `ReverseAllocation` | a split charge and a series of partial reversals of it | arithmetic alone, many amounts |
| `Settlement` | the settlement tables; what each service looks up, checks and writes | `AtomicSpec`, an abstract specification |
| `InvoiceSettlement` | concurrent requests on these tables | implements `AtomicSpec` |
| `Gateway` | checkout, provider, webhooks, automatic and manual booking | with crashes and lost writes |
| `Posting` | documents, journal, sales order | concurrent users |
| `Receivables` | credits, invoices and the accounts they move | concurrent users |
| `StockLedger` | whole documents booked once, no cell taken below zero unasked, transfers at once or in transit | abstract specification |
| `Stock` | the inventory verbs | implements `StockLedger` |
| `ReportCache` | the cache, its readers, the handlers that flush it | with time |
| `Reconcile` | the reconciliation page of one account, its transactions, draft and suggestions | concurrent windows |
| `MC...` | amounts, requests and workloads | data for TLC |
| `InvoiceSettlementProofs`, `GatewayProofs`, `PostingProofs`, `StockProofs`, `ReceivablesProofs`, `ReportCacheProofs`, `ReconcileProofs` | | theorems |
| `SumLemmas` | | lemmas about sums over finite sets, for the theorems |

### What the modules have in common

This holds of all modules but `ReportCache` and `Reconcile`, which have no row locks. A process is one request (a service call with its transaction). `job[p]` is where it is
and what it carries; `seen[p]` the rows it read; `lock` who holds which row; `todo` the
requests users may still bring, drawn at the start from one of `Workloads`.

* `Begin...` is the validation that runs before the transaction, with its early returns as
  guards. It is a step of its own, so anything may commit between it and the first lock.
* `Lock...` is one `SELECT ... FOR UPDATE` each, in the code's order, with the checks that
  follow it.
* a commit is one step: the last checks, every write of the service, release of the locks.
  Between the last lock and the commit the code only reads rows it holds, and in READ
  COMMITTED nobody sees its writes before the commit. `UPDATE` without a lock waits for the
  holder of the row, so a commit that only updates has that as a guard.
* `Refuse` is a check inside the transaction that failed, `Crash` a process, a connection
  or a transaction that is lost. Both roll back.
* A unique index is the guard that makes an insert fail (`KeyIsFree`, `IsFree`).

What users do not bring at the same time is an assumption of the environment, and named:
`Ops` and `Workloads` (which requests), `Overlap` in `Receivables` (which kinds
may run at once), `Clash` in `Posting` (which kinds are not brought for one row at a time).
Each pair left out is one the code does not order; section 4 says what happens with it.

### InvoiceSettlement

`Settlement` has one operator per check (`Can...`, `Fits...`, `OriginalCheck`) and one per
service's writes, each a function of the invoice rows it is computed from. `AtomicSpec`
gives them the table itself, as if the service ran alone; `InvoiceSettlement` gives them
`seen[p]`, the rows read under its locks. That the second implements the first is the
serializability of the services at their commits. What is checked before the transaction
and not again is not in `AtomicSpec`. `LockForUpdate` is the implicit lock of the `UPDATE`
with which unapply clears the transaction, which it takes after the invoice's.
`ApplyReversalToInvoice` is both the refund and the chargeback service,
`ApplyCustomerCredit` both ways to spend a credit; they share their writes.

Abstractions: whole cents of the base currency (FX invoices never reach these services);
every transaction is posted and positive; `issued` stands for issued, sent and overdue,
which these services treat alike; a payment request names its customer by its invoice;
`VoidInvoice` is its status, balance and payment checks. `ReversePlan` keeps the arithmetic
to the cent: `decimal.Div` rounds to 16 digits, which decides whether a share exactly
half-way between two cents is rounded up (`QuotientRoundsUp`).

### Gateway

`attempt` is `hosted_payment_attempts`, `session` what the provider knows, `stored` the
webhook events, `acked` those it got a 200 for, `charge`, `settlement` and `journal` the
rows a payment leaves. A checkout inserts its attempt, calls the provider and saves the
reference and the status, three steps; a webhook stores its event with the attempt and the
charge in one transaction (`IngestCompleted` read, `RecordCharge` commit), then settlement
runs in a second one and its outcome is written after that (`Persist`). The provider
repeats an event, in any order and concurrently, until it is acknowledged. Faults - a
process that dies, the redirect's write whose error nobody looks at - are bounded by
`MaxFaults`. What an event stored before leads to depends on the database (`Duplicate`):
PostgreSQL refuses to go on after the failed insert and the provider gets a 500; the
tests' SQLite goes on to settle.

Abstractions: one event per session; sessions completed but unpaid and the manual provider
are left out; Receive Payment, void and applying by hand are single steps, being modelled
in detail elsewhere; posting locks nothing, as in the code.

### Posting

`doc` is one record for invoices and bills, `stamp` their `updated_at`, `content` all that
the snapshot guard compares besides, `entry` their journal entry; `order` the sales order's
status and invoiced quantity, `tracked` whether an invoice's line was matched to it.
`Begin...` reads, `LockDoc` and `LockOrder` lock, `StillAllowed` is the snapshot guard (or
the recheck of void and delete). `Edit`, `SaveIssue` and `Send` save the whole row that was
read. A reversal by void leaves the original entry posted, one from the journal screen
marks it reversed; `Reportable` is what reports make of the two. After a crash an issue
that had already saved its row is not repeated (a bound on `stamp`).

### Receivables

Deposits, receipts and credit notes are one record with a kind; `Begin` reads what the
service reads before its transaction and `Enter` what it locks and reads inside (`Locks`,
`ReadsInside` say which, per kind). `entries` maps the source of each journal entry to its
effect on four accounts, so that the accounts can be compared with the documents.
`applications` has a row per request, credit and invoice. `ProRata` spreads a credit in closed
form: a share is the difference of two cumulative amounts (`Given`), and the last invoice takes
the rest, as the loops over the rounded shares do.

### Stock

A cell is an `inventory_balances` row, a document one call under one idempotency key that
its caller may repeat. `LockBalance` locks the rows in the order of the legs, `ReadLot`
reads the lot row without a lock of its own, a commit writes. A movement carries its cost layer (`left`)
and what it drew from a lot; `draws` are the layer consumptions. Costs are
integers in units of 0.0001, with `decimal`'s rounding; layers are drawn in the order of
movement ids. The creation race of a cell's row is left out: its unique index makes one of two
fail and roll back, like a crash.

A transfer's legs have keys of their own, so it has three calls (`part`): with a date of receipt
it books both legs (`TransferStock`), without one it ships and is in transit (`ShipTransfer`),
and with one, when its issue leg is booked already, that leg's cached result goes on to the
receipt, at the cost of the issue (`ReceiveTransfer`). `StockLedger` has the stay in transit as
a variable of its own: what arrives is what that transfer shipped, once. A document stands for
one transfer, so both calls ask for one quantity; the code does not compare them.
Only tests leave a transfer in transit or allow a negative balance (`allowNegative`): outside
the package `warehouse_transfer_service.go:147` alone makes transfers, and it always gives the
date of receipt. A vendor return takes the stock out of the warehouse its shipment names
(`vendor_return_shipment_posting.go:152`), which need not be the one the purchase came to.

### ReportCache

What happens under the cache's write lock is one step. `Get` leaves the read lock before
it looks at the entry, which `Set` may meanwhile update in place: the expiry check and the
copy of each part are steps of their own, so a report may be torn. `Without` takes a key out
of the list by a recursive function, as `SelectSeq` is opaque to the prover. Memory is
sequentially consistent. `Tick` is time; `MaxFill` - how long a report takes from its query into the
cache - is an assumption about the reports, not something the code enforces.

### Reconcile

`recOf` is `journal_lines.reconciliation_id`, `rec` the reconciliations that are committed,
`sugg` the rows of `reconciliation_match_suggestions` with their lines, `draft` the selected
lines of the account's draft. `session[u]` is a browser window: the page it shows - the date,
the ticks, the ending balance typed, the reconciliation its void button names - or the
request it sent and what that has read. The handlers lock no row, so each statement is a step:
finishing reads the cleared balance (`Finish`), sums the ticked lines (`CheckDifference`),
takes an id (`InsertReconciliation`) and links what is still free (`LinkAndCommit`); voiding
loads, counts the newer ones, frees. What the handlers do after the commit, best effort, are
steps that a lost connection leaves out. The page saves the draft before it submits, matches
or answers, a request of its own (`SaveDraft`). `overlaps` is history: who ran a transaction
while another one did.

Abstractions: the page is read in one step and ticked when it is shown; the ending balance is
the one that makes the page's difference zero, as `main.tsx` demands; the engine finds any of
the sets `Matches` and may lose a line it inserts; an old URL may show any date; the draft's
date and balance are left out, since the page takes them from its URL when it has one.

## 3. Runs

All finish within five minutes. `CHECK_DEADLOCK FALSE` stands in the configurations of
systems that may come to rest, as requests, transactions and events are used up; a window of
`reconcile` can always leave and come back, and there deadlock is checked.
Circular waits are looked for by `NoDeadlock` and by the liveness properties.

| Run | Question |
|---|---|
| `reverse_plan` | Do up to three (`MaxReversals`) partial reversals of a charge split over two to four invoices ever give back more than was allocated, and is a full one exact? |
| `single` | Three requests on the single-invoice paths, overpayment credits, crashes: coherent balances, no lost update, a transaction applied once, the money on invoices, charges and credits adds up (`MoneyAddsUp`), every request ends (`EveryRequestEnds`), and the refinement `AtomicSpec`. |
| `split` | Three requests split a charge over both invoices and reverse parts of it, with crashes: the same, no reversal beyond its allocation, no circular wait. |
| `serial` | One request at a time, every operation in every order: the two paths of a charge exclude each other, balances account for every payment, voided is final. |
| `posting` | Three users on two invoices of one order, a bill and manual entries, with crashes: do reports show exactly the posted documents, does what they hide cancel out, does the order count what is invoiced, does a posted document stay as it is? |
| `receivables` | Deposits, receipts, notes and payments, two payments, postings or voids at a time and the rest one by one, with crashes: do accounts receivable and the deposit liability agree with the documents, does the ledger balance, is every credit accounted for? |
| `stock` | Two callers over two dozen documents, with crashes and repeats: do balances and lots agree with the movements, do the layers cover the stock, is nothing reversed twice, and do the verbs implement `StockLedger` (`Promise`)? |
| `gateway` | Two checkouts of an invoice against repeated events, cancellation, expiry, settlement, posting and applying by hand, a cheque, a void, with one fault: one charge per session, booked once, never lost, always decided. |
| `report_cache` | Readers against a posting, its flush, expiry and eviction: is what is shown recent, is what a cached report misses explained by an overtaken fill, do map and list agree? |
| `reconcile` | Two windows and two lines of two dates, with lost connections: does a statement that balanced when finished go on to balance, does a line leave its reconciliation by the void only, does an answer to a suggestion stand? |
| `posted_invoice_edited` | The finding below. |
| `paid_twice` | The finding below. |

Bounds, and why they suffice:

* Two invoices are enough for a lock order, a split and the interference of a second
  payment; `serial` has a third of another customer, so that a charge or credit can be
  offered to the wrong one. Amounts of one to seven give exact, partial and over-payments.
* `serial` runs every settlement operation, one at a time; `single` and `split` race payments,
  their return and credits. That a void or an unapply racing others keeps `BalanceCoherent`,
  `NoLostUpdate`, `AppliedOnce` and `AtomicSpec` is proved for all of them (section 5).
* Three requests (`single`, `split`, `posting`) are two that race and one that changes the
  row between them; where a run has two it has every operation.
* `posting`, `receivables`, `stock` and `gateway` draw one of several workloads, each a set
  of requests that can reach one another's rows. Together they fire every action; one set of
  everything would only add combinations of documents that do not meet.
* `reconcile` has `MaxRecs = 2`: a reconciliation, another one before or after its void, and
  the race of both. Its windows both tick, finish and void; or one works with the engine
  while the other one voids or answers; or one uses everything alone.
* `MaxMovements = 4` bounds keyless adjustments only. `MaxFaults = 1`: a crash at any point,
  or one lost write. In `report_cache` two cached reports of three force eviction,
  `TTL = MaxFill = 1` and `MaxTime = 3` let an entry be filled late and expire.

Processes are interchangeable in `split`, `posting` and `stock`, and so are the windows of
`reconcile`, the readers, the keys of one company and the parts in `report_cache` (`SYMMETRY`).

Every property of a passing run has a mutant: a definition changed the way a plausible bug
would change it (marked `MUTANT` beside the definition), with which TLC finds the property
violated under the same configuration.

### Fairness

* `InvoiceSettlement!FairSpec` is strong fairness of `Proceed(p)` for every request:
  PostgreSQL queues the waiters of a row lock and serves them in turn, and a running handler
  is not suspended for ever. Nothing is assumed of `Begin` or `Crash`. Unapply is not in
  the run that checks it: it locks the invoice before the transaction and can wait in a
  circle with an apply, which only PostgreSQL's deadlock detector ends.
* `Gateway!FairSpec` is weak fairness of a running handler's `Step(p)` and strong fairness
  of `Deliver` for each event: providers repeat an event until it is acknowledged, and some
  handler is free to take it again and again. Customers and operators owe nothing.
  `PaidIsCharged` holds with a crash; `VerifiedIsDecided` excepts it, since after one
  only an operator's retry goes on.

## 4. What the checks found

Four disagreements with the repository's own words; the first two are kept as runs:

| Run, or property and workload | Statement | What happens |
|---|---|---|
| `posted_invoice_edited` | "After this call, the invoice is immutable" (`invoice_lifecycle_service.go:21`) | the editor reads a draft without a lock, a posting commits, and the editor saves the draft it read over it: a draft again, with a live entry |
| `paid_twice` | an application "updates Invoice.BalanceDue and Invoice payment status" (`customer_deposit_service.go:15`) | it writes the balance only; a balance of zero on an issued invoice reads as nothing paid (`fx_settle.go:94`), and Receive Payment takes the full amount again |
| `OnlyOrderedIsTracked`, `OverWorkload` (`MCPosting`) | of an invoice line for more than its order has remaining "the leftover qty is untracked" (`sales_order_invoice_tracking.go:165-169`) | the whole quantity is added to the order line (`:270`): 4 are invoiced of an order for 3 |
| `LayersAreOnHand`, `VoidWorkload` (`MCStock`) | the remaining quantities of the layers add up to the quantity on hand "for every post/void cycle on fresh data" (`inventory/reconcile.go:6-11`), and layers in excess are "not expected" (`:54`) | voiding a purchase takes the stock back and leaves its layer open (`reverse.go:137` restores layers for an outflow only); so does whatever leaves at average cost |

TLC finds either of the last two violated when `Posting.cfg` or `Stock.cfg` is given that
workload as `Workloads` and that property as its invariant.

`OrderIsTracked` and `LayersCoverOnHand` say what the code does keep in the last two cases: the
order counts the whole quantities of its invoices, and the layers never hold less than the
stock. The second holds of stock that the verbs booked from the start. `balance.go:138-141`
expects that writes at average cost let a FIFO issue run out of layers; they leave layers over,
never short. That error is left to an issue that asks to go below zero (as `fifo_test.go:190`
does) and to stock from before the layers table. Layers left over are not harmless: a later
FIFO issue is priced with units that have left.

What else the models showed while they were built decides which requests the passing runs
bring together. Adding the request named reproduces it.

* Settlement: two unapplies validated before either commits restore the amount twice;
  unapply leaves the credit of an overpayment in place; apply looks for allocation rows
  only before its transaction, so a charge can be used along both paths; a void does not
  count allocations or credit applications; apply does not repeat its status check under the
  lock, so a voided invoice can become paid; a negative remainder of a reversal is skipped, so
  its rows may add up to more; a refund and a chargeback of one unsplit charge may both
  return the whole of it. (`Ops`, or a third process.)
* Posting: editing, issuing or sending while the document is posted or voided loses the
  posting or the void; confirming or cancelling an order while an invoice of it is posted
  loses the order's status (`MCClash`). Without any race, an invoice none of whose lines
  match leaves the order confirmed, and once that is cancelled the invoice cannot be voided.
* Receivables: two deposits or receipts applied at once lose an update, a note applied twice
  at once is spent twice, a void and a payment overwrite a note, a sending reopens a paid
  invoice, a deposit voided while it is posted keeps its entry (`MCOverlap`). A second
  application of one deposit is always refused by the unique index of its entry; voiding a
  deposit made of an overpayment reverses the whole payment's entry; notes can be applied to
  a voided invoice; a void does not count deposits; shares of a note over four invoices can
  leave an entry out of balance.
* Stock: two documents that undo one movement, a vendor credit note and a bill's void, both
  go on (`DoubleDoc`, `DoubleWorkload` in `MCStock`); two transfers in opposite directions
  can wait for each other; a lot in two warehouses is written under two different locks;
  issues do not look at reservations; a transfer whose shipped leg is reversed can still arrive.
* Gateway: a second checkout is offered for what a confirmed payment covers, since any
  reduction of the balance counts as that payment's use (`hosted_payment_service.go:132`,
  against line 254); two customers at once may both find none in flight; a late redirect
  revives a cancelled attempt; a reference that was not saved loses the payment's event;
  of two settlements that evaluated together the loser writes "pending review" over
  "applied"; a retry only considers the latest attempt that succeeded.
* Bank reconciliation: two submissions that overlap can both balance against the same cleared
  lines, though only one gets the lines; a void may read "no newer one" while another
  is committed, and take the lines from under it; a preselected line of a later date is linked
  by the submission without being counted in its difference. (`alone`, `FreedUpTo`.)
* Report cache: a fill can overtake a flush and a copy can be torn; several handlers never
  flush. The lifetime bounds all three.

## 5. Proofs

Checked by TLAPS, for any number of processes, documents and requests and any amounts, from
the assumptions each module names: amounts are integers of the right sign, requests have the
fields their kind needs, and what is summed over - documents, lines, transactions - is finite
(`...Assumption`, checked by TLC on every run). Each argument starts from an inductive
invariant, proved with one lemma per action or group of actions and first checked by TLC.

A theorem may have a hypothesis on which requests run at once. Each leaves out what section 4
shows to break the property - in places a little more, where a pair of kinds is kept apart
although some requests of these kinds would not meet - and each holds of the run that checks
the property. Theorems without one hold of any requests.

* **`InvoiceSettlementProofs`**, in six parts.
  * `TypeCorrect`, `BalancesStayCoherent`, `NoUpdateIsLost`, `RequestsStayValid`,
    `TransactionsApplyOnce`. A commit writes a row computed from `seen[p]`, so nothing follows
    about the balance unless that is still the table's row. It is (`NoLostUpdate`): a row
    that was read is locked by its reader, and a commit writes only rows it has locked.
    `SettlementInv` carries to the commit what was checked before it: every row it holds
    locked (`Held`) keeps what the request relies on (`ReliesOn`). Another request's reliance
    survives a commit because the commit changes a transaction or a credit only under its
    lock (`LeavesTxn`, `LeavesCredit`, `RelianceStays`).
  * `ImplementsAtomic`: `InvoiceSettlement` implements `AtomicSpec`, the tables mapped to
    themselves. A commit's checks and writes come out the same on `seen[p]` and on the
    table; every other step leaves the tables alone.
  * `RequestsNeverCircle`: no circular wait when `unapply` is not among the operations (it
    locks its invoice before the transaction row, the others after) and the invoices' ids
    are bounded (`IdsBounded`). A request that waits for its source row holds nothing; one
    that waits for the original charge holds its reversal's row, for which only requests
    that hold nothing wait; one that waits for an invoice waits for a holder that has read
    it, and so can only wait for a larger id (`HolderIsAhead`).
  * `ReversalsAreWithinAllocations`, `CreditsAreConserved`, for all requests and without a
    hypothesis. The arithmetic first: a rounded share is never more than its line has left
    (`ShareBound`). The last line takes the remainder, which may be more than it has left, or
    is skipped when the shares exceed the reversal; the plan as a whole is within what all
    lines have left either way (`PlanTotal`, `RemainingTotal`), and a plan of all that is left
    returns every line (`FullPlan`). Then the rows: a reversal adds its plan's under the lock
    of the original charge, so the plan was made of the rows that stand.
  * `SeriesStaysWithin`, `FullReversalRestores`: the same arithmetic for one charge and any
    series of reversals, that is, the two invariants of `ReverseAllocation` (its
    specification is called `SeriesSpec` so that this module can extend both).
  * `BalancesAreUnreceived`, `VoidedInvoicesStayVoided` (`ReadsHold`), `PathsAreExclusive`
    (`PathsApart`), `BooksAgree` (both, and no unapply): an invoice owes its amount less what was
    brought to it, and each charge accounts for what it brought. `Fresh` says that what was checked
    before the transaction still holds. It does if one request runs at a time, or if unapply
    does not race and neither apply nor reverse races a void (`ReadsHold`), or apply an
    allocation (`PathsApart`): two unapplies restore an amount twice, and apply asks
    neither for the status nor for allocation rows again under its lock.
* **`GatewayProofs`**
  * `SessionsChargeOnce`, `StoredEventsAreCharged`, `ChargesAreBookedOnce`,
    `ConfirmedPaymentsStay`. Ownership: a checkout whose provider call is not over is known to
    its process only, so no event can confirm it and no redirect undo a confirmation; a
    confirmation under way is the only one of its checkout, because the event's index makes
    another wait; an attempt has succeeded exactly when it has its charge.
  * `BalancesAreCollected`: an invoice's amount is its balance, what was received by hand, and
    the sum over its charges of what each used (`CollectedOK`). Settling and applying by hand
    change one term with the balance. A settlement takes the whole balance it read under
    the invoice's lock, and until it commits nobody else changes the invoice or applies a
    charge of its attempt (`SettlesOK`).
* **`PostingProofs`**
  * `BooksAgree`, `PostedStays`, under `SavesApart`: the five pairs of requests that save a
    whole row over another's work are in `Clash`. Without the hypothesis they are false, as
    `posted_invoice_edited` shows. The invariant says that an entry with a document's source
    is the document's, with its amount, and that it is reversed exactly when the document is
    voided; what a row-saver read still stands; and a void that locked its row has the entry
    it prepared for. That posting against posting, void against void and delete against
    either are safe needs no hypothesis.
  * `HiddenCancelsOut`, under `SavesApart`. The invariant (`PairsOK`) is that all entries
    and the shown ones have the same sum, and that an entry is marked reversed only with a
    reversal beside it: what is reversed was shown until then, so the reversal adds to the one
    sum what it takes from the other.
  * `OrdersAreTracked`, under `SavesApart`, with confirming and cancelling kept apart from
    postings (`TransitionsApart`: either saves the status it read) and orders of a positive
    quantity: posting and voiding change one term of the sum and the order's row with it,
    under the row's lock. An order whose lines are all for a quantity of zero becomes
    `fully_invoiced` with nothing invoiced.
* **`StockProofs`**
  * `VerbsKeepTheirPromise`: `Stock` implements `StockLedger`, `onHand` mapped to the
    balances' quantities, `booked` to the keyed documents with a movement and `transit` to the
    quantities of transfers with an issue leg only. A row that was read is the table's because
    its reader holds the lock, so a check of the stock made before the commit still holds at
    it; a reversal needs the movement it names to stay what it was, and a call that completes
    a transfer the issue leg it found (`PartOK`), while the key of the receipt keeps another
    one from completing it too.
  * `BalancesAreTheLedger`, without a hypothesis: a commit appends its movements and moves
    its cells by them.
  * `NoDoubleReversal`, `LayersCoverStock`, under `OneUndo`: at most one document of a
    workload undoes a given movement. That a movement is reversed already is read before its row
    is locked, so two that undo it both go on. What a cell's layers hold beyond its stock is
    a sum over its movements (`ExcessIn`) that is never negative: layers drawn oldest first
    give no more than is asked (`FifoDraws`), an outflow may have drawn less than it took
    (an average issue draws nothing), and a reversal gives back what its issue drew.
  * `LotsAreUndrawn`, under `LotsHold` (one caller, or each lot in one cell): a lot's row is
    read and saved under the lock of the balance row, so two warehouses are two locks.
* **`ReceivablesProofs`**
  * `LedgerAlwaysBalances`, under `FewLines`. Each entry comes out at nothing, which for a
    payment that uses credits says that the rounded shares telescope to the
    total (`Given`). Rounding costs an invoice less than half a cent per share, so among at
    most three invoices the last never gets more than it settles; among four it can, the
    surplus is cut off, and the entry is out of balance (`receive_payment.go:190`, `:594`).
  * `CreditsAreAccounted`, under `CreditsApart`: the kinds of request that overlap leave one
    another's credits alone (not two applications, two voids of different invoices, or a void
    and a payment: those lose updates), and two payments at once make different deposits of
    their surplus. The invariant (`CreditInv`) is that what is left of a credit is its amount
    less its live applications; what a request read of credits still stands while it runs
    (`Fresh`); a credit is posted once or made by a payment (`PostedOnce`, `NotMade`). A
    request then changes the sum over application rows by its own rows (`AppliedMore`,
    `AppliedLess`), and a payment's rows of one credit add up to what it uses of it
    (`SpreadAddsUp`).
  * `ControlsStayInAgreement` (`ControlsAgree`), under both of these, `InvoicesApart` and
    `[][Heeded]_vars`. It joins the sum over entries with the sum over documents: `CarriedBy`
    counts every document by what it carries into accounts receivable and customer deposits
    (what is left of an invoice adds to receivables, of a receipt or note takes off them, of
    a deposit is the other account), and `InBalance` says that the ledger holds that. The invariant `ControlInv` adds what a step needs to move
    both by one amount: the entry of a posting is the document's own (`Exact`, `Backed`), so
    that a void takes back what stands; an invoice owes its amount less what is applied to it
    unless a payment was received for it (`InvoicesOk`), so that voiding it returns to the
    notes exactly what its balance lacks; and what a request read of an invoice stands when
    it commits (`Known`). One lemma per operation (`ControlPost`, `ControlPay`,
    `ControlVoidInvoice`, ...) shows that entry and documents move together (`OneMoves`,
    `TwoMove`, `CarriedMoves`).
    `InvoicesApart` lists the kinds that may overlap without losing an update of an invoice.
    `Heeded` is what the code leaves to its users, each part of it necessary: a payment is
    received for invoices that owe something (`effectiveBalances`, `fx_settle.go:94`, reads
    nothing left as nothing paid: the run `paid_twice`), and its request names the deposit its
    surplus becomes, as the code always makes one; an invoice is voided with nothing but
    credit notes applied to it (`invoice_void.go:93` counts no deposits or receipts); a
    deposit that a payment made is not voided (`customer_deposit_service.go:528` reverses the
    payment's whole entry). Every step of `receivables` is heeded and its constants
    satisfy the three other hypotheses (TLC checked `[][Heeded]_vars` and `ControlInv` on all
    its states), so that run is an instance of the theorem.
* **`ReportCacheProofs`**
  * `ReportsAreRecent`, `StaleFillsOvertookTheFlush`. `NotOlder(report, k, t)` - the report
    counts all postings made before `t` - holds of a query's result at its time, is carried
    by an entry for the moment `TTL + MaxFill` before it expires, and by a reader part by
    part, which is why a torn copy is as recent as a whole one.
  * `CacheStaysCoherent`: map and list hold the same keys, each once, in the order of expiry,
    within the capacity (`Listed`). Time does not run back and all entries live equally long,
    so a key put at the front expires last; what stays of a list when keys go is in its old
    order (`Remains`).
* **`ReconcileProofs`** - `StatementsStayBalanced`, `LinesStay`, `AnswersStay` and the types
  (`ReconcileTypeCorrect`), for any windows, lines and dates and any additive `Net`
  (`NetAssumption`). A transaction that overlaps no other one finds at its commit what it
  read (`AloneOK`): lines posted meanwhile are neither ticked nor cleared. Its id is then the
  newest, so what is linked later is not counted by it, and no void under way that saw
  nothing newer is older (`BalancedFor`): what is freed was newer as well. Lines belong to
  active reconciliations (`StoredOK`) and two submissions never hold one id (`IdsApart`).
* **`SumLemmas`** - sums over finite sets: a term more, a term changed, bounds, unions, renamed
  or grouped terms. The community modules define a sum by recursion over subsets, and no
  installed prover instantiates the library's induction theorems, so its equation is proved
  from a least counterexample by size (`SumsExist`, `SumsAgree`, `SubsetInduction`).

Only model-checked:

* Liveness (`EveryRequestEnds`, `PaidIsCharged`, `VerifiedIsDecided`), out of TLAPS's reach.
  Every invariant and action property of a passing run is a theorem.

## 6. Plan

1. `LockBalance` of the inventory verbs against opposite transfers, in a run of its own.
2. Payables: payments, prepayments and credits of vendors, on the scheme of `Receivables`.
3. The stock side of posting: composition of `Posting` with `Stock` through a document's
   movements, where void and reversal meet.
4. The search projection's eventual consistency; document numbering; what the matching engine
   remembers of the answers it got.

## 7. Not modelled

* Goods receipts, shipments, GR/IR and waiting-for-invoice matching: nothing outside tests
  calls these services - the editors never set a receipt or shipment line - so the program as
  it stands has no behaviour of them. Read on their own: two lines of one bill on the same
  receipt line over-match it, closing a waiting item reads it without a lock, and voiding a
  receipt ignores bills matched to it.
* Payables beyond bills mirror the receivable side; search projection
  and document numbering are planned.
* Of bank reconciliation: how the engine scores candidates and what it remembers, exceptions
  (a register of its own), the save-progress handler, which the page does not call.
* Taxes, accounts, exchange rates and secondary books: arithmetic inside one commit.
* Payroll (tax tables), reports, PDF, AI assistance, web handlers, templates, admin, commands,
  migrations and generated code (`src/ent`, `*_templ.go`): no state of their own that several
  actors share, presentation, or schema. They are most of the repository's lines.

Hazards that no property covers in full are listed in PROJECT.json with the reason.
