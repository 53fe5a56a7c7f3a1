# VyaparaFlow: a TLA+ model of the backend

VyaparaFlow (`src/README.md`) automates purchase and sale for a hardware
retailer. Its rules live in a FastAPI service over PostgreSQL (`src/backend`);
n8n orchestrates it from outside, by webhook and by `POST` requests with an
`Idempotency-Key`. This directory holds TLA+ modules for the parts where
concurrency, failure and ordering decide whether the system is right, TLC runs
over small instances, and TLAPS proofs for instances of any size.

Paths below are relative to `src/backend/app`.

1. [Inventory of the system](#1-inventory-of-the-system)
2. [Assumptions shared by all modules](#2-assumptions-shared-by-all-modules)
3. [The modules](#3-the-modules)
4. [The runs, their bounds and what they show](#4-the-runs-their-bounds-and-what-they-show)
5. [Fairness](#5-fairness)
6. [Proofs](#6-proofs)
7. [Disagreements between code and documentation](#7-disagreements-between-code-and-documentation)
8. [Not modelled](#8-not-modelled)
9. [Order of construction](#9-order-of-construction)

## 1. Inventory of the system

| Component | State | Operations | Interacts with | Hard behaviour | What makes it correct |
|---|---|---|---|---|---|
| Inventory movements, `services/inventory.py` | `inventory_items` (`on_hand`, `reserved`), append-only `stock_ledger` | reserve, release, receive, issue (from a reservation, direct), adjust; each a list of lines | called by sales and receiving inside their transactions | row locks over several rows, guards re-evaluated after a wait, rollback of half a call | the row and its ledger, two tables, never drift apart; the guards leave as little as possible to the CHECK constraints; a call is atomic; no deadlock |
| Sales orders, `services/sales.py` | `sales_orders` (`status`), `sales_order_items` (`reserved_qty`), `deliveries`, `customer_invoices` | create, quote, confirm, retry, deliver, invoice, counter sale | inventory, numbering, outbox | the order is read without a lock, so checks are stale when the stock moves | reserved, shipped and billed quantities agree with the stock and with the status |
| Approval chains, `services/approvals.py` | `approvals`, one row per level, delegations beside it | create chain, approve, reject (cascades), delegate, SLA sweep, status | called by n8n and the dashboard for purchase orders | check-then-insert, read-then-write by id, delegated rows that stay | one live row per level, approval bottom up, decisions final |
| Outbox, `services/outbox.py`, `workers/outbox_publisher.py` | `outbox_events` (`attempts`, `last_attempted_at`, `published_at`) | write in the business transaction; publish a batch | written by sales, procurement, receiving; posts to n8n | crashes between POST and commit, lost answers, backoff, a bounded batch, overlapping runs | published means received, every event is settled |
| Idempotency middleware, `core/idempotency.py` | `idempotency_keys` row, Redis lock with a time to live | one `dispatch` around any `POST` with the header | wraps every endpoint | lock expiry, crash between three commits, answers that cannot be stored | nothing runs again once its answer can be stored, replay is faithful, the key is not blocked |
| Numbering, `services/numbering.py` | `document_sequences` | next number per organisation, document type and financial year | every document | the row stays locked to the end of the transaction | unique, gapless, no deadlock with other locks |
| Procurement, `services/procurement.py` | `purchase_requisitions`, `purchase_orders` | detect shortage, requisition, convert, approved, rejected, sent | reacts to `shortage.detected`, asks approvals | conversion and decisions race | each requisition is converted once |
| Receiving, `services/receiving.py` | `goods_receipts`, `supplier_invoices` | receive, invoice | inventory, procurement, retry of waiting orders | stale sum of earlier receipts | never more than ordered, status tells |
| Matching, `services/matching.py` | `three_way_match_results`, the status of a supplier invoice | evaluate lines, match | receiving, payments | duplicate check and status written late | one verdict, consistent with its lines |
| Payments, `services/payments.py` | `payments`, allocations, `amount_paid` of invoices | record and allocate, aging | customer and supplier invoices | read-then-write of `amount_paid` | no allocation lost, never over-allocated |
| Pricing, `services/pricing.py` | none | price an order, HSN summary | sales, procurement | decimal rounding | totals are the sum of their parts |
| Tokens, `api/v1/auth.py` | `refresh_tokens` | login, refresh, logout | every request | rotation is read-then-write | a token is used once |
| Rate limiter, `core/ratelimit.py` | a Redis counter | count a request | login | two Redis calls | the window ends |

`PROJECT.json` lists these and the passive parts (master data, documents, the
event log, configuration, migrations), and every hazard at its line.

## 2. Assumptions shared by all modules

* A request is one database transaction at READ COMMITTED (Postgres's default;
  `db/session.py` sets nothing else): every statement sees the newest committed
  version and the transaction's own writes. An endpoint commits once, at its
  end (for example `api/v1/sales_orders.py:66`). An exception or a lost
  connection rolls back.
* A row that is inserted or updated stays locked until the transaction ends. A
  plain SELECT locks nothing. An `UPDATE ... WHERE` skips a row whose visible
  version fails the clause without waiting; otherwise it waits for the lock and
  evaluates the clause again on the version that was then committed. Hence an
  action needs both the guard on the visible version and a free lock, and the
  refusal needs no lock.
* The session flushes nothing before it is told to (`autoflush=False`), and
  writes an attribute only if its new value differs from the one that was
  loaded (SQLAlchemy's unit of work). `FlushStatus` in SalesOrders and `Record`
  in Outbox depend on it.
* Quantities are integers, meaning multiples of the columns' scale.

## 3. The modules

**StockRow** is one row of `inventory_items`, the rows of `stock_ledger` that
belong to it, and the six guarded UPDATEs of `_build_statement`. `Guard` is the WHERE
clause, `Moved` the SET clause, `Entered` the ledger row that `_apply` inserts with what
the UPDATE returned, `Check` the CHECK constraints. A `Book` keeps two lists of ledger
rows, since `balance_after` means `reserved` for RESERVE and RELEASE and `on_hand` for
the others. The module has no state of its own; Inventory, Stock and SalesOrders extend it.

**Inventory** is `services/inventory.py`. `com` holds the committed rows, `cur`
the newest versions, `lock` the holder of a row. `ledger` holds the committed ledger rows
and `added` those that each open transaction has inserted. The two tables are kept apart
as in the database: a commit publishes the transaction's row versions and appends its
ledger rows, which wait for no lock, so an update that overwrote another's would leave a
ledger that no longer tells the row. A request runs through
`EnsureRow` and `ApplyLine` for each line in `_sort_key` order and ends by
`Commit`, by `ConflictLine` (no row returned), by `ViolateCheck` (IntegrityError)
or by `Lose`.

**Stock** is what that module promises: a call is one atomic step, granted with
all its lines or refused with none. `Outcome` takes the lines of one row in their order
and tells what they make of it, which ledger rows they write and whether they fit, conflict with a guard or violate a constraint. Inventory
has the refinement mapping: `stock <- com`, the ledger is itself, and a request is pending while its
transaction runs. **MCInventory** gives the instances.

**SalesOrders** is one order with every request that can touch it: `Open` (load
and check the status), `LoadItems`, the three steps of `_best_effort_reserve`,
`LoadPrior`, `TakeNumber`, `IssueLine`, the `Finish...` actions that flush and
commit, and `InsertInvoice`, `ReadDeliveries`, `FinishInvoice`. Other orders are
present as the part of `reserved` that is not this order's. Three history variables
(`held`, `claimed`, `sold`) record what the requests really did to the
stock, independently of what the order row says. Abstractions:

  - the ledger is left to Inventory, and the stock rows exist already;
  - an order has one item per product (`Items` is ranked by product id);
  - one sequence row per document type, that is, one financial year;
  - `create_sales_order` takes no `sales_order` number here: the model has only
    one request that creates the order, so nobody else wants that row;
  - prices and amounts are left out; Pricing and Settlement have them, with the
    credit check;
  - a goods receipt (`Restock`) is an atomic step of the environment.

**Approvals** is the chain of one entity. `Plan` is
`determine_approval_chain`; each operation is split where it reads and where it
flushes. Whether `sla_due_at` has passed is an event of its own (`Expire`); comments
and approver ids are left out.

**Outbox** has the table, the batches of the publishers as they loaded them,
and n8n as a choice: it gets the event or not, and its answer arrives or not.
Time is relative (ticks left of a backoff, ticks since a run took `now`), which
keeps the state space finite and lets `EveryEventSettled` be checked without a
bound on time. `HeldUp` names the one thing that keeps an event from ever being tried: a
batch of older events that are exhausted, which `fetch_due_events` keeps loading.

**Idempotency** has the requests that carry one key in one scope. The endpoint
is one step with an outcome: JSON, bytes that are no JSON, an error, or an exception.
An exception and the deletion of the row that follows share the step `Settle` with
the other endings.

**Sourcing** is the arithmetic of procurement: the reorder quantity, the supplier
score and what rounding up to a minimum order quantity orders. `Score` is scaled so
that ratios stay whole; `Best` is a set, because rows come in no order and the sort
is stable, so any of the offers that tie may be first.

**Purchasing** extends it with the transactions of `services/procurement.py` and
`create_goods_receipt`: `Detect`, `CreateRequisition`, `LoadRequisition` and
`Convert` or `CannotConvert`, `LoadOrder` and `Decide` (approved, rejected, sent),
`LoadPrior` or `TooMuch`, and `Receive`. None of them locks what it reads, so each is
split between its reads and its flush. `stale` and `raced` are history: who has
read before somebody committed, and at which actions such requests have committed
since (`"convert"`, `"decide"`, `"receive"`). A property that needs an overlap to fail
names the kind of request that has to be stale, so an earlier overlap of another kind does
not excuse it; `repeated` records a receipt with two lines of one product. Abstractions:

  - one requisition; the orders of a conversion by `t` are `<< t, s >>`, one per
    supplier;
  - the lines of a receipt are given by product: the largest received quantity, the
    sum accepted and what the last line accepts, all that the code looks at;
  - statuses that nothing writes (`PENDING_APPROVAL` of an order, `INVOICED`, `PAID`) stay
    in the guards and out of the states;
  - the sequence row is left out: it is taken after the reads, and only makes
    others wait; rejected and damaged quantities change nothing.

**Matching** is `evaluate_three_way_match`: reason codes by line, flags of the
invoice, risk and verdict, and how the rows of three documents become lines (of several
rows of a product the dictionary keeps the last). Amounts are whole rupees and
percentages are compared by cross-multiplication.

**Allocation** is `allocate_payment`: explicit allocations and the automatic ones, oldest
invoice first. `AutoPlans` is a set, since invoices due on one day come in any order.

**Pricing** is `price_order`, the HSN summary's taxable values and the slices of
`create_customer_invoice_from_delivery`, in paise. Shares and taxes are exact
fractions where the code has 28-digit decimals. A percentage of an amount is assumed to
come to whole paise; the run `figures` chooses such amounts.

**Settlement** extends Matching and Allocation: the invoices of one customer and one
supplier, from sale or bill to the last payment. `CheckCredit`, then `Sell` or `Order`;
`BillDelivery`; `EnterBill` or `RefuseBill`; `LoadInvoice`, `Compare`, `Judge`; `Plan`,
`Take` (each invoice is loaded again) and `Pay` or `PayTooMuch`. `stale` and `raced`
are as in Purchasing; where a property is about one step, it asks that the very request that
takes it is stale (`CommitsStale`). Abstractions: an invoice is known before it exists, so
a sale or an order is named by the invoice that will bill it; row locks in the order of
the invoice ids only make others wait; stock, numbers and the flags that depend
on dates are left out.

**Figures** holds one case at a time (three documents, a quote, open invoices with a
payment, or offers) and compares what the operators of these modules say about it with
what a reader would ask of the answer. What may be asked is a constant, so the invariants
are checked for the cases of **MCFigures** and proved for any others.

`MC*.tla` give the constants their values. Operators introduced by "A fault:" are
mutated forms of the definition below them; no specification uses them. They
document which bug each property catches and are listed under `mutants` in
`PROJECT.json`.

## 4. The runs, their bounds and what they show

| Run | Bounds | What it shows |
|---|---|---|
| `inventory` | 2 rows, 2 requests, 9 calls covering each movement, both line orders and repeated lines; rows absent, free or fully reserved | concurrent calls keep rows and ledger in step, `on_hand` and `reserved` alike; only counter sales meet a CHECK constraint; lock waits climb; the transactions implement Stock; every request ends |
| `sales_serial` | 2 items (2 units and 1), 6 requests, one open at a time, 2 units received (enough to be reserved beyond an order) | over the life of an order: quantities, status, stock and what procurement has been told agree |
| `sales_concurrent` | 3 requests, 2 open at a time, three stages of the order, 1 unit received | what holds under races: units conserved, `reserved_qty` never promises more than was taken, no deadlock |
| `approvals_serial` | 5 requests, 4 rows, one subject for each possible plan | one live row per level, approval bottom up, cascade, finality |
| `outbox_worker` | 3 events, 1 publisher, batch 2, 2 attempts, backoff 1 tick, 1 crash | a crash forgets at most one attempt; a published event has been received; every event is settled unless a full batch of exhausted older ones holds it up |
| `idempotency` | 3 requests, 2 bodies, all four outcomes, 2 crashes, the lock may expire at any time | one runs at a time, nothing after a storable answer, faithful replay, a placeholder is orphaned only by a crash |
| `purchasing` | 3 products (two suppliers that tie, one better, none), 4 requests that ask, 2 open at a time, five openings: nothing, a requisition that can and one that cannot be converted, an order drafted and one sent | RECEIVED means all is there; no receipt without approval; a conversion covers every line; buying twice, over-receipt and contradictory decisions need a stale conversion, receipt or decision (or a product on two lines of a receipt) |
| `settlement` | 2 sales of one customer with limit 3, 2 bills of one supplier with one total, 4 requests, 2 open at a time, three kinds of documents, partial and full payments | nothing counts as paid that is not allocated; statuses tell how far an invoice is paid; of two equal bills one passes; a blocked bill is paid only by a payment that is itself stale; counter sales keep the limit unless they, or a payment before, are stale |
| `figures` | some 15,000 cases: bills around the 2%, 1%, 3% and Rs.100 tolerances, one or two priced lines with discounts that exceed the amount, up to 3 open invoices, pairs of offers, some beside a third that is free or immediate | approval means agreement; worse is never better; columns and slices add up; oldest first; a worse offer is never chosen |

The remaining runs expect a violation; section 7.

Why the bounds are enough. The guards compare sums with one boundary, so one or
two units on each side of it reach every outcome. Two rows and two requests
are needed for a crosswise lock order, and for a statement that waits behind a
writer; longer chains of waits and any number of requests and rows are covered by the
proofs (section 6), which for Inventory leave only liveness to this bound. Three requests with one key are a first, a retry that
overlaps it and one that comes after both. In SalesOrders a race needs two open requests, and a
third that follows sees its result; six serial requests cover create or quote, confirm,
retry, two deliveries and an invoice. A chain has at most two levels, so
four rows hold two delegations. The outbox has one event more than its batch holds (50 in the code, 2
here), so that a batch can be full of exhausted events while a younger one waits; three
events also let the batch change between runs. Publishers that overlap are left to the
proof of `PublishedIsReceived`. In
Purchasing and Settlement an overlap needs two open requests, and the others
prepare it or see its result: four reach from the requisition to a decision, and from a
draft through approval and sending to two receipts. Each opening is a state that
earlier requests lead to.
`MaxOpen`, `MaxRestock`, `MaxRows` and `MaxCrashes` are the bounds in guards.

## 5. Fairness

* Inventory: `WF(Step(t))` for each request. The event loop runs the request's
  task, and Postgres grants a lock once it is free. A request takes each lock
  once and is not repeated, so weak fairness suffices. `Lose` has none.
* SalesOrders: `WF(IsOpen(t) /\ Step(t))`: an open request goes on; no request
  has to arrive, no receipt, no crash.
* Outbox: the worker's schedule and its run go on (`Work`) and time passes
  (`Tick`). n8n owes nothing: `EveryEventSettled` holds although it may refuse
  everything, because attempts are bounded; refusals can only exhaust a whole batch, which
  the property names. `Crash` is bounded and has no fairness.
* Idempotency, Approvals, Purchasing and Settlement have no liveness property: nothing in
  the code makes anybody decide, deliver or pay, a request with a key never waits for
  another, and the others wait for no more than a row lock. Deadlock is checked in every
  passing run.

## 6. Proofs

**FoldFacts** has what the other modules cite about totals. The community modules define
`MapThenSumSet` by a recursive function over the subsets of a set, chosen by its equation.
`FoldExists` shows that such a function exists, by well-foundedness rather than by an
induction rule: a nonempty set of naturals has a least element (`LeastNatural`), a
nonempty set of subsets of a finite set has a minimal one (`MinimalSubset`), and a
minimal counterexample leads to a contradiction. From it follow what a total is
(`SumIsTotal`) and how it behaves: an element removed, a summand changed, terms that are
nothing, a part, a comparison, and totals over different sets when what changes in one
appears in the other (`TotalsMove`). `NaturalInduction` is induction for a given set,
`SubsetInduction` for the parts of a finite one. With it totals are added and scaled
(`TotalPlus`, `TotalScale`), taken group by group (`TotalByGroups`) and compared when each
term is within a bound of the other's (`TotalNear`).

**InventoryProofs**, for all sets of rows, requests, calls and opening tables
that satisfy the named ASSUMEs of Inventory: `TypeCorrect`, `LedgerIsExact`,
`ReservedIsRebuilt`, `GuardsSuffice`, `NoWaitCycle` and `ImplementsStock`. The inductive invariant `IInv` adds to the properties what they rest on:

  - `Quiet`: a row nobody holds has no uncommitted version. Without it a
    transaction could be the first to lock a row and find an unknown version in it.
  - `HoldersRun`: only an open transaction holds rows, so a commit or rollback
    leaves nothing locked.
  - `HeldBelow`: what a transaction holds lies at or before every row it still
    has to visit. It is what the sort in `_apply` gives, and `WaitsClimb` follows
    from it and `HoldersRun` without induction.
  - `HoldersEnter`: a transaction's uncommitted ledger rows are those of rows it holds.
    It is what ties the two tables: the ledger of a row grows only by the holder of the
    row, hence in the order of the versions, though the inserts themselves take no lock.
  - `AbsentIsEmpty`, `HeldIsPresent` and `EnsuredIsSeen`: an UPDATE finds its row, and a
    row that is not there has neither stock nor ledger.
  - `Checked`: every version satisfies the CHECK constraints. `GuardsSuffice` needs it:
    only from a version that satisfies them does a WHERE clause imply them again.

One-row lemmas carry the arithmetic: `GuardImpliesCheck` (every guard but the
counter sale's implies the constraints), `MovedKeepsLedger` (the new ledger row
continues the chain), `MovedKeepsReserved` (the sum of the deltas grows by its own),
`MovedIsVersion`.
`NextIInv` has a step per action.

`ImplementsStock` says that the transaction with its locks and partial work is, to every
caller, the atomic call. A step maps to a step of Stock when the transaction commits or
meets the line that fails; every other step is a stutter. The invariant `RInv` relates
what a transaction holds to the lines it has processed (`DoneFirst`, `DoneIsHeld`,
`HeldIsDone`), and `VersionIsRun` is its heart: the uncommitted version of a row is what
the processed lines of that row make of the committed one, and the ledger rows inserted
for it are those of these lines. So at a commit the rows are
what the atomic call makes of them, and at a failing line the call would fail too
(`FailedLineDecides`), although other rows have not been looked at.

**IdempotencyProofs**, for any requests, bodies and number of crashes:
`Exclusion`, `NothingTwice`, `ReplayIsFaithful` and `OrphansNeedCrash`. Three layers: `RowInv` (who owns
the key has its placeholder in the table, so two owners would share a row:
exclusion needs neither the Redis lock nor its time to live), `EffectInv` (after a
commit with a JSON answer the row stays and nobody is about to call), `IInv` (what
is stored is the answer of a request that committed). `NothingTwice` is about JSON
answers because only those are stored; see section 7 for the others.

**PurchasingProofs**, for any products, suppliers, offers, requests and openings that
satisfy the ASSUMEs of Purchasing, in three layers. `IInv` holds whatever overlaps: `WorkOK`
(an order that a request has loaded is there, and one it receives for was approved; what
it has summed as received before was accepted and stays so) and `OrderOK` give
`ReceivedIsComplete` and `ReceiptIsApproved`. The second layer is about requests that
are not stale: what they have checked still holds (`ReadsFresh`). This is
inductive because a commit makes every other open request stale (`FreshCommitting`). `UIInv`
adds that there is one conversion until a stale conversion commits, one decision until a
stale decision does, and no over-receipt until a stale receipt does or one names a product
twice; `BoughtOnceUnlessRaced`, `WithinOrderUnlessRaced`,
`DecidedOnceUnlessRaced` and `MovesAlong` follow. The third layer, `CInv`, is
`ConversionsCover`, also for conversions that overlap: a requisition that exists has lines, each
line finds a supplier in the `Best` offers or the conversion is refused, and rounding up to
the minimum order quantity covers what is asked for (`RoundUpCovers`). It assumes
finitely many suppliers, and that an opening's requisition has lines, which, if it was
converted, some order covers.

**SettlementProofs**, for any invoices, terms, limit, menu and openings that satisfy the
ASSUMEs of Settlement. `TakenIsAllocated` is the heart of `NothingPaidUnallocated`: what
a payment has read as paid is at most what is allocated by now, since allocations only
grow, so writing it back, even over a newer value, cannot count money that is
not there. `OneTwinApproved` needs `ClearedAlone`: of equal bills only one is approved or
about to be, as a match that sees another bill blocks (`TwinIsBlocked`) and bills never
disappear. `BlockedStaysUnpaid` and `BooksAgreeUnlessRaced` rest on `FreshPlans`:
what a request that is not stale has read is still so. So a blocked invoice gets
money only by a payment that is stale itself, and the books agree until a stale payment
commits; matches, bills and sales that overlap disturb neither. `CreditIsHeld` needs
`RoomForSales`: while a counter sale that is not stale waits to be written, exposure and its
total fit the limit. `Exposure`, the sum of the code, takes total less `amount_paid` of the
invoices whose status is neither PAID nor VOID; `Debt`, that of the property, takes the same
difference of every invoice of the customer, whatever its status says. `ExposureIsDebt` says
that the two agree while the books do. `Limit` is a natural number
(a CHECK constraint, `db/models/partners.py:22`), and the invoices are finitely many.

The same module has the invariants of Figures, since they are about what its actions
compute. The first six are theorems of `FiguresSpec` for any documents, amounts, quotes,
splits, open invoices and markets that satisfy its ASSUMEs: amounts are natural numbers,
no invoice is paid more than its total, and invoices and offers are finitely many. A state
is a case, so the invariant is that the case is one of them (`AlwaysAsked`); the work is
in what holds of every case.

  - `ApprovalsAgree`, from `ApprovedLinesAgree` and `ApprovedBillIsDue`: what an automatic
    approval has checked, line by line, and for the sum of a bill that names each product once;
  - `FurtherAlwaysNoBetter`, from `FurtherNeverBetter` and `MarkedIsNoBetter`: a line billed
    further from what was expected, or one more mark, never improves the verdict. Both rest
    on `MoreCodesNoBetter`: codes that only become more cannot lower the risk (`TotalOfPart`);
  - `OldestAlwaysFirst`, from `OldestPaidFirst`: `FillInOrder` is about places with room that
    an amount fills in order, by `PrefixTotals`; `DueOrder` says that a sort by due date is
    such an order of all the open invoices;
  - `WorseNeverBest`: a score is a sum of ratios, so two scores are compared at a common
    scale (`CommonScale`, `WeighedOrder`), with the cap of 100 points (`CappedOrder`) and
    each part of the score on its own (`PartsInOrder`);
  - `ColumnsAlwaysAddUp`: rounding moves a fraction by at most a half (`HalfUpBounds`), so a
    line's two parts of the header's discount come to the line or to a paisa more
    (`RoundedParts`), and the shares, times what they are shared over, to the shared amount
    (`SharesAddUp`). The HSN groups are a partition of the lines (`GroupsAddUp`);
  - `BilledAlwaysAsQuoted`: half to even is as near as half up (`HalfEvenBounds`), so the
    invoice of a delivery is within a paisa a line of its part of the order
    (`InvoiceNear`), and the parts sum to the whole.

**OutboxProofs**, for any events, publishers, batch, number of attempts, backoff and
crashes: `TypeCorrect`, `PublishedIsReceived` and `NeverUnpublished`. The invariant needs
`PostedOK`: a run that is about to record an event had an attempt left and, if it saw a 2xx
status, n8n has the event. What is received never shrinks, so a stale batch does no harm.
`CrashCostsOneAttempt` is about one publisher (`Alone`): the attempts the table does not know of
are at most the crashes and the one in flight (`OneInv`), because a run's counts are
the table's until it records (`Loaded`). Two publishers lose more, without a crash. The run has
one publisher; that overlapping ones publish only what was received is shown by
`PublishedIsReceived` alone.

**ApprovalsProofs**: the types whatever overlaps and, with `MaxOpen = 1`,
`ApprovedFromBelow`, `RejectionCloses`, `DecidedForGood` and `OneRowPerLevel` for chains and
requests of any number. `WorkFresh` says that what a request has read is still so; it is
inductive because nobody else is open (`NobodyElse`), and it is exactly what an overlap breaks
(section 7). `OneRowPerLevel` starts from the shape of a plan (`PlanShape`: one row a level,
no gap, the Owner's last) and follows the live rows through a decision, which keeps levels
and roles, and a delegation, which replaces a row by one of its level.

**SalesProofs**, for any items, warehouses, requests, menu and openings that satisfy the
ASSUMEs of SalesOrders, and any overlap: `TypeCorrect`, `ClaimsAreBacked` and
`UnitsAreConserved`. The heart of the second is
`ReservingOK`: while a request reserves, what it got for an item is what it has put on the
item's row, and what a retry adds to was claimed when it was loaded. Other requests cannot
disturb it (`OthersKeep`): the rows are locked, and claims only grow. So whichever of two
requests flushes last, what it stores is covered. `UnitsAreConserved` adds `StockOK`:
what an open request has taken off a shelf is what the lines it has issued so far come to, of
each item; its commit moves that total from the shelves to what is delivered or sold
(`TotalsMove`).

With `MaxOpen = 1` the same module proves `ClaimsAreExact` and
`StatusAlwaysTells`, from any opening whose status tells the truth. `StatusFollows` strengthens
the property: INVOICED exactly when all deliveries so far are billed. That is what the code
keeps and the induction needs, but not what its comment asks (`sales_partial`, section 7), so
`StatusTells` keeps the two implications that are right: INVOICED leaves no shipment unbilled,
and a complete order whose shipments are billed is INVOICED. `SeenOK` says that the
status and the quantities the open request has loaded are the order's, and
`DeliverersDone` that a delivery of an open request is not there yet. `OthersUndisturbed`
(no delivery takes what is reserved for another order) has more hypotheses, and each is
something the code does not check (section 7): one warehouse, deliveries that name an item
once, and an opening in which the stock holds for the order what the order says. Under them
what is held is what is reserved and not yet delivered (`Kept`).

The type invariants, `MovesAlong`, `NeverUnpublished` and the facts about
one call that the figures rest on are proved and have no run property of that form. `MaxOpen` is a constant of the modules, so the
serial theorems are about the same specification as the overlapping runs.

Proving about a CASE whose guards overlap would be proving about an unspecified choice of
TLA+, while TLC takes the first: `Verdict`, whose conditions do overlap (a blocked bill
usually has a risk of 20 or more), is therefore an IF.

Every invariant and every action property of a passing run is stated by a theorem. Only
model-checked is all liveness (`EveryRequestEnds` of Inventory and of SalesOrders,
`EveryEventSettled`), since ENABLED and fairness are out of the prover's reach.

## 7. Disagreements between code and documentation

Each run below checks one statement of a docstring, comment or test and finds
it violated; `findings` in `PROJECT.json` quotes it.

| Run | What happens |
|---|---|
| `approvals_delegation` | a delegated level blocks the levels above for good |
| `figures_gst` | a bill of what was accepted at the agreed price has an amount variance, because its line total includes GST and what it is compared with does not; more than Rs.555 a line before 18% GST is never approved automatically |
| `sales_partial` | once a partial shipment is billed the order is INVOICED, and the rest, although reserved, cannot be delivered |

`approvals_delegation` and `sales_partial` need no overlap, and `figures_gst` is about one
correct document.

The modules contain more behaviours of this kind, for which no run of their own is
kept. They bound what the passing runs may claim, and the reader should not take
the serial properties for more than they are.

Known limits of sales, approvals, the outbox and idempotency:

* A delivery from another warehouse than the one that holds the reservation consumes
  what another order has reserved there (`services/sales.py:897`); two lines of one item
  in a delivery are each compared with the same outstanding quantity (846), and two
  deliveries that overlap with the same stale sum (832). All three take the
  reservations of others: `OthersKeepTheirs` is therefore checked in `sales_serial` only,
  with one warehouse and one line per item.
* The SLA sweep writes ESCALATED by id on rows it read as pending
  (`services/approvals.py:423`) and reopens a level that was decided in between:
  `DecisionsAreFinal` is checked for requests that do not overlap.
* Exhausted events keep their place in the batch: `fetch_due_events` asks for
  `published_at` alone (`workers/outbox_publisher.py:117-124`), so once they fill it no
  younger event is ever tried. The docstring (24-26) says that they "simply stop being
  picked up by `fetch_due_events()`". `EveryEventSettled` names this case (`HeldUp`), and
  TLC finds it violated in the same instance without that disjunct.
* A process that dies behind the placeholder leaves the key in progress for good
  (`core/idempotency.py:178`; `expires_at` is never looked at):
  `OrphanNeedsCrash` says that it takes a crash.
* Two overlapping confirmations reserve twice (484), and the stored `reserved_qty` is
  one of the two: `ClaimExact` is a serial property, `ClaimBacked` the one that
  survives.
* Stock that arrives between the failed attempt and the re-read can be reserved
  beyond the order (311); the CHECK then fails the request (`FailReservation`).
* A delivery that commits while an invoice is written can stay unbilled under INVOICED
  (1074), or write DISPATCHED over it: `StatusTells` is checked serially.
* Two creations of a chain that overlap both find none (`services/approvals.py:226`).
* A 2xx answer that is no JSON deletes the key's row (`core/idempotency.py:225`), so a
  retry runs the endpoint again: hence the condition in `NothingAfterStorable`.
* Two invoices of one order that are dated in different financial years lock different
  sequence rows (1003), so neither may see the other's bill and the order stays
  DISPATCHED; the model has one sequence row per document type.

Known limits of purchasing and settlement:

* Overlaps buy a requisition twice, over-receive an order, or leave the event of an
  approval for an order that is cancelled; the properties say that it takes a stale
  conversion, receipt or decision, and do not rule that out.
* One receipt with two lines of one item over-receives without any overlap: each line is
  compared on its own with what earlier receipts left (`services/receiving.py:167-174`). The
  docstring (19-23) says that the guard keeps receipts from summing "past what was
  actually ordered". `OverReceiptNeedsOverlap` excuses it by `repeated`.
* Shortage detection counts what is there and ignores what is on order
  (`services/procurement.py:302`), so detecting again asks for the same need again.
  `create_purchase_orders_from_requisition` converts a requisition that waits for approval
  (471); the comment at 430-435 says that the orders are approved instead.
* The last receipt decides whether an order is fully received from the lines it names
  itself (`services/receiving.py:251`), and from the last of two lines of one product
  (246). An order whose receipts name different products never becomes RECEIVED, and
  a receipt of nothing may take RECEIVED back; `ReceivedMeansAll` is the direction that
  holds.
* A receipt that does not bring every product of the order is blocked when it is
  matched, unless the invoice bills the rest (`services/matching.py:453`), although
  one match per receipt and invoice is intended (9-15).
* A duplicate is a bill of exactly the same total at any date (486), where the
  message speaks of a similar amount and a close date (316). A bill that names a
  product twice is compared by its last line (440): `ApprovedMeansAgreed` bounds the
  bill's sum for the others.
* A match that follows a payment overwrites PAID (517): `BooksAgree` says that PAID means
  paid, for suppliers not the converse. A payment that overlaps with the
  match that blocks a bill still goes through, and after a lost update an invoice may owe
  what was paid, or be PAID with an amount owed.
* The credit check sums invoices, so confirmed orders that are not billed yet do not count
  (`services/sales.py:270`), and the bill of a delivery is not checked again:
  `CreditHeld` is about counter sales.
* A supplier that asks nothing, or delivers at once, leaves every other without points for
  its price or its lead time (`services/procurement.py:204`), so among the others a higher
  price or a longer lead time costs nothing: the proviso of `WorseInSome`.

## 8. Not modelled

Left out for good: the values of document numbers (one upsert under a row lock, which a
model would restate), refresh tokens and the rate limiter (two short
steps each; their hazards are listed), master data, PDF rendering and object storage, the
workflow event log, password hashing and JWTs, permissions (stateless lookups),
configuration, migrations, seed data, n8n itself beyond its webhook, and what only
reads: the aging report, an invoice's balance, listings. Within
modelled components: rounding beyond three decimals of a quantity and beyond the paise
of a percentage, invoices of one order in two financial years, credit and debit
notes and the ledger entries (tables that no service writes), the derivation
of an idempotency scope, and failures of single Redis calls other than as a crash.

## 9. Order of construction

StockRow, Inventory with Stock (the core, everything else moves stock through it),
InventoryProofs, SalesOrders, Approvals, Outbox, Idempotency, IdempotencyProofs; then
Sourcing and Purchasing, Matching, Allocation, Pricing, Figures, Settlement,
PurchasingProofs and SettlementProofs; then OutboxProofs, ApprovalsProofs and SalesProofs;
then FoldFacts, with what it made provable: totals, the refinement, conservation, the
credit limit and the figures.

What would add most next: the composition of orders, shortage event, outbox delivery
with duplicates, idempotent endpoints, receipt and retry. No module of these declares a RECURSIVE operator.
