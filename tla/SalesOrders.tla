---------------------------- MODULE SalesOrders -----------------------------
(***************************************************************************)
(* services/sales.py: one sales order from its creation, or from a quote,  *)
(* through reservation, dispatch and invoicing, with the requests that     *)
(* act on it at the same time.  A request is one transaction; what it      *)
(* reads before it locks a row may be stale when it writes.  The stock     *)
(* rows are those of Inventory without the ledger, and also hold what      *)
(* other orders have reserved.                                             *)
(*                                                                         *)
(* The ORM flushes an attribute only if its new value differs from the     *)
(* value that was loaded; nothing locks the order row at load time.        *)
(***************************************************************************)
EXTENDS StockRow, FiniteSetsExt

CONSTANTS
  Items,       \* the order's lines, each an integer: its rank by product id
  Quantity,    \* what the order asks of each line
  Warehouses,
  Requests,    \* the requests, each at most one transaction; a delivery has
               \* the name of the request that created it
  Menu,        \* what a request may ask for: [op, wh, lines]
  Openings,    \* the states the system may start from
  MaxOpen,     \* bound: transactions open at a time
  MaxRestock,  \* bound: units the environment receives into stock
  Nobody

Statuses == {"ABSENT", "DRAFT", "CONFIRMED", "PARTIALLY_RESERVED", "RESERVED",
             "DISPATCHED", "INVOICED"}
Dispatchable == {"RESERVED", "PARTIALLY_RESERVED", "DISPATCHED"}
Creating == {"CREATE", "QUOTE"}
Ops == Creating \cup {"CONFIRM", "RETRY", "DELIVER", "SELL", "INVOICE"}
DocTypes == {"delivery", "customer_invoice"}
Rows == Items \X Warehouses

ASSUME ItemsAssumption ==
  /\ Items \subseteq Nat /\ IsFiniteSet(Items) /\ IsFiniteSet(Warehouses)
  /\ Quantity \in [Items -> Nat \ {0}]
ASSUME RequestsAssumption ==
  IsFiniteSet(Requests) /\ Nobody \notin Requests /\ MaxOpen \in Nat
ASSUME MenuAssumption ==
  \A m \in Menu : m.op \in Ops /\ m.wh \in Warehouses
                  /\ m.lines \in Seq([item: Items, qty: Nat \ {0}])
ASSUME OpeningsAssumption ==
  \A o \in Openings :
    /\ o.order \in [status: Statuses, reserved: [Items -> Nat]]
    /\ o.stock \in [Rows -> [onHand: Nat, reserved: Nat]]
    /\ \A r \in Rows : o.stock[r].reserved <= o.stock[r].onHand
    /\ o.held \in [Rows -> Int] /\ o.alerted \in BOOLEAN

VARIABLES
  order,      \* the committed sales_orders row with its items: status, reserved
  delivered,  \* per item, the sum of its committed delivery_items
  deliveries, \* the committed deliveries
  invoiced,   \* the deliveries that a committed customer invoice bills
  alerted,    \* a shortage.detected event is in the outbox
  com, cur,   \* the committed and the newest version of every stock row
  lock,       \* who holds a stock row
  seq,        \* who holds a document sequence
  pc,         \* where each request is
  work,       \* what it was asked and what it has read
  held,       \* history: the part of each stock row's `reserved` that this
              \* order's requests put there and have not shipped
  claimed,    \* history: per item, all that its reservations ever put there
  sold,       \* history: units of each item that left in counter sales
  restock     \* units received so far

orderVars == << order, delivered, deliveries, invoiced, alerted >>
stockVars == << com, cur, lock, seq >>
history == << held, claimed, sold, restock >>
vars == << orderVars, stockVars, pc, work, history >>

NoWork == [op |-> "NONE", wh |-> Nobody, lines |-> <<>>, of |-> Nobody, seen |-> "ABSENT",
           loaded |-> [i \in Items |-> 0], got |-> [i \in Items |-> 0], left |-> {},
           avail |-> 0, all |-> {}]

Init ==
  /\ \E o \in Openings :
       /\ order = o.order
       /\ com = o.stock
       /\ held = o.held
       /\ claimed = o.order.reserved
       /\ alerted = o.alerted
  /\ delivered = [i \in Items |-> 0]
  /\ deliveries = {} /\ invoiced = {}
  /\ cur = com
  /\ lock = [r \in Rows |-> Nobody]
  /\ seq = [s \in DocTypes |-> Nobody]
  /\ pc = [t \in Requests |-> "idle"]
  /\ work = [t \in Requests |-> NoWork]
  /\ sold = [i \in Items |-> 0]
  /\ restock = 0
-----------------------------------------------------------------------------
Ended == {"done", "rejected"}
IsOpen(t) == pc[t] \notin Ended \cup {"idle"}
Goto(t, where) == pc' = [pc EXCEPT ![t] = where]
Row(t, i) == << i, work[t].wh >>
Seen(t, r) == IF lock[r] = t THEN cur[r] ELSE com[r]
Free(t, r) == lock[r] \in {Nobody, t}
IsNextItem(t, i) == i \in work[t].left /\ \A j \in work[t].left : i <= j

\* The locks and sequences once t has ended.
Unlocked(t) == [r \in Rows |-> IF lock[r] = t THEN Nobody ELSE lock[r]]
Unheld(t) == [s \in DocTypes |-> IF seq[s] = t THEN Nobody ELSE seq[s]]

\* What t, if it commits now, has added to the reservation on row r.
Put(t, r) == IF lock[r] = t THEN cur[r].reserved - com[r].reserved ELSE 0

\* t commits: its versions become visible and its locks are free.
CommitStock(t) ==
  /\ com' = [r \in Rows |-> IF lock[r] = t THEN cur[r] ELSE com[r]]
  /\ lock' = Unlocked(t) /\ seq' = Unheld(t)
  /\ UNCHANGED cur

\* t rolls back: an AppError, an IntegrityError, or the process dies.
Reject(t) ==
  /\ cur' = [r \in Rows |-> IF lock[r] = t THEN com[r] ELSE cur[r]]
  /\ lock' = Unlocked(t) /\ seq' = Unheld(t)
  /\ Goto(t, "rejected")
  /\ work' = [work EXCEPT ![t] = NoWork]
  /\ UNCHANGED << orderVars, com, history >>

\* t takes stock row r to version v.
Write(t, r, v) ==
  /\ Free(t, r)
  /\ cur' = [cur EXCEPT ![r] = v]
  /\ lock' = [lock EXCEPT ![r] = t]
  /\ UNCHANGED << com, seq >>
-----------------------------------------------------------------------------
\* The order's status lets the operation start.
Admits(op, status) ==
  CASE op \in Creating -> status = "ABSENT"
    [] op = "CONFIRM"  -> status = "DRAFT"
    [] op = "RETRY"    -> status \in {"CONFIRMED", "PARTIALLY_RESERVED"}
    [] op = "DELIVER"  -> status \in Dispatchable
    [] OTHER           -> TRUE

FirstStep(op) ==
  CASE op = "CREATE" -> "reserve"
    [] op = "QUOTE"  -> "finish"
    [] op \in {"CONFIRM", "RETRY", "DELIVER"} -> "items"
    [] OTHER -> "number"

\* A request begins: it reads the order and checks the status.  An invoice
\* names a delivery it can find.  Bounds: MaxOpen, and one order, so one
\* request that creates it.
Open(t, m, of) ==
  /\ pc[t] = "idle"
  /\ Cardinality({u \in Requests : IsOpen(u)}) < MaxOpen
  /\ m.op \notin Creating \cup {"SELL"} => order.status # "ABSENT"
  /\ m.op \in Creating => /\ order.status = "ABSENT"
                          /\ \A u \in Requests : IsOpen(u) => work[u].op \notin Creating
  /\ IF m.op = "INVOICE" THEN of \in deliveries ELSE of = Nobody
  /\ IF Admits(m.op, order.status)
     THEN /\ Goto(t, FirstStep(m.op))
          /\ work' = [work EXCEPT ![t] =
               [NoWork EXCEPT !.op = m.op, !.wh = m.wh, !.lines = m.lines, !.of = of,
                              !.seen = order.status,
                              !.left = IF m.op = "CREATE" THEN Items
                                       ELSE IF m.op = "SELL" THEN DOMAIN m.lines ELSE {}]]
     ELSE /\ Goto(t, "rejected")
          /\ UNCHANGED work
  /\ UNCHANGED << orderVars, stockVars, history >>

\* SELECT the order's items.
LoadItems(t) ==
  /\ pc[t] = "items"
  /\ LET short == {i \in Items : order.reserved[i] < Quantity[i]} IN
       work' = [work EXCEPT ![t].loaded = order.reserved,
                            ![t].left = CASE work[t].op = "CONFIRM" -> Items
                                          [] work[t].op = "RETRY"   -> short
                                          [] OTHER -> DOMAIN work[t].lines]
  /\ Goto(t, IF work[t].op = "DELIVER" THEN "prior" ELSE "reserve")
  /\ UNCHANGED << orderVars, stockVars, history >>
-----------------------------------------------------------------------------
\* _best_effort_reserve.

\* What the loop tries to reserve for item i.
Want(t, i) == Quantity[i] - (IF work[t].op = "RETRY" THEN work[t].loaded[i] ELSE 0)

\* One reservation of q units for item i succeeds.
Reserve(t, i, q) ==
  /\ Write(t, Row(t, i), Shift(Seen(t, Row(t, i)), "RESERVE", q))
  /\ work' = [work EXCEPT ![t].got[i] = q, ![t].left = @ \ {i}]
  /\ Goto(t, "reserve")

\* The full quantity is tried first; the guard decides on the version the
\* statement sees, without a lock if it fails.
ReserveFull(t, i) ==
  /\ pc[t] = "reserve"
  /\ IsNextItem(t, i)
  /\ \/ /\ Guard(Seen(t, Row(t, i)), "RESERVE", Want(t, i))
        /\ Reserve(t, i, Want(t, i))
     \/ /\ ~Guard(Seen(t, Row(t, i)), "RESERVE", Want(t, i))
        /\ Goto(t, "avail")
        /\ UNCHANGED << stockVars, work >>
  /\ UNCHANGED << orderVars, history >>

\* get_available: a plain read.
ReadAvailable(t, i) ==
  /\ pc[t] = "avail"
  /\ IsNextItem(t, i)
  /\ LET n == Available(Seen(t, Row(t, i))) IN
       IF n <= 0
       THEN /\ work' = [work EXCEPT ![t].left = @ \ {i}]
            /\ Goto(t, "reserve")
       ELSE /\ work' = [work EXCEPT ![t].avail = n]
            /\ Goto(t, "rest")
  /\ UNCHANGED << orderVars, stockVars, history >>

\* A fault: the lost race is not noticed.
ReserveRestUnnoticed(t, i) ==
  /\ pc[t] = "rest"
  /\ IsNextItem(t, i)
  /\ \/ /\ Guard(Seen(t, Row(t, i)), "RESERVE", work[t].avail)
        /\ Reserve(t, i, work[t].avail)
     \/ /\ ~Guard(Seen(t, Row(t, i)), "RESERVE", work[t].avail)
        /\ work' = [work EXCEPT ![t].left = @ \ {i}, ![t].got[i] = work[t].avail]
        /\ Goto(t, "reserve")
        /\ UNCHANGED stockVars
  /\ UNCHANGED << orderVars, history >>

\* What was available is tried once; a lost race leaves the line without.
ReserveRest(t, i) ==
  /\ pc[t] = "rest"
  /\ IsNextItem(t, i)
  /\ \/ /\ Guard(Seen(t, Row(t, i)), "RESERVE", work[t].avail)
        /\ Reserve(t, i, work[t].avail)
     \/ /\ ~Guard(Seen(t, Row(t, i)), "RESERVE", work[t].avail)
        /\ work' = [work EXCEPT ![t].left = @ \ {i}]
        /\ Goto(t, "reserve")
        /\ UNCHANGED stockVars
  /\ UNCHANGED << orderVars, history >>

\* A fault: a retry stores only what it added.
NewReservedReplaced(t, i) == work[t].got[i]

\* The reserved_qty the request assigns to item i.
NewReserved(t, i) ==
  work[t].got[i] + (IF work[t].op = "RETRY" THEN work[t].loaded[i] ELSE 0)

\* _finalize_status.
NewStatus(t) ==
  IF \A i \in Items : NewReserved(t, i) = Quantity[i] THEN "RESERVED"
  ELSE IF \E i \in Items : NewReserved(t, i) > 0 THEN "PARTIALLY_RESERVED"
  ELSE "CONFIRMED"

\* The status column after a flush that assigned s: unchanged if s is what
\* was loaded.
FlushStatus(t, s) == IF s = work[t].seen THEN order.status ELSE s

\* has_shortage: a binding order that was left short becomes an event.
ReportsShortage(t) == work[t].op # "RETRY" /\ NewStatus(t) # "RESERVED"

\* The CHECK constraint of sales_order_items.
FitsQuantity(t) == \A i \in Items : NewReserved(t, i) <= Quantity[i]

\* The order, its items and the shortage event are flushed and committed.
FinishReservation(t) ==
  /\ pc[t] = "reserve" /\ work[t].left = {}
  /\ FitsQuantity(t)
  /\ order' =
       [status   |-> FlushStatus(t, NewStatus(t)),
        reserved |-> [i \in Items |-> IF NewReserved(t, i) = work[t].loaded[i]
                                      THEN order.reserved[i] ELSE NewReserved(t, i)]]
  /\ alerted' = (alerted \/ ReportsShortage(t))
  /\ held' = [r \in Rows |-> held[r] + Put(t, r)]
  /\ claimed' = [i \in Items |-> claimed[i] + Put(t, Row(t, i))]
  /\ CommitStock(t)
  /\ Goto(t, "done")
  /\ work' = [work EXCEPT ![t] = NoWork]
  /\ UNCHANGED << delivered, deliveries, invoiced, sold, restock >>

\* The flush breaks the CHECK: an IntegrityError.
FailReservation(t) ==
  /\ pc[t] = "reserve" /\ work[t].left = {}
  /\ ~FitsQuantity(t)
  /\ Reject(t)

\* create_sales_order(is_quote=True): the priced lines, no inventory, no event.
FinishQuote(t) ==
  /\ pc[t] = "finish" /\ work[t].op = "QUOTE"
  /\ order' = [status |-> "DRAFT", reserved |-> [i \in Items |-> 0]]
  /\ CommitStock(t)
  /\ Goto(t, "done")
  /\ work' = [work EXCEPT ![t] = NoWork]
  /\ UNCHANGED << delivered, deliveries, invoiced, alerted, history >>
-----------------------------------------------------------------------------
\* A fault: earlier deliveries are not looked at.
LoadPriorIgnored(t) ==
  /\ pc[t] = "prior"
  /\ IF \A k \in DOMAIN work[t].lines :
          LET l == work[t].lines[k] IN l.qty <= work[t].loaded[l.item]
     THEN /\ Goto(t, "number")
          /\ UNCHANGED << orderVars, stockVars, work, history >>
     ELSE Reject(t)

\* create_delivery: the sum of earlier deliveries is read and every line of the
\* request is compared, on its own, with what is reserved and not delivered.
LoadPrior(t) ==
  /\ pc[t] = "prior"
  /\ IF \A k \in DOMAIN work[t].lines :
          LET l == work[t].lines[k] IN l.qty <= work[t].loaded[l.item] - delivered[l.item]
     THEN /\ Goto(t, "number")
          /\ UNCHANGED << orderVars, stockVars, work, history >>
     ELSE Reject(t)

\* next_document_number: the sequence row stays locked until the transaction
\* ends.  An invoice goes on to its INSERT, the others to the stock.
TakeNumber(t) ==
  /\ pc[t] = "number"
  /\ LET s == IF work[t].op = "DELIVER" THEN "delivery" ELSE "customer_invoice" IN
       /\ seq[s] = Nobody
       /\ seq' = [seq EXCEPT ![s] = t]
  /\ Goto(t, IF work[t].op = "INVOICE" THEN "insert" ELSE "issue")
  /\ UNCHANGED << orderVars, com, cur, lock, work, history >>

\* A fault: the lines are issued in the order of the request.
IsNextLineAsGiven(t, k) == k \in work[t].left /\ \A j \in work[t].left : k <= j

\* inventory.issue sorts its lines by row; the sort is stable.
IsNextLine(t, k) ==
  /\ k \in work[t].left
  /\ \A j \in work[t].left :
       \/ work[t].lines[k].item < work[t].lines[j].item
       \/ work[t].lines[k].item = work[t].lines[j].item /\ k <= j

\* inventory.issue: line k, in the order of the products, leaves the stock; a
\* delivery takes it out of the reservation, a counter sale does not.
IssueLine(t, k) ==
  /\ pc[t] = "issue"
  /\ IsNextLine(t, k)
  /\ LET l    == work[t].lines[k]
         kind == IF work[t].op = "DELIVER" THEN "ISSUE" ELSE "DIRECT_ISSUE"
         r    == Row(t, l.item)
         v    == Shift(Seen(t, r), kind, l.qty)
     IN  \/ /\ Guard(Seen(t, r), kind, l.qty) /\ Check(v)
            /\ Write(t, r, v)
            /\ work' = [work EXCEPT ![t].left = @ \ {k}]
            /\ UNCHANGED << orderVars, pc, history >>
         \/ /\ ~Guard(Seen(t, r), kind, l.qty)
            /\ Reject(t)
         \/ /\ Guard(Seen(t, r), kind, l.qty) /\ Free(t, r) /\ ~Check(v)
            /\ Reject(t)

\* A fault: a map from item to line keeps one line of an item.
OnLinesLast(t, i) ==
  LET mine == {k \in DOMAIN work[t].lines : work[t].lines[k].item = i}
  IN  IF mine = {} THEN 0 ELSE work[t].lines[Max(mine)].qty

\* Units of item i on the request's lines.
OnLines(t, i) ==
  MapThenSumSet(LAMBDA k : work[t].lines[k].qty,
                {k \in DOMAIN work[t].lines : work[t].lines[k].item = i})

FinishDelivery(t) ==
  /\ pc[t] = "issue" /\ work[t].op = "DELIVER" /\ work[t].left = {}
  /\ order' = [order EXCEPT !.status = FlushStatus(t, "DISPATCHED")]
  /\ delivered' = [i \in Items |-> delivered[i] + OnLines(t, i)]
  /\ deliveries' = deliveries \cup {t}
  /\ held' = [r \in Rows |-> held[r] + Put(t, r)]
  /\ CommitStock(t)
  /\ Goto(t, "done")
  /\ work' = [work EXCEPT ![t] = NoWork]
  /\ UNCHANGED << invoiced, alerted, claimed, sold, restock >>

\* create_counter_sale commits: an invoice of its own, no order.
FinishSale(t) ==
  /\ pc[t] = "issue" /\ work[t].op = "SELL" /\ work[t].left = {}
  /\ sold' = [i \in Items |-> sold[i] + OnLines(t, i)]
  /\ CommitStock(t)
  /\ Goto(t, "done")
  /\ work' = [work EXCEPT ![t] = NoWork]
  /\ UNCHANGED << orderVars, held, claimed, restock >>
-----------------------------------------------------------------------------
\* create_customer_invoice_from_delivery: the INSERT meets the UNIQUE
\* constraint on delivery_id.
InsertInvoice(t) ==
  /\ pc[t] = "insert"
  /\ IF work[t].of \in invoiced
     THEN Reject(t)
     ELSE /\ Goto(t, "all")
          /\ UNCHANGED << orderVars, stockVars, work, history >>

\* SELECT the ids of all deliveries of the order.
ReadDeliveries(t) ==
  /\ pc[t] = "all"
  /\ work' = [work EXCEPT ![t].all = deliveries]
  /\ Goto(t, "finish")
  /\ UNCHANGED << orderVars, stockVars, history >>

\* A fault: the order is INVOICED with its first invoice.
FinishInvoiceAtOnce(t) ==
  /\ pc[t] = "finish" /\ work[t].op = "INVOICE"
  /\ invoiced' = invoiced \cup {work[t].of}
  /\ order' = [order EXCEPT !.status = FlushStatus(t, "INVOICED")]
  /\ CommitStock(t)
  /\ Goto(t, "done")
  /\ work' = [work EXCEPT ![t] = NoWork]
  /\ UNCHANGED << delivered, deliveries, alerted, history >>

\* SELECT which of them are billed, advance the order if all are, commit.  No
\* other invoice commits between the SELECT and the commit: the sequence row
\* is locked.
FinishInvoice(t) ==
  /\ pc[t] = "finish" /\ work[t].op = "INVOICE"
  /\ invoiced' = invoiced \cup {work[t].of}
  /\ order' = IF work[t].all \subseteq invoiced'
              THEN [order EXCEPT !.status = FlushStatus(t, "INVOICED")] ELSE order
  /\ CommitStock(t)
  /\ Goto(t, "done")
  /\ work' = [work EXCEPT ![t] = NoWork]
  /\ UNCHANGED << delivered, deliveries, alerted, history >>
-----------------------------------------------------------------------------
\* The process or its connection dies inside the transaction.
Lose(t) == IsOpen(t) /\ Reject(t)

\* A goods receipt adds a unit to a row (services/receiving.py).
Restock(r) ==
  /\ restock < MaxRestock
  /\ lock[r] = Nobody
  /\ com' = [com EXCEPT ![r].onHand = @ + 1]
  /\ cur' = [cur EXCEPT ![r].onHand = @ + 1]
  /\ restock' = restock + 1
  /\ UNCHANGED << orderVars, lock, seq, pc, work, held, claimed, sold >>

Step(t) ==
  \/ \E m \in Menu, of \in Requests \cup {Nobody} : Open(t, m, of)
  \/ LoadItems(t) \/ LoadPrior(t) \/ TakeNumber(t)
  \/ \E i \in Items : ReserveFull(t, i) \/ ReadAvailable(t, i) \/ ReserveRest(t, i)
  \/ \E k \in work[t].left : IssueLine(t, k)
  \/ FinishReservation(t) \/ FailReservation(t) \/ FinishQuote(t)
  \/ FinishDelivery(t) \/ FinishSale(t)
  \/ InsertInvoice(t) \/ ReadDeliveries(t) \/ FinishInvoice(t)

\* All requests have been answered, or nothing on the menu can be asked for.
Finished == (\A t \in Requests : ~IsOpen(t)) /\ UNCHANGED vars

Next == \/ \E t \in Requests : Step(t) \/ Lose(t)
        \/ \E r \in Rows : Restock(r)
        \/ Finished

Spec == Init /\ [][Next]_vars

\* The event loop and the database run an open request until it waits for a
\* lock; when it is next asked for, or whether it dies, is left open.
FairSpec == Spec /\ \A t \in Requests : WF_vars(IsOpen(t) /\ Step(t))
-----------------------------------------------------------------------------
\* The types, but for `delivered` and `sold`, which are sums over request lines.
TypeOK ==
  /\ order \in [status: Statuses, reserved: [Items -> Nat]]
  /\ deliveries \subseteq Requests /\ invoiced \subseteq deliveries
  /\ alerted \in BOOLEAN
  /\ com \in [Rows -> [onHand: Nat, reserved: Nat]]
  /\ \A r \in Rows : com[r].reserved <= com[r].onHand
  /\ cur \in [Rows -> [onHand: Nat, reserved: Nat]]
  /\ lock \in [Rows -> Requests \cup {Nobody}]
  /\ seq \in [DocTypes -> Requests \cup {Nobody}]
  /\ \A t \in Requests : IsOpen(t) <=> work[t].op # "NONE"
  /\ held \in [Rows -> Int]
  /\ claimed \in [Items -> Nat] /\ restock \in Nat

\* reserved_qty never says more than the order's reservations took out of the
\* stock (_best_effort_reserve and the three functions that store its result),
\* although two requests may each overwrite what the other stored.
ClaimBacked == \A i \in Items : order.reserved[i] <= claimed[i]

\* One request at a time, nothing is lost either: reserved_qty is what the
\* reservations took, so no stock stays reserved for nobody.
ClaimExact == \A i \in Items : order.reserved[i] = claimed[i]

\* "a delivery consumes an existing reservation" (create_delivery): as long as
\* deliveries come one at a time, from the warehouse that holds the reservation,
\* none takes what another order holds on the row.
OthersKeepTheirs == \A r \in Rows : held[r] >= 0

\* The order's status tells what is reserved, shipped and billed: an order is
\* INVOICED only while every delivery is billed, and is INVOICED once all it
\* asked for is shipped and billed (_finalize_status, create_delivery,
\* create_customer_invoice_from_delivery).  An order that is short has told
\* procurement, which a quote has not (the shortage.detected event of
\* create_sales_order and confirm_sales_order).
StatusTells ==
  LET full == \A i \in Items : order.reserved[i] = Quantity[i]
      none == \A i \in Items : order.reserved[i] = 0
  IN  /\ order.status \in {"ABSENT", "DRAFT", "CONFIRMED"} => none
      /\ order.status = "PARTIALLY_RESERVED" => ~none /\ ~full
      /\ order.status = "RESERVED" => full
      /\ order.status \in {"DISPATCHED", "INVOICED"} <=> deliveries # {}
      /\ order.status = "INVOICED" => deliveries = invoiced
      /\ deliveries # {} /\ deliveries = invoiced /\ (\A i \in Items : delivered[i] = Quantity[i])
           => order.status = "INVOICED"
      /\ order.status \in {"CONFIRMED", "PARTIALLY_RESERVED"} => alerted
      /\ order.status \in {"ABSENT", "DRAFT"} => ~alerted

\* "a partial shipment can be invoiced on its own without blocking a later
\* delivery/invoice pair for the rest of the order" (the comment in
\* create_customer_invoice_from_delivery): what is reserved and not yet shipped
\* can still be delivered once a shipment is billed.
PartialInvoiceBlocksNothing ==
  invoiced # {} /\ (\E i \in Items : delivered[i] < order.reserved[i])
    => Admits("DELIVER", order.status)

\* Goods in stock, shipped or sold: each commit moves units, none appears or
\* disappears, whatever the interleaving (create_delivery's items against the
\* rows inventory.issue changed).
Units == MapThenSumSet(LAMBDA r : com[r].onHand, Rows)
         + MapThenSumSet(LAMBDA i : delivered[i] + sold[i], Items) - restock
UnitsConserved == [][Units' = Units]_vars

\* No two requests wait for each other forever: sequence rows before stock
\* rows, stock rows in the order of the products.
EveryRequestEnds == \A t \in Requests : IsOpen(t) ~> ~IsOpen(t)
=============================================================================
