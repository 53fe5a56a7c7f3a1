----------------------------- MODULE Settlement -----------------------------
(***************************************************************************)
(* The invoices of one customer and one supplier, from the sale or the     *)
(* supplier's bill to the last payment: record_payment of                  *)
(* services/payments.py, match_three_way of services/matching.py,          *)
(* create_supplier_invoice of services/receiving.py, and the credit check  *)
(* of services/sales.py with the requests that make or check it.           *)
(*                                                                         *)
(* Nothing is locked when it is read.  A request is split where it reads   *)
(* and where it flushes and commits; the rows it updates in between stay   *)
(* locked, in the order of their ids, which only makes others wait.        *)
(***************************************************************************)
EXTENDS Matching, Allocation

CONSTANTS
  Invoices,  \* what may become an invoice
  Terms,     \* per invoice: side, total, due; amounts are whole rupees
  Limit,     \* the customer's credit limit
  Requests,  \* the requests, each at most one transaction
  Menu,      \* what a request may ask for
  Openings,  \* the states the system may start from
  MaxOpen    \* bound: transactions open at a time

ASSUME TermsAssumption ==
  \A i \in Invoices : Terms[i].total \in Nat \ {0} /\ Terms[i].side \in {"customer", "supplier"}
ASSUME LimitAssumption == Limit \in Nat /\ IsFiniteSet(Invoices)

VARIABLES
  inv,       \* invoices: status, paid (amount_paid), allocated (their payment_allocations)
  ordered,   \* sales orders: confirmed ones, by the invoice that will bill them
  passed,    \* supplier invoices with a match result that says AUTO_APPROVE
  pc, work,  \* where each request is, and what it has read
  stale,     \* history: requests that have read, and somebody committed since
  raced      \* history: what stale requests have committed

docs == << inv, ordered, passed >>
vars == << docs, pc, work, stale, raced >>

Init ==
  /\ \E o \in Openings : inv = o.inv /\ ordered = o.ordered /\ passed = {}
  /\ pc = [t \in Requests |-> "idle"]
  /\ work = [t \in Requests |-> << >>]
  /\ stale = {} /\ raced = {}
-----------------------------------------------------------------------------
Goto(t, where, what) ==
  /\ pc' = [pc EXCEPT ![t] = where]
  /\ work' = [work EXCEPT ![t] = what]

IsOpen(t) == pc[t] \notin {"idle", "done", "rejected"}
CanOpen(t) == pc[t] = "idle" /\ Cardinality({u \in Requests : IsOpen(u)}) < MaxOpen

\* t commits: who has read before is stale from now on.
Committed(t) ==
  /\ Goto(t, "done", << >>)
  /\ raced' = IF t \in stale THEN raced \cup {pc[t]} ELSE raced
  /\ stale' = (stale \cup {u \in Requests : IsOpen(u)}) \ {t}

\* t rolls back: an AppError, a constraint, or the process dies.
Reject(t) ==
  /\ Goto(t, "rejected", << >>)
  /\ stale' = stale \ {t}
  /\ UNCHANGED << docs, raced >>

Lose(t) == IsOpen(t) /\ Reject(t)

Exists(i) == inv[i].status # "ABSENT"
Of(side) == {i \in Invoices : Terms[i].side = side}
New(status) == [status |-> status, paid |-> 0, allocated |-> 0]

\* A sale and an order bill the customer, a bill is entered and matched for the
\* supplier, and what is there to start with has not been paid.
ASSUME MenuAssumption ==
  \A m \in Menu : /\ m.op \in {"SELL", "ORDER"} => m.inv \in Of("customer")
                  /\ m.op \in {"ENTER", "MATCH"} => m.inv \in Of("supplier")
ASSUME OpeningsAssumption ==
  \A o \in Openings :
    /\ o.inv \in [Invoices -> {New(s) : s \in {"ABSENT", "ISSUED", "RECEIVED"}}]
    /\ \A i \in Of("customer") : o.inv[i].status # "RECEIVED"
    /\ \A i \in Of("supplier") : o.inv[i].status # "ISSUED"
    /\ o.ordered \subseteq Of("customer")
-----------------------------------------------------------------------------
\* A fault: only what nothing has been paid of counts.
ExposureIssued ==
  MapThenSumSet(LAMBDA i : Terms[i].total - inv[i].paid,
                {i \in Of("customer") : inv[i].status = "ISSUED"})

\* _check_credit: what the customer owes on invoices neither paid nor void.
Exposure ==
  MapThenSumSet(LAMBDA i : Terms[i].total - inv[i].paid,
                {i \in Of("customer") : inv[i].status \notin {"ABSENT", "PAID", "VOID"}})

\* The invoices that a sale or an order is about to become.
Promised == ordered \cup {work[u] : u \in {u \in Requests : pc[u] \in {"sell", "order"}}}

\* A counter sale, or an order that is confirmed (on creation or from a quote),
\* checks the credit.
CheckCredit(t) ==
  /\ CanOpen(t)
  /\ \E m \in Menu :
       /\ m.op \in {"SELL", "ORDER"} /\ ~Exists(m.inv) /\ m.inv \notin Promised
       /\ IF Exposure + Terms[m.inv].total > Limit THEN Goto(t, "rejected", << >>)
          ELSE Goto(t, IF m.op = "SELL" THEN "sell" ELSE "order", m.inv)
  /\ UNCHANGED << docs, stale, raced >>

\* create_counter_sale: the invoice.
Sell(t) ==
  /\ pc[t] = "sell"
  /\ inv' = [inv EXCEPT ![work[t]] = New("ISSUED")]
  /\ Committed(t)
  /\ UNCHANGED << ordered, passed >>

\* create_sales_order or confirm_sales_order: an order is no invoice yet.
Order(t) ==
  /\ pc[t] = "order"
  /\ ordered' = ordered \cup {work[t]}
  /\ Committed(t)
  /\ UNCHANGED << inv, passed >>

\* create_customer_invoice_from_delivery: its credit is not checked again.
BillDelivery(t) ==
  /\ CanOpen(t) /\ \E m \in Menu : m.op = "BILL"
  /\ \E i \in ordered : ~Exists(i) /\ inv' = [inv EXCEPT ![i] = New("ISSUED")]
  /\ Committed(t)
  /\ UNCHANGED << ordered, passed >>

\* create_supplier_invoice.  A bill that is there already violates the unique
\* number of its supplier.
EnterBill(t) ==
  /\ CanOpen(t)
  /\ \E m \in Menu : m.op = "ENTER" /\ ~Exists(m.inv) /\ inv' = [inv EXCEPT ![m.inv] = New("RECEIVED")]
  /\ Committed(t)
  /\ UNCHANGED << ordered, passed >>

RefuseBill(t) == CanOpen(t) /\ (\E m \in Menu : m.op = "ENTER" /\ Exists(m.inv)) /\ Reject(t)
-----------------------------------------------------------------------------
\* match_three_way loads the invoice; m has the lines of the three documents.
LoadInvoice(t) ==
  /\ CanOpen(t)
  /\ \E m \in Menu : m.op = "MATCH" /\ Exists(m.inv)
                       /\ Goto(t, "compare", [ask |-> m, seen |-> inv[m.inv].status])
  /\ UNCHANGED << docs, stale, raced >>

\* A fault: what has been approved cannot be anybody's duplicate.
HasTwinUnapproved(i) ==
  \E j \in Of("supplier") \ {i} : Terms[j].total = Terms[i].total
                                    /\ inv[j].status \notin {"ABSENT", "MATCHED", "PAID"}

\* duplicate_rows: another invoice of the supplier has the same total.
HasTwin(i) == \E j \in Of("supplier") \ {i} : Exists(j) /\ Terms[j].total = Terms[i].total

\* The look for a duplicate, and the verdict.
Compare(t) ==
  LET ask == work[t].ask
      flags == [unmatched |-> FALSE, twin |-> HasTwin(ask.inv), first |-> FALSE,
                sum |-> Terms[ask.inv].total, weekend |-> FALSE]
  IN /\ pc[t] = "compare"
     /\ Goto(t, "judge", [inv |-> ask.inv, seen |-> work[t].seen,
                          verdict |-> Verdict(ask.lines, flags, DefaultTolerances)])
     /\ UNCHANGED << docs, stale, raced >>

\* The result, and the status, which is written whatever it is by now, but only
\* if it differs from the one that was loaded.
Judge(t) ==
  LET i == work[t].inv
      status == StatusFor(work[t].verdict, work[t].seen)
  IN /\ pc[t] = "judge"
     /\ passed' = IF work[t].verdict = "AUTO_APPROVE" THEN passed \cup {i} ELSE passed
     /\ inv' = [inv EXCEPT ![i].status = IF status = work[t].seen THEN @ ELSE status]
     /\ Committed(t)
     /\ UNCHANGED ordered
-----------------------------------------------------------------------------
OpenStatuses == {"ISSUED", "PARTIALLY_PAID", "OVERDUE", "RECEIVED", "MATCHED", "APPROVED"}

\* A fault: whatever has not been paid can be.
LoadUnpaid(side) ==
  [i \in {i \in Of(side) : inv[i].status \notin {"ABSENT", "PAID"}} |->
     [total |-> Terms[i].total, paid |-> inv[i].paid, due |-> Terms[i].due]]

\* _load_open_invoices.
LoadOpenInvoices(side) ==
  [i \in {i \in Of(side) : inv[i].status \in OpenStatuses} |->
     [total |-> Terms[i].total, paid |-> inv[i].paid, due |-> Terms[i].due]]

\* record_payment plans; the plan outlives the rows it was made from.
Plan(t) ==
  /\ CanOpen(t)
  /\ \E m \in Menu :
       LET open == LoadOpenInvoices(m.side) IN
       /\ m.op = "PAY"
       /\ \/ /\ m.plan = << >>
             /\ \E plan \in AutoPlans(open, m.amount) :
                  Goto(t, "take", [plan |-> plan, seen |-> << >>])
          \/ /\ m.plan # << >> /\ MayRequest(open, m.amount, m.plan)
             /\ Goto(t, "take", [plan |-> m.plan, seen |-> << >>])
          \/ /\ m.plan # << >> /\ ~MayRequest(open, m.amount, m.plan)
             /\ Goto(t, "rejected", << >>)
  /\ UNCHANGED << docs, stale, raced >>

Untaken(t) == DOMAIN work[t].plan \ DOMAIN work[t].seen

\* Each invoice of the plan is loaded again, and not asked again whether it is open.
Take(t) ==
  /\ pc[t] = "take"
  /\ \E i \in Untaken(t) :
       Goto(t, "take", [work[t] EXCEPT !.seen = [j \in DOMAIN @ \cup {i} |->
              IF j = i THEN [paid |-> inv[i].paid, status |-> inv[i].status] ELSE @[j]]])
  /\ UNCHANGED << docs, stale, raced >>

\* A fault: what has been paid before is forgotten.
NewPaidAlone(t, i) == work[t].plan[i]

NewPaid(t, i) == work[t].seen[i].paid + work[t].plan[i]

NewPaymentStatus(t, i) ==
  CASE NewPaid(t, i) >= Terms[i].total -> "PAID"
    [] NewPaid(t, i) < Terms[i].total /\ Terms[i].side = "customer" -> "PARTIALLY_PAID"
    [] OTHER -> work[t].seen[i].status

\* A fault: an invoice keeps one allocation, its last.
PayReplacing(t) ==
  /\ pc[t] = "take" /\ Untaken(t) = {}
  /\ \A i \in DOMAIN work[t].plan : NewPaid(t, i) <= Terms[i].total
  /\ inv' = [i \in Invoices |->
       IF i \notin DOMAIN work[t].plan THEN inv[i]
       ELSE [status |-> NewPaymentStatus(t, i), paid |-> NewPaid(t, i),
             allocated |-> work[t].plan[i]]]
  /\ Committed(t)
  /\ UNCHANGED << ordered, passed >>

\* The payment, its allocations, and the invoices: amount_paid becomes what was
\* taken plus the allocation; a status that does not change is not written.
Pay(t) ==
  /\ pc[t] = "take" /\ Untaken(t) = {}
  /\ \A i \in DOMAIN work[t].plan : NewPaid(t, i) <= Terms[i].total
  /\ inv' = [i \in Invoices |->
       IF i \notin DOMAIN work[t].plan THEN inv[i]
       ELSE [status    |-> IF NewPaymentStatus(t, i) = work[t].seen[i].status THEN inv[i].status
                           ELSE NewPaymentStatus(t, i),
             paid      |-> NewPaid(t, i),
             allocated |-> inv[i].allocated + work[t].plan[i]]]
  /\ Committed(t)
  /\ UNCHANGED << ordered, passed >>

\* CHECK (amount_paid <= total).
PayTooMuch(t) ==
  /\ pc[t] = "take" /\ Untaken(t) = {}
  /\ \E i \in DOMAIN work[t].plan : NewPaid(t, i) > Terms[i].total
  /\ Reject(t)
-----------------------------------------------------------------------------
Begin(t) == CheckCredit(t) \/ BillDelivery(t) \/ EnterBill(t) \/ RefuseBill(t)
              \/ LoadInvoice(t) \/ Plan(t)

Step(t) == Sell(t) \/ Order(t) \/ Compare(t) \/ Judge(t) \/ Take(t) \/ Pay(t) \/ PayTooMuch(t)

\* Every request that was made has been answered.
Finished == (\A t \in Requests : ~IsOpen(t)) /\ UNCHANGED vars

Next == (\E t \in Requests : Begin(t) \/ Step(t) \/ Lose(t)) \/ Finished

Spec == Init /\ [][Next]_vars
-----------------------------------------------------------------------------
Statuses == [customer |-> {"ABSENT", "ISSUED", "PARTIALLY_PAID", "PAID"},
             supplier |-> {"ABSENT", "RECEIVED", "MATCHED", "BLOCKED", "PAID"}]

\* The constraints of the tables hold, and only these statuses are ever written.
TypeOK ==
  /\ \A i \in Invoices :
       /\ inv[i].status \in Statuses[Terms[i].side]
       /\ inv[i].paid \in 0..Terms[i].total
       /\ inv[i].allocated \in Nat
  /\ ordered \subseteq Of("customer") /\ passed \subseteq Of("supplier")
  /\ pc \in [Requests -> {"idle", "sell", "order", "compare", "judge", "take", "done", "rejected"}]
  /\ stale \subseteq {t \in Requests : IsOpen(t)}
  /\ raced \subseteq {"idle", "sell", "order", "compare", "judge", "take"}

\* No invoice counts money that no payment allocates to it, whatever payments
\* overlap: a lost update understates what has been paid.
PaidIsAllocated == \A i \in Invoices : inv[i].paid <= inv[i].allocated

\* Until a payment commits after somebody else has since it was planned,
\* amount_paid is the sum of the allocations, a customer's invoice says how far it
\* is paid, and a supplier's says PAID only when it is, also after a match of an
\* invoice that has been paid, and whatever matches and sales overlap.
BooksAgree ==
  "take" \notin raced => \A i \in Invoices :
    /\ inv[i].paid = inv[i].allocated
    /\ inv[i].status = "PAID" => inv[i].paid = Terms[i].total
    /\ Terms[i].side = "customer" =>
         /\ inv[i].status \in {"ABSENT", "ISSUED"} <=> inv[i].paid = 0
         /\ inv[i].paid = Terms[i].total => inv[i].status = "PAID"

\* Of several bills of one supplier with one total, at most one is ever approved
\* automatically, in whatever order they arrive and are matched.
OneOfTwinsPasses ==
  \A i, j \in passed : Terms[i].total = Terms[j].total => i = j

\* t commits, and somebody else has since it has read.
CommitsStale(t, where) == t \in stale /\ pc[t] = where /\ pc'[t] = "done"

\* Money goes to a blocked invoice only by a payment that itself overlaps with a
\* commit, as that of the match that blocks it; earlier overlaps excuse nothing.
BlockedNotPaid ==
  [][\A i \in Invoices :
       inv[i].status = "BLOCKED" /\ inv'[i].allocated > inv[i].allocated =>
         \E t \in Requests : CommitsStale(t, "take")]_vars

\* What the customer owes, by what has been billed and paid.
Debt == MapThenSumSet(LAMBDA i : IF Exists(i) THEN Terms[i].total - inv[i].paid ELSE 0,
                      Of("customer"))

\* A counter sale leaves the customer within the limit, whatever has been billed
\* and paid in part before, unless the sale itself overlaps with a commit, or a
\* payment has and may have left the books wrong.
CreditHeld ==
  [][\A i \in Of("customer") \ ordered :
       ~Exists(i) /\ inv'[i].status = "ISSUED" =>
         Debt' <= Limit \/ "take" \in raced \/ \E t \in Requests : CommitsStale(t, "sell")]_vars
=============================================================================
