----------------------------- MODULE Purchasing -----------------------------
(***************************************************************************)
(* services/procurement.py and create_goods_receipt of                     *)
(* services/receiving.py: a shortage becomes a requisition, the            *)
(* requisition one purchase order per supplier, and each order is          *)
(* approved or rejected, sent and received.  Nothing locks a row when it   *)
(* is loaded, so what a request checks may be stale when it writes.        *)
(*                                                                         *)
(* A request is split where it reads and where it flushes and commits.     *)
(* Between the two it may hold the row of a document sequence, which only  *)
(* makes others wait: it has read what it needs before.                    *)
(***************************************************************************)
EXTENDS Sourcing

CONSTANTS
  Products,
  Suppliers,
  Offers,      \* per product, the offers of its active suppliers
  Rows,        \* per product: reorderLevel, reserved, daily and safety
  Waiting,     \* per product, the item of the sales order that is short
  Requests,    \* the requests, each at most one transaction
  Menu,        \* what a request may ask for: [op, po, lines]
  Openings,    \* the states the system may start from
  MaxOpen      \* bound: transactions open at a time

Orders == Requests \X Suppliers  \* a conversion and one of its suppliers
Undecided == {"DRAFT", "PENDING_APPROVAL"}
Closed == {"DRAFT", "PENDING_APPROVAL", "CANCELLED", "INVOICED", "PAID"}
Statuses == {"ABSENT", "DRAFT", "APPROVED", "SENT", "PARTIALLY_RECEIVED", "RECEIVED",
             "CANCELLED"}
Sources == {"stock", "order"}
Decisions == {"APPROVE", "REJECT", "SENT"}
Nothing == [p \in Products |-> 0]

(***************************************************************************)
(* A receipt's lines are given by product: of the lines that name it, the  *)
(* largest received quantity, the sum of what is accepted and what the     *)
(* last one accepts.  Each accepts no more than it received.               *)
(***************************************************************************)
ASSUME LinesAssumption ==
  \A m \in Menu : \A p \in DOMAIN m.lines :
    /\ p \in Products
    /\ {m.lines[p].largest, m.lines[p].last, m.lines[p].sum} \subseteq Nat
    /\ m.lines[p].last <= m.lines[p].sum /\ m.lines[p].last <= m.lines[p].largest

VARIABLES
  requisition,  \* its status and lines
  po,           \* purchase orders: status, ordered and accepted per product,
                \* announced: purchase_order.approved events in the outbox
  onHand,       \* stock of each product
  pc, work,     \* where each request is, and what it has read
  stale,        \* history: requests that have read, and somebody committed since
  raced,        \* history: what stale requests have committed
  repeated      \* history: some receipt had two lines of one product

docs == << requisition, po, onHand >>
vars == << docs, pc, work, stale, raced, repeated >>

NoOrder == [status |-> "ABSENT", ordered |-> Nothing, accepted |-> Nothing, announced |-> 0]
Quantities == [Products -> Nat]

\* The quantities of the catalogue, the stock rows and the waiting item.
ASSUME CatalogueAssumption ==
  /\ IsFiniteSet(Suppliers)
  /\ \A p \in Products :
    /\ \A o \in Offers[p] : o.supplier \in Suppliers /\ o.moq \in Nat /\ o.lead \in Nat
    /\ Rows[p] \in [reorderLevel: Nat, reserved: Nat, daily: Nat, safety: Nat]
    /\ Waiting[p] \in [quantity: Nat, reserved: Nat]

\* To start with at most one conversion has been made, whose orders cover the lines,
\* are drafts or have been sent, and nothing has been received.
ASSUME OpeningsAssumption ==
  \A o \in Openings :
    /\ o.onHand \in Quantities
    /\ DOMAIN o.requisition = {"status", "lines"}
    /\ o.requisition.status \in {"ABSENT", "PENDING_APPROVAL", "CONVERTED"}
    /\ DOMAIN o.requisition.lines \subseteq Products
    /\ \A p \in DOMAIN o.requisition.lines : o.requisition.lines[p] \in Nat
    /\ o.po \in [Orders -> [status: {"ABSENT", "DRAFT", "SENT"}, ordered: Quantities,
                            accepted: {Nothing}, announced: {0, 1}]]
    /\ \A x \in Orders : /\ o.po[x].status = "ABSENT" => o.po[x] = NoOrder
                         /\ o.po[x].announced = 1 <=> o.po[x].status = "SENT"
    /\ o.requisition.status # "ABSENT" => DOMAIN o.requisition.lines # {}
    /\ \E t \in Requests :
         /\ \A x \in Orders :
              o.po[x].status # "ABSENT" => x[1] = t /\ o.requisition.status = "CONVERTED"
         /\ o.requisition.status = "CONVERTED" =>
              \A p \in DOMAIN o.requisition.lines : \E s \in Suppliers :
                /\ o.po[<< t, s >>].status # "ABSENT"
                /\ o.po[<< t, s >>].ordered[p] >= o.requisition.lines[p]
NoWork == [op |-> "NONE", po |-> << >>, lines |-> << >>, seen |-> "ABSENT", prior |-> Nothing]

Init ==
  /\ \E o \in Openings : requisition = o.requisition /\ po = o.po /\ onHand = o.onHand
  /\ pc = [t \in Requests |-> "idle"]
  /\ work = [t \in Requests |-> NoWork]
  /\ stale = {}
  /\ raced = {} /\ repeated = FALSE
-----------------------------------------------------------------------------
Goto(t, where) == pc' = [pc EXCEPT ![t] = where]
IsOpen(t) == pc[t] \notin {"idle", "done", "rejected"}
CanOpen(t) == pc[t] = "idle" /\ Cardinality({u \in Requests : IsOpen(u)}) < MaxOpen

\* t commits: who has read before is stale from now on.
Committed(t) ==
  /\ Goto(t, "done")
  /\ work' = [work EXCEPT ![t] = NoWork]
  /\ raced' = IF t \in stale THEN raced \cup {pc[t]} ELSE raced
  /\ stale' = (stale \cup {u \in Requests : IsOpen(u)}) \ {t}

\* t rolls back: an AppError, or the process dies.
Reject(t) ==
  /\ Goto(t, "rejected")
  /\ work' = [work EXCEPT ![t] = NoWork]
  /\ stale' = stale \ {t}
  /\ UNCHANGED << docs, raced, repeated >>

\* t's session rolls back at any time before it commits.
Lose(t) == IsOpen(t) /\ Reject(t)
-----------------------------------------------------------------------------
\* What the shortage endpoints report: products below their reorder level, or
\* what a sales order waits for.
Shortage(source, p) ==
  IF source = "stock"
  THEN BelowReorder([reorderLevel |-> Rows[p].reorderLevel, onHand |-> onHand[p],
                     reserved |-> Rows[p].reserved])
  ELSE Unreserved(Waiting[p])

\* detect_shortages or detect_shortage_from_sales_order: a read, whose answer the
\* caller turns into the lines of a requisition.
Detect(t) ==
  /\ CanOpen(t) /\ requisition.status = "ABSENT"
  /\ \E m \in Menu, source \in Sources :
       LET short == {p \in Products : Shortage(source, p) > 0}
           asks(p) == Recommended(Shortage(source, p), Rows[p].daily, Rows[p].safety, Offers[p])
       IN /\ m.op = "CREATE" /\ short # {}
          /\ \E lines \in [short -> UNION {asks(p) : p \in short}] :
               /\ \A p \in short : lines[p] \in asks(p)
               /\ work' = [work EXCEPT ![t] = [NoWork EXCEPT !.op = "CREATE", !.lines = lines]]
  /\ Goto(t, "create")
  /\ UNCHANGED << docs, stale, raced, repeated >>

\* create_requisition, with its lines and its event.  Bound: one requisition.
CreateRequisition(t) ==
  /\ pc[t] = "create"
  /\ requisition.status = "ABSENT"
  /\ requisition' = [status |-> "PENDING_APPROVAL", lines |-> work[t].lines]
  /\ Committed(t)
  /\ UNCHANGED << po, onHand, repeated >>
-----------------------------------------------------------------------------
\* A fault: any requisition can be converted.
LoadAnyRequisition(t) ==
  /\ CanOpen(t) /\ requisition.status # "ABSENT"
  /\ \E m \in Menu : m.op = "CONVERT"
  /\ Goto(t, "convert")
  /\ UNCHANGED << docs, work, stale, raced, repeated >>

\* create_purchase_orders_from_requisition loads the requisition; it does not ask
\* whether anybody has approved it.
LoadRequisition(t) ==
  /\ CanOpen(t) /\ requisition.status # "ABSENT"
  /\ \E m \in Menu : m.op = "CONVERT"
  /\ Goto(t, IF requisition.status = "CONVERTED" THEN "rejected" ELSE "convert")
  /\ UNCHANGED << docs, work, stale, raced, repeated >>

Lines == requisition.lines

\* The order that a conversion by t places with supplier s, when `pick` gives the
\* offer that is best for each line.
OrderFrom(s, pick) ==
  [status |-> "DRAFT", accepted |-> Nothing, announced |-> 0,
   ordered |-> [p \in Products |-> IF p \in DOMAIN Lines /\ pick[p].supplier = s
                                    THEN RoundUpToMoq(Lines[p], pick[p].moq) ELSE 0]]

\* A fault: a line without a supplier is left out.
ConvertWhatItCan(t) ==
  /\ pc[t] = "convert"
  /\ \E pick \in [DOMAIN Lines -> UNION {Offers[p] : p \in DOMAIN Lines}] :
       /\ \A p \in DOMAIN Lines : Offers[p] # {} => pick[p] \in Best(Offers[p])
       /\ po' = [o \in Orders |->
            IF o[1] = t /\ \E p \in DOMAIN Lines : Offers[p] # {} /\ pick[p].supplier = o[2]
            THEN OrderFrom(o[2], pick) ELSE po[o]]
  /\ requisition' = [requisition EXCEPT !.status = "CONVERTED"]
  /\ Committed(t)
  /\ UNCHANGED << onHand, repeated >>

\* One order per supplier that is best for a line.
Convert(t) ==
  /\ pc[t] = "convert"
  /\ \E pick \in [DOMAIN Lines -> UNION {Offers[p] : p \in DOMAIN Lines}] :
       /\ \A p \in DOMAIN Lines : pick[p] \in Best(Offers[p])
       /\ po' = [o \in Orders |->
            IF o[1] = t /\ \E p \in DOMAIN Lines : pick[p].supplier = o[2]
            THEN OrderFrom(o[2], pick) ELSE po[o]]
  /\ requisition' = [requisition EXCEPT !.status = "CONVERTED"]
  /\ Committed(t)
  /\ UNCHANGED << onHand, repeated >>

\* A line whose product nobody supplies.
CannotConvert(t) ==
  /\ pc[t] = "convert"
  /\ \E p \in DOMAIN Lines : Offers[p] = {}
  /\ Reject(t)
-----------------------------------------------------------------------------
\* A fault: whatever is not cancelled can be received.
AdmitsDraft(op, status) ==
  \/ op \in {"APPROVE", "REJECT"} /\ status \in Undecided
  \/ op = "SENT" /\ status = "APPROVED"
  \/ op = "RECEIVE" /\ status # "CANCELLED"

\* A fault: a decision can be revised until the order is sent.
AdmitsRevision(op, status) ==
  \/ op \in {"APPROVE", "REJECT"} /\ status \in Undecided \cup {"APPROVED"}
  \/ op = "SENT" /\ status = "APPROVED"
  \/ op = "RECEIVE" /\ status \notin Closed

\* The status lets the operation start.
Admits(op, status) ==
  \/ op \in {"APPROVE", "REJECT"} /\ status \in Undecided
  \/ op = "SENT" /\ status = "APPROVED"
  \/ op = "RECEIVE" /\ status \notin Closed

\* A decision or a receipt loads the order.
LoadOrder(t) ==
  /\ CanOpen(t)
  /\ \E m \in Menu, o \in {o \in Orders : po[o].status # "ABSENT"} :
       /\ m.op \in Decisions \cup {"RECEIVE"}
       /\ \A p \in DOMAIN m.lines : po[o].ordered[p] > 0
       /\ IF Admits(m.op, po[o].status)
          THEN /\ work' = [work EXCEPT ![t] = [op |-> m.op, po |-> o, lines |-> m.lines,
                                               seen |-> po[o].status, prior |-> Nothing]]
               /\ Goto(t, IF m.op = "RECEIVE" THEN "prior" ELSE "decide")
          ELSE Goto(t, "rejected") /\ UNCHANGED work
  /\ UNCHANGED << docs, stale, raced, repeated >>

\* The status that each decision gives.
Outcome == [APPROVE |-> "APPROVED", REJECT |-> "CANCELLED", SENT |-> "SENT"]

\* mark_purchase_order_approved, _rejected and _sent write the status, whatever it
\* is by now; an approval also writes its event.
Decide(t) ==
  /\ pc[t] = "decide"
  /\ po' = [po EXCEPT
       ![work[t].po].status = Outcome[work[t].op],
       ![work[t].po].announced = IF work[t].op = "APPROVE" THEN @ + 1 ELSE @]
  /\ Committed(t)
  /\ UNCHANGED << requisition, onHand, repeated >>
-----------------------------------------------------------------------------
\* create_goods_receipt.

\* What is outstanding, as t has read it.
Outstanding(o, p) == po[o].ordered[p] - po[o].accepted[p]

\* A fault: the check compares with the ordered quantity.
LoadPriorUnchecked(t) ==
  LET o == work[t].po IN
  /\ pc[t] = "prior"
  /\ \A p \in DOMAIN work[t].lines : work[t].lines[p].largest <= po[o].ordered[p]
  /\ work' = [work EXCEPT ![t].prior = [p \in Products |->
                IF p \in DOMAIN work[t].lines THEN po[o].accepted[p] ELSE 0]]
  /\ Goto(t, "receive")
  /\ UNCHANGED << docs, stale, raced, repeated >>

\* The sum of earlier receipts of the products it names, and the check of each
\* line against it.
LoadPrior(t) ==
  LET o == work[t].po IN
  /\ pc[t] = "prior"
  /\ \A p \in DOMAIN work[t].lines : work[t].lines[p].largest <= Outstanding(o, p)
  /\ work' = [work EXCEPT ![t].prior = [p \in Products |->
                IF p \in DOMAIN work[t].lines THEN po[o].accepted[p] ELSE 0]]
  /\ Goto(t, "receive")
  /\ UNCHANGED << docs, stale, raced, repeated >>

TooMuch(t) ==
  /\ pc[t] = "prior"
  /\ \E p \in DOMAIN work[t].lines :
       work[t].lines[p].largest > Outstanding(work[t].po, p)
  /\ Reject(t)

\* A fault: only the products of this receipt are looked at.
FullyReceivedHere(t) ==
  \A p \in DOMAIN work[t].lines :
    work[t].prior[p] + work[t].lines[p].last >= po[work[t].po].ordered[p]

\* fully_received: earlier receipts count only for the products this receipt
\* names, and of two lines of a product only the last.
FullyReceived(t) ==
  \A p \in Products :
    work[t].prior[p] + (IF p \in DOMAIN work[t].lines THEN work[t].lines[p].last ELSE 0)
      >= po[work[t].po].ordered[p]

NewStatus(t) == IF FullyReceived(t) THEN "RECEIVED" ELSE "PARTIALLY_RECEIVED"

AcceptedNow(t) ==
  [p \in Products |-> IF p \in DOMAIN work[t].lines THEN work[t].lines[p].sum ELSE 0]

\* The receipt, its lines, the stock movement and the status; the ORM writes the
\* status only if it differs from the one that was loaded.
Receive(t) ==
  /\ pc[t] = "receive"
  /\ po' = [po EXCEPT
       ![work[t].po].accepted = [p \in Products |-> @[p] + AcceptedNow(t)[p]],
       ![work[t].po].status = IF NewStatus(t) = work[t].seen THEN @ ELSE NewStatus(t)]
  /\ onHand' = [p \in Products |-> onHand[p] + AcceptedNow(t)[p]]
  /\ repeated' = (repeated \/ \E p \in DOMAIN work[t].lines :
                                work[t].lines[p].sum # work[t].lines[p].last)
  /\ Committed(t)
  /\ UNCHANGED requisition
-----------------------------------------------------------------------------
Step(t) == CreateRequisition(t) \/ Convert(t) \/ CannotConvert(t) \/ Decide(t)
             \/ LoadPrior(t) \/ TooMuch(t) \/ Receive(t)

\* Every request that was made has been answered.
Finished == (\A t \in Requests : ~IsOpen(t)) /\ UNCHANGED vars

Next == \/ \E t \in Requests : \/ Detect(t) \/ LoadRequisition(t) \/ LoadOrder(t)
                               \/ Step(t) \/ Lose(t)
        \/ Finished

Spec == Init /\ [][Next]_vars
-----------------------------------------------------------------------------
TypeOK ==
  /\ requisition.status \in {"ABSENT", "PENDING_APPROVAL", "CONVERTED"}
  /\ DOMAIN requisition.lines \subseteq Products
  /\ po \in [Orders -> [status: Statuses, ordered: Quantities, accepted: Quantities,
                        announced: Nat]]
  /\ onHand \in Quantities
  /\ pc \in [Requests -> {"idle", "create", "convert", "decide", "prior", "receive",
                          "done", "rejected"}]
  /\ stale \subseteq {t \in Requests : IsOpen(t)}
  /\ raced \subseteq {"idle", "create", "convert", "decide", "prior", "receive"}
  /\ repeated \in BOOLEAN

\* An order that says RECEIVED has received everything, whatever receipts
\* overlapped, however their lines were split.
ReceivedMeansAll ==
  \A o \in Orders : po[o].status = "RECEIVED" =>
    \A p \in Products : po[o].accepted[p] >= po[o].ordered[p]

\* Goods are accepted only for an order somebody has approved.
ReceiptFollowsApproval ==
  \A o \in Orders : (\E p \in Products : po[o].accepted[p] > 0) => po[o].announced > 0

\* The orders of a conversion are complete: for each product, what all of them
\* order together.
Converted(t) == \E s \in Suppliers : po[<< t, s >>].status # "ABSENT"
OrderedBy(t, p) == MapThenSumSet(LAMBDA s : po[<< t, s >>].ordered[p], Suppliers)

\* "Marks the requisition CONVERTED once every line has a PO": every conversion
\* covers every line, none is split or left out.
ConvertedCovers ==
  /\ requisition.status = "CONVERTED" => \E t \in Requests : Converted(t)
  /\ \A t \in Requests : Converted(t) => \A p \in DOMAIN Lines : OrderedBy(t, p) >= Lines[p]

\* A requisition is bought twice only if some conversion commits after somebody
\* else has since it loaded the requisition: two that overlap have both found it
\* not yet converted.  Overlaps of decisions and receipts excuse nothing.
BoughtTwiceNeedsOverlap ==
  (\E t, u \in Requests : t # u /\ Converted(t) /\ Converted(u)) => "convert" \in raced

\* More than the ordered quantity is accepted only if some receipt commits after
\* somebody else has since it was begun, or some receipt names a product on two
\* lines, each of which is compared on its own.
OverReceiptNeedsOverlap ==
  (\E o \in Orders, p \in Products : po[o].accepted[p] > po[o].ordered[p])
    => "receive" \in raced \/ repeated

\* An approved event whose order ends up cancelled, or a second one, needs a
\* decision that commits after somebody else has since it loaded the order:
\* until then the supplier is not sent an order twice, or one that was rejected,
\* whatever conversions and receipts overlap.
OneDecision ==
  "decide" \notin raced => \A o \in Orders :
    /\ po[o].announced <= 1
    /\ po[o].status = "CANCELLED" => po[o].announced = 0

Moves == {<< "ABSENT", "DRAFT" >>, << "DRAFT", "APPROVED" >>, << "DRAFT", "CANCELLED" >>,
          << "APPROVED", "SENT" >>, << "PARTIALLY_RECEIVED", "RECEIVED" >>,
          << "RECEIVED", "PARTIALLY_RECEIVED" >>}
         \cup {"APPROVED", "SENT"} \X {"PARTIALLY_RECEIVED", "RECEIVED"}

Moved(o) == \/ po'[o].status = po[o].status
            \/ << po[o].status, po'[o].status >> \in Moves

\* As long as no stale request commits, an order only moves along its life cycle;
\* a receipt of nothing may take it back from RECEIVED.
StatusMoves == [][\A o \in Orders : Moved(o) \/ raced' # {}]_vars
=============================================================================
