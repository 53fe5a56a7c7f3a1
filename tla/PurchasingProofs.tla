-------------------------- MODULE PurchasingProofs --------------------------
(***************************************************************************)
(* For any products, suppliers, offers and number of requests: an order    *)
(* that says RECEIVED has received everything and goods are accepted only  *)
(* for what somebody approved, whatever overlaps, and a conversion orders  *)
(* every line of its requisition; and buying twice, over-receipt, two      *)
(* decisions and moves off the life cycle need a request that commits on   *)
(* what is stale.                                                          *)
(***************************************************************************)
EXTENDS Purchasing, FoldFacts, TLAPS

\* The larger of zero and a number is a natural number.
LEMMA MaxWithZero ==
  ASSUME NEW n \in Int
  PROVE  Max({0, n}) \in Nat
<1>1. \E x \in {0, n} : \A y \in {0, n} : x >= y
  OBVIOUS
<1>2. Max({0, n}) \in {0, n} /\ \A y \in {0, n} : Max({0, n}) >= y
  BY <1>1 DEF Max
<1> QED
  BY <1>2

\* What is recommended for a shortage is a quantity.
LEMMA RecommendedIsNat ==
  ASSUME NEW p \in Products, NEW n \in Nat, NEW q \in Recommended(n, Rows[p].daily, Rows[p].safety, Offers[p])
  PROVE  q \in Nat
<1>1. PICK lead \in Nat : q = n + Rows[p].daily * lead + Rows[p].safety
  <2>1. \A o \in Best(Offers[p]) : o.lead \in Nat
    BY CatalogueAssumption DEF Best
  <2> QED
    BY <2>1 DEF Recommended, ReorderQuantity
<1>2. Rows[p].daily \in Nat /\ Rows[p].safety \in Nat
  BY CatalogueAssumption
<1>3. Rows[p].daily * lead \in Nat
  BY <1>2
<1> QED
  BY <1>1, <1>2, <1>3

\* What is short of a product is a quantity.
LEMMA ShortageIsNat ==
  ASSUME NEW source, NEW p \in Products, onHand[p] \in Nat
  PROVE  Shortage(source, p) \in Nat
<1>1. Rows[p].reorderLevel - (onHand[p] - Rows[p].reserved) \in Int
  BY CatalogueAssumption
<1>2. Waiting[p].quantity - Waiting[p].reserved \in Int
  BY CatalogueAssumption
<1> QED
  BY <1>1, <1>2, MaxWithZero DEF Shortage, BelowReorder, Unreserved

\* Rounding up to a minimum order quantity gives a quantity.
LEMMA RoundUpIsNat ==
  ASSUME NEW q \in Nat, NEW moq \in Nat
  PROVE  RoundUpToMoq(q, moq) \in Nat
<1>1. CASE moq > 0
  <2>1. (q + moq - 1) \div moq \in Nat
    BY <1>1
  <2>2. ((q + moq - 1) \div moq) * moq \in Nat
    BY <2>1
  <2> QED
    BY <1>1, <2>2 DEF RoundUpToMoq
<1>2. CASE moq = 0
  BY <1>2 DEF RoundUpToMoq
<1> QED
  BY <1>1, <1>2
-----------------------------------------------------------------------------
IsLines(lines) == DOMAIN lines \subseteq Products /\ \A p \in DOMAIN lines : lines[p] \in Nat

Shape ==
  /\ DOMAIN requisition = {"status", "lines"} /\ IsLines(requisition.lines)
  /\ DOMAIN work = Requests

There(o) == o \in Orders /\ po[o].status # "ABSENT"

\* What a request works on is what it has loaded: lines to ask for, a requisition
\* that t has not converted, an order, and for a receipt one that was approved.
WorkOK(t) ==
  /\ pc[t] = "create" => IsLines(work[t].lines)
  /\ pc[t] = "idle" /\ (\E s \in Suppliers : There(<< t, s >>)) => requisition.status = "CONVERTED"
  /\ pc[t] = "convert" => requisition.status # "ABSENT" /\ \A s \in Suppliers : ~There(<< t, s >>)
  /\ pc[t] = "decide" => /\ There(work[t].po) /\ work[t].op \in Decisions
                         /\ work[t].op = "SENT" => po[work[t].po].announced > 0
  /\ pc[t] = "prior" => DOMAIN work[t] = DOMAIN NoWork
  /\ pc[t] \in {"prior", "receive"} =>
       /\ There(work[t].po) /\ po[work[t].po].announced > 0
       /\ \E m \in Menu : work[t].lines = m.lines
  /\ pc[t] = "receive" =>
       /\ work[t].prior \in Quantities
       /\ \A p \in Products : work[t].prior[p] <= po[work[t].po].accepted[p]

\* What is true of each order: no order, no quantities; a draft is undecided, and
\* what has gone further has been approved unless it was cancelled.
OrderOK(o) ==
  /\ po[o].status = "ABSENT" => po[o] = NoOrder
  /\ po[o].status = "DRAFT" => po[o].announced = 0
  /\ po[o].status \in {"APPROVED", "SENT", "PARTIALLY_RECEIVED", "RECEIVED"} => po[o].announced > 0

IInv ==
  /\ Shape /\ TypeOK /\ (\A t \in Requests : WorkOK(t)) /\ (\A o \in Orders : OrderOK(o))
  /\ ReceivedMeansAll /\ ReceiptFollowsApproval

\* At first nobody has read anything, and an order that is there has been converted.
LEMMA InitIInv == Init => IInv
<1> SUFFICES ASSUME Init PROVE IInv
  OBVIOUS
<1>1. PICK o \in Openings : requisition = o.requisition /\ po = o.po /\ onHand = o.onHand
  BY DEF Init
<1>2. /\ po \in [Orders -> [status: {"ABSENT", "DRAFT", "SENT"}, ordered: Quantities,
                            accepted: {Nothing}, announced: {0, 1}]]
      /\ onHand \in Quantities
      /\ \A x \in Orders : /\ po[x].status = "ABSENT" => po[x] = NoOrder
                           /\ po[x].announced = 1 <=> po[x].status = "SENT"
                           /\ po[x].status # "ABSENT" => requisition.status = "CONVERTED"
  BY <1>1, OpeningsAssumption
<1>3. /\ DOMAIN requisition = {"status", "lines"} /\ IsLines(requisition.lines)
      /\ requisition.status \in {"ABSENT", "PENDING_APPROVAL", "CONVERTED"}
  BY <1>1, OpeningsAssumption DEF IsLines
<1>4. Nothing \in Quantities /\ \A p \in Products : Nothing[p] = 0
  BY DEF Nothing, Quantities
<1>5. Shape
  BY <1>3 DEF Init, Shape
<1>6. TypeOK
  <2>1. po \in [Orders -> [status: Statuses, ordered: Quantities, accepted: Quantities, announced: Nat]]
    BY <1>2, <1>4 DEF Statuses
  <2> QED
    BY <1>2, <1>3, <2>1 DEF Init, TypeOK, IsLines, IsOpen
<1>7. \A t \in Requests : WorkOK(t)
  BY <1>2 DEF Init, WorkOK, There
<1>8. \A o2 \in Orders : OrderOK(o2)
  BY <1>2 DEF OrderOK
<1>9. ReceivedMeansAll /\ ReceiptFollowsApproval
  BY <1>2, <1>4 DEF ReceivedMeansAll, ReceiptFollowsApproval
<1> QED
  BY <1>5, <1>6, <1>7, <1>8, <1>9 DEF IInv

\* What a step has to leave of an order: it stays, its acceptances and approvals grow.
Grows(o) ==
  /\ po'[o] \in [status: Statuses, ordered: Quantities, accepted: Quantities, announced: Nat]
  /\ po[o].status # "ABSENT" => po'[o].status # "ABSENT" /\ po'[o].ordered = po[o].ordered
  /\ po'[o].announced >= po[o].announced
  /\ \A p \in Products : po'[o].accepted[p] >= po[o].accepted[p]

\* A step of t that makes no orders but its own keeps the work of the others.
LEMMA OthersKeep ==
  ASSUME IInv, NEW t \in Requests, NEW u \in Requests \ {t}, pc'[u] = pc[u], work'[u] = work[u],
         \A o \in Orders : Grows(o), \A s \in Suppliers : po'[<< u, s >>].status = "ABSENT" <=> po[<< u, s >>].status = "ABSENT",
         requisition.status # "ABSENT" => requisition'.status # "ABSENT",
         requisition.status = "CONVERTED" => requisition'.status = "CONVERTED"
  PROVE  WorkOK(u)'
<1>1. WorkOK(u) /\ \A o \in Orders : There(o) => There(o)'
  BY DEF IInv, Grows, There
<1>2. \A s \in Suppliers : There(<< u, s >>)' <=> There(<< u, s >>)
  BY DEF There, Orders
<1>3. pc[u] \in {"decide", "prior", "receive"} => There(work[u].po) /\ Grows(work[u].po)
  BY <1>1 DEF WorkOK, There
<1>4. ASSUME pc[u] \in {"idle", "create", "convert"} PROVE WorkOK(u)'
  BY <1>1, <1>2, <1>4 DEF WorkOK
<1>5. ASSUME pc[u] \in {"decide", "prior", "receive"} PROVE WorkOK(u)'
  <2> DEFINE o == work[u].po
  <2>1. /\ o \in Orders /\ There(o)' /\ po[o].announced \in Nat /\ po'[o].announced \in Nat
        /\ po'[o].announced >= po[o].announced
        /\ \A p \in Products : /\ po[o].accepted[p] \in Nat /\ po'[o].accepted[p] \in Nat
                               /\ po'[o].accepted[p] >= po[o].accepted[p]
    BY <1>1, <1>3, <1>5 DEF IInv, TypeOK, Grows, Quantities, There
  <2>2. pc[u] = "receive" => \A p \in Products : work[u].prior[p] \in Nat
    BY <1>1 DEF WorkOK, Quantities
  <2> QED
    BY <1>1, <1>5, <2>1, <2>2 DEF WorkOK, There
<1>6. pc[u] \in {"done", "rejected"} => WorkOK(u)'
  BY DEF WorkOK
<1> QED
  BY <1>4, <1>5, <1>6 DEF IInv, TypeOK

\* A step that writes no document.
LEMMA ReadingStep ==
  ASSUME IInv, NEW t \in Requests, UNCHANGED docs, NEW where, Goto(t, where),
         where \in {"create", "convert", "decide", "prior", "receive", "done", "rejected"},
         DOMAIN work' = Requests, \A u \in Requests \ {t} : work'[u] = work[u],
         stale' \subseteq stale, where \in {"done", "rejected"} => t \notin stale',
         UNCHANGED << raced, repeated >>, WorkOK(t)'
  PROVE  IInv'
<1>1. pc'[t] = where /\ \A u \in Requests \ {t} : pc'[u] = pc[u]
  BY DEF Goto, IInv, TypeOK
<1>2. \A o \in Orders : Grows(o)
  BY DEF docs, IInv, TypeOK, Grows, Quantities
<1>3. \A u \in Requests : WorkOK(u)'
  <2>1. \A u \in Requests \ {t} : WorkOK(u)'
    BY <1>1, <1>2, OthersKeep DEF docs
  <2> QED
    BY <2>1
<1>4. stale' \subseteq {u \in Requests : IsOpen(u)'}
  <2> SUFFICES ASSUME NEW u \in stale' PROVE u \in Requests /\ IsOpen(u)'
    OBVIOUS
  <2>1. u \in Requests /\ IsOpen(u)
    BY DEF IInv, TypeOK
  <2> QED
    BY <1>1, <2>1 DEF IsOpen
<1>5. Shape' /\ TypeOK'
  BY <1>4 DEF docs, Goto, IInv, Shape, TypeOK
<1>6. (\A o \in Orders : OrderOK(o)') /\ ReceivedMeansAll' /\ ReceiptFollowsApproval'
  BY DEF docs, IInv, OrderOK, ReceivedMeansAll, ReceiptFollowsApproval
<1> QED
  BY <1>3, <1>5, <1>6 DEF IInv

\* A commit that leaves the orders so.
LEMMA CommittingStep ==
  ASSUME IInv, NEW t \in Requests, Committed(t), repeated' \in BOOLEAN, onHand' \in Quantities,
         DOMAIN requisition' = {"status", "lines"}, IsLines(requisition'.lines),
         requisition'.status \in {"ABSENT", "PENDING_APPROVAL", "CONVERTED"},
         requisition.status # "ABSENT" => requisition'.status # "ABSENT",
         requisition.status = "CONVERTED" => requisition'.status = "CONVERTED",
         DOMAIN po' = Orders, po' = [o \in Orders |-> po'[o]], \A o \in Orders : Grows(o) /\ OrderOK(o)',
         \A u \in Requests \ {t}, s \in Suppliers :
           po'[<< u, s >>].status = "ABSENT" <=> po[<< u, s >>].status = "ABSENT",
         ReceivedMeansAll', ReceiptFollowsApproval'
  PROVE  IInv'
<1>1. /\ pc'[t] = "done" /\ \A u \in Requests \ {t} : pc'[u] = pc[u] /\ work'[u] = work[u]
      /\ DOMAIN work' = Requests
  BY DEF Committed, Goto, IInv, TypeOK, Shape
<1>2. \A u \in Requests : WorkOK(u)'
  <2>1. WorkOK(t)'
    BY <1>1 DEF WorkOK
  <2>2. \A u \in Requests \ {t} : WorkOK(u)'
    BY <1>1, OthersKeep
  <2> QED
    BY <2>1, <2>2
<1>3. Shape'
  BY <1>1 DEF Shape
<1>4. TypeOK'
  <2>1. po' \in [Orders -> [status: Statuses, ordered: Quantities, accepted: Quantities, announced: Nat]]
    BY DEF Grows
  <2>2. stale' \subseteq {u \in Requests : IsOpen(u)'}
    BY <1>1 DEF IInv, TypeOK, Committed, IsOpen
  <2>3. pc' \in [Requests -> {"idle", "create", "convert", "decide", "prior", "receive", "done", "rejected"}]
    BY DEF IInv, TypeOK, Committed, Goto
  <2>4. raced' \subseteq {"idle", "create", "convert", "decide", "prior", "receive"}
    <3>1. t \in stale => pc[t] \in {"create", "convert", "decide", "prior", "receive"}
      BY DEF IInv, TypeOK, IsOpen
    <3> QED
      BY <3>1 DEF IInv, TypeOK, Committed
  <2>5. DOMAIN requisition'.lines \subseteq Products
    BY DEF IsLines
  <2> QED
    BY <2>1, <2>2, <2>3, <2>4, <2>5 DEF TypeOK
<1> QED
  BY <1>2, <1>3, <1>4 DEF IInv

\* A request that gives up writes nothing.
LEMMA RejectIInv ==
  ASSUME IInv, NEW t \in Requests, Reject(t)
  PROVE  IInv'
<1>1. pc'[t] = "rejected" /\ Goto(t, "rejected")
  BY DEF Reject, Goto, IInv, TypeOK
<1>2. WorkOK(t)'
  BY <1>1 DEF WorkOK
<1>3. DOMAIN work' = Requests /\ \A u \in Requests \ {t} : work'[u] = work[u]
  BY DEF Reject, IInv, Shape
<1> QED
  BY <1>1, <1>2, <1>3, ReadingStep DEF Reject
-----------------------------------------------------------------------------
\* A shortage is found, and becomes a requisition.
LEMMA RequisitionIInv ==
  ASSUME IInv, NEW t \in Requests, Detect(t) \/ CreateRequisition(t)
  PROVE  IInv'
<1>1. CASE Detect(t)
  <2>1. PICK m \in Menu, source \in Sources :
          LET short == {p \in Products : Shortage(source, p) > 0}
              asks(p) == Recommended(Shortage(source, p), Rows[p].daily, Rows[p].safety, Offers[p])
          IN \E lines \in [short -> UNION {asks(p) : p \in short}] :
               /\ \A p \in short : lines[p] \in asks(p)
               /\ work' = [work EXCEPT ![t] = [NoWork EXCEPT !.op = "CREATE", !.lines = lines]]
    BY <1>1 DEF Detect
  <2> DEFINE short == {p \in Products : Shortage(source, p) > 0}
             asks(p) == Recommended(Shortage(source, p), Rows[p].daily, Rows[p].safety, Offers[p])
  <2>2. PICK lines \in [short -> UNION {asks(p) : p \in short}] :
          /\ \A p \in short : lines[p] \in asks(p)
          /\ work' = [work EXCEPT ![t] = [NoWork EXCEPT !.op = "CREATE", !.lines = lines]]
    BY <2>1
  <2>3. \A p \in short : lines[p] \in Nat
    BY <2>2, ShortageIsNat, RecommendedIsNat DEF IInv, TypeOK, Quantities
  <2>4. IsLines(lines)
    BY <2>2, <2>3 DEF IsLines
  <2>5. /\ DOMAIN work' = Requests /\ work'[t].lines = lines
        /\ \A u \in Requests \ {t} : work'[u] = work[u]
    BY <2>2 DEF IInv, Shape, NoWork
  <2>6. pc'[t] = "create"
    BY <1>1 DEF Detect, Goto, IInv, TypeOK
  <2>7. WorkOK(t)'
    BY <2>4, <2>5, <2>6 DEF WorkOK
  <2> QED
    BY <1>1, <2>5, <2>7, ReadingStep DEF Detect
<1>2. CASE CreateRequisition(t)
  <2>1. /\ requisition.status = "ABSENT" /\ pc[t] = "create" /\ Committed(t)
        /\ requisition' = [status |-> "PENDING_APPROVAL", lines |-> work[t].lines]
        /\ UNCHANGED << po, onHand, repeated >>
    BY <1>2 DEF CreateRequisition
  <2>2. IsLines(requisition'.lines)
    BY <2>1 DEF IInv, WorkOK
  <2>3. \A o \in Orders : Grows(o) /\ OrderOK(o)'
    BY <2>1 DEF IInv, TypeOK, Grows, OrderOK, Quantities
  <2>4. po' = [o \in Orders |-> po'[o]]
    BY <2>1 DEF IInv, TypeOK
  <2>5. ReceivedMeansAll' /\ ReceiptFollowsApproval'
    BY <2>1 DEF IInv, ReceivedMeansAll, ReceiptFollowsApproval
  <2> QED
    BY <2>1, <2>2, <2>3, <2>4, <2>5, CommittingStep DEF IInv, TypeOK
<1> QED
  BY <1>1, <1>2

\* What a conversion by t writes of order o.
Converts(t, o) ==
  \/ po'[o] = po[o]
  \/ /\ po[o].status = "ABSENT" /\ o[1] = t
     /\ po'[o].status = "DRAFT" /\ po'[o].announced = 0 /\ po'[o].accepted = Nothing
     /\ po'[o] \in [status: Statuses, ordered: Quantities, accepted: Quantities, announced: Nat]

\* A conversion makes new orders only.
LEMMA ConvertWrites ==
  ASSUME IInv, NEW t \in Requests, Convert(t)
  PROVE  DOMAIN po' = Orders /\ \A o \in Orders : Converts(t, o)
<1>1. PICK pick \in [DOMAIN Lines -> UNION {Offers[p] : p \in DOMAIN Lines}] :
        /\ \A p \in DOMAIN Lines : pick[p] \in Best(Offers[p])
        /\ po' = [o \in Orders |->
             IF o[1] = t /\ \E p \in DOMAIN Lines : pick[p].supplier = o[2]
             THEN OrderFrom(o[2], pick) ELSE po[o]]
  BY DEF Convert
<1>2. ASSUME NEW s
      PROVE  /\ OrderFrom(s, pick).status = "DRAFT" /\ OrderFrom(s, pick).announced = 0
             /\ OrderFrom(s, pick).accepted = Nothing
             /\ OrderFrom(s, pick) \in [status: Statuses, ordered: Quantities,
                                        accepted: Quantities, announced: Nat]
  <2> DEFINE asked == [p \in Products |-> IF p \in DOMAIN Lines /\ pick[p].supplier = s
                                        THEN RoundUpToMoq(Lines[p], pick[p].moq) ELSE 0]
  <2>1. \A p \in DOMAIN Lines : p \in Products /\ Lines[p] \in Nat /\ pick[p].moq \in Nat
    BY <1>1, CatalogueAssumption DEF Lines, IInv, Shape, IsLines, Best
  <2>2. asked \in Quantities
    BY <2>1, RoundUpIsNat DEF Quantities
  <2>3. OrderFrom(s, pick) = [status |-> "DRAFT", ordered |-> asked, accepted |-> Nothing,
                              announced |-> 0]
    BY DEF OrderFrom
  <2>4. Nothing \in Quantities
    BY DEF Nothing, Quantities
  <2> QED
    BY <2>2, <2>3, <2>4 DEF Statuses
<1>3. \A o \in Orders : o[1] = t => po[o].status = "ABSENT"
  BY DEF Convert, IInv, WorkOK, There, Orders
<1>4. \A o \in Orders : \/ po'[o] = po[o]
                        \/ po[o].status = "ABSENT" /\ o[1] = t /\ po'[o] = OrderFrom(o[2], pick)
  BY <1>1, <1>3
<1> QED
  BY <1>1, <1>2, <1>4 DEF Converts

\* A conversion, which makes new orders only.
LEMMA ConvertIInv ==
  ASSUME IInv, NEW t \in Requests, LoadRequisition(t) \/ Convert(t) \/ CannotConvert(t)
  PROVE  IInv'
<1>1. CASE LoadRequisition(t)
  <2>1. PICK where \in {"convert", "rejected"} :
          /\ Goto(t, where) /\ requisition.status # "ABSENT"
          /\ where = "convert" => requisition.status # "CONVERTED"
    BY <1>1 DEF LoadRequisition
  <2>2. pc[t] = "idle" /\ t \notin stale /\ pc'[t] = where /\ work' = work
    BY <1>1, <2>1 DEF LoadRequisition, CanOpen, Goto, IInv, TypeOK, IsOpen
  <2>3. WorkOK(t)'
    BY <1>1, <2>1, <2>2 DEF LoadRequisition, docs, IInv, WorkOK, There
  <2>4. DOMAIN work' = Requests /\ \A u \in Requests \ {t} : work'[u] = work[u]
    BY <2>2 DEF IInv, Shape
  <2> QED
    BY <1>1, <2>1, <2>2, <2>3, <2>4, ReadingStep DEF LoadRequisition, docs
<1>2. CASE Convert(t)
  <2>2. /\ pc[t] = "convert" /\ Committed(t) /\ UNCHANGED << onHand, repeated >>
        /\ requisition' = [requisition EXCEPT !.status = "CONVERTED"]
    BY <1>2 DEF Convert
  <2>3. DOMAIN po' = Orders /\ \A o \in Orders : Converts(t, o)
    BY <1>2, ConvertWrites
  <2>5. \A p \in Products : Nothing[p] = 0
    BY DEF Nothing
  <2>6. ASSUME NEW o \in Orders
        PROVE  /\ Grows(o) /\ OrderOK(o)'
               /\ po'[o].status = "RECEIVED" => po'[o] = po[o]
               /\ (\E p \in Products : po'[o].accepted[p] > 0) => po'[o] = po[o]
    <3>1. CASE po'[o] = po[o]
      BY <3>1 DEF Grows, OrderOK, IInv, TypeOK, Quantities
    <3>2. ASSUME po'[o] # po[o]
          PROVE  /\ Grows(o) /\ OrderOK(o)'
                 /\ po'[o].status # "RECEIVED" /\ \A p \in Products : ~(po'[o].accepted[p] > 0)
      <4>1. po[o].status = "ABSENT"
        BY <2>3, <3>2 DEF Converts
      <4>2. po[o].announced = 0 /\ po[o].accepted = Nothing
        BY <4>1 DEF IInv, OrderOK, NoOrder
      <4> QED
        BY <2>3, <2>5, <3>2, <4>1, <4>2 DEF Converts, Grows, OrderOK
    <3> QED
      BY <3>1, <3>2
  <2>7. ReceivedMeansAll' /\ ReceiptFollowsApproval'
    BY <2>6 DEF IInv, ReceivedMeansAll, ReceiptFollowsApproval
  <2>8. \A u \in Requests \ {t}, s \in Suppliers : po'[<< u, s >>] = po[<< u, s >>]
    BY <2>3 DEF Converts, Orders
  <2>9. /\ DOMAIN requisition' = {"status", "lines"} /\ requisition'.status = "CONVERTED"
        /\ requisition'.lines = requisition.lines
    BY <2>2 DEF IInv, Shape
  <2>10. po' = [o \in Orders |-> po'[o]]
    BY <1>2 DEF Convert
  <2> QED
    BY <2>2, <2>3, <2>6, <2>7, <2>8, <2>9, <2>10, CommittingStep DEF IInv, TypeOK, Shape
<1>3. CASE CannotConvert(t)
  BY <1>3, RejectIInv DEF CannotConvert
<1> QED
  BY <1>1, <1>2, <1>3
-----------------------------------------------------------------------------
\* An order is loaded for what its status admits.
LEMMA LoadOrderIInv ==
  ASSUME IInv, NEW t \in Requests, LoadOrder(t)
  PROVE  IInv'
<1>1. PICK m \in Menu, o \in {o \in Orders : po[o].status # "ABSENT"} :
        /\ m.op \in Decisions \cup {"RECEIVE"}
        /\ IF Admits(m.op, po[o].status)
           THEN /\ work' = [work EXCEPT ![t] = [op |-> m.op, po |-> o, lines |-> m.lines,
                                                seen |-> po[o].status, prior |-> Nothing]]
                /\ Goto(t, IF m.op = "RECEIVE" THEN "prior" ELSE "decide")
           ELSE Goto(t, "rejected") /\ UNCHANGED work
  BY DEF LoadOrder
<1>2. /\ UNCHANGED << docs, stale, raced, repeated >> /\ t \notin stale
      /\ \A where : Goto(t, where) => pc'[t] = where
  BY DEF LoadOrder, CanOpen, IInv, TypeOK, IsOpen, Goto
<1>3. CASE ~Admits(m.op, po[o].status)
  <2>1. Goto(t, "rejected") /\ work' = work /\ WorkOK(t)'
    BY <1>1, <1>2, <1>3 DEF WorkOK
  <2> QED
    BY <1>2, <2>1, ReadingStep DEF IInv, Shape
<1>4. CASE Admits(m.op, po[o].status)
  <2>1. /\ work'[t] = [op |-> m.op, po |-> o, lines |-> m.lines, seen |-> po[o].status,
                       prior |-> Nothing]
        /\ DOMAIN work' = Requests /\ \A u \in Requests \ {t} : work'[u] = work[u]
    BY <1>1, <1>4 DEF IInv, Shape
  <2>2. o \in Orders /\ There(o)' /\ po' = po /\ po[o].status \in Statuses /\ OrderOK(o)
    BY <1>2 DEF docs, There, IInv, TypeOK
  <2>3. CASE m.op = "RECEIVE"
    <3>1. po[o].announced > 0
      BY <1>1, <1>4, <2>2, <2>3 DEF Admits, Decisions, Closed, OrderOK, Statuses
    <3>2. Goto(t, "prior") /\ pc'[t] = "prior"
      BY <1>1, <1>2, <1>4, <2>3
    <3>3. WorkOK(t)'
      BY <2>1, <2>2, <3>1, <3>2 DEF WorkOK, NoWork
    <3> QED
      BY <1>2, <2>1, <3>2, <3>3, ReadingStep
  <2>4. CASE m.op # "RECEIVE"
    <3>1. m.op = "SENT" => po[o].announced > 0
      BY <1>4, <2>2 DEF Admits, OrderOK
    <3>2. Goto(t, "decide") /\ pc'[t] = "decide"
      BY <1>1, <1>2, <1>4, <2>4
    <3>3. WorkOK(t)'
      BY <1>1, <2>1, <2>2, <2>4, <3>1, <3>2 DEF WorkOK
    <3> QED
      BY <1>2, <2>1, <3>2, <3>3, ReadingStep
  <2> QED
    BY <2>3, <2>4
<1> QED
  BY <1>3, <1>4

\* What decision op writes of order o.
Decides(o, op) ==
  /\ DOMAIN po' = Orders /\ \A x \in Orders \ {o} : po'[x] = po[x]
  /\ po'[o].status = Outcome[op] /\ po'[o].ordered = po[o].ordered
  /\ po'[o].accepted = po[o].accepted
  /\ po'[o].announced = IF op = "APPROVE" THEN po[o].announced + 1 ELSE po[o].announced
  /\ po'[o] \in [status: Statuses, ordered: Quantities, accepted: Quantities, announced: Nat]

\* A decision writes one order.
LEMMA DecideWrites ==
  ASSUME IInv, NEW t \in Requests, Decide(t)
  PROVE  \E o \in Orders, op \in Decisions :
           /\ o = work[t].po /\ op = work[t].op /\ There(o)
           /\ op = "SENT" => po[o].announced > 0
           /\ Decides(o, op)
<1>1. PICK o \in Orders, op \in Decisions :
        /\ o = work[t].po /\ op = work[t].op /\ There(o)
        /\ op = "SENT" => po[o].announced > 0
  BY DEF Decide, IInv, WorkOK, There
<1>2. /\ po[o] \in [status: Statuses, ordered: Quantities, accepted: Quantities, announced: Nat]
      /\ DOMAIN po = Orders
  BY <1>1 DEF IInv, TypeOK
<1> DEFINE number == IF op = "APPROVE" THEN po[o].announced + 1 ELSE po[o].announced
           decided == Outcome[op]
           given == [po EXCEPT ![o].status = decided]
<1>3. decided \in Statuses /\ number \in Nat
  BY <1>1, <1>2 DEF Decisions, Statuses, Outcome
<1>4. po' = [po EXCEPT ![o].status = decided,
                       ![o].announced = IF op = "APPROVE" THEN @ + 1 ELSE @]
  BY <1>1 DEF Decide
<1> HIDE DEF decided
<1>5. /\ DOMAIN given = Orders /\ \A x \in Orders \ {o} : given[x] = po[x]
      /\ given[o].status = decided /\ given[o].ordered = po[o].ordered
      /\ given[o].accepted = po[o].accepted /\ given[o].announced = po[o].announced
      /\ given[o] \in [status: Statuses, ordered: Quantities, accepted: Quantities, announced: Nat]
  BY <1>1, <1>2, <1>3
<1>6. po' = [given EXCEPT ![o].announced = number]
  BY <1>1, <1>2, <1>4
<1> HIDE DEF given, number
<1>7. /\ DOMAIN po' = Orders /\ \A x \in Orders \ {o} : po'[x] = given[x]
      /\ po'[o].status = decided /\ po'[o].ordered = po[o].ordered
      /\ po'[o].accepted = po[o].accepted /\ po'[o].announced = number
      /\ po'[o] \in [status: Statuses, ordered: Quantities, accepted: Quantities, announced: Nat]
  BY <1>1, <1>3, <1>5, <1>6
<1> QED
  BY <1>1, <1>5, <1>7 DEF number, decided, Decides

\* A decision keeps the invariant.
LEMMA DecideIInv ==
  ASSUME IInv, NEW t \in Requests, Decide(t)
  PROVE  IInv'
<1>1. PICK o \in Orders, op \in Decisions :
        /\ There(o) /\ Decides(o, op)
        /\ op = "SENT" => po[o].announced > 0
  BY DecideWrites
<1>2. po[o] \in [status: Statuses, ordered: Quantities, accepted: Quantities, announced: Nat]
  BY <1>1 DEF IInv, TypeOK
<1>3. /\ po'[o].status \in {"APPROVED", "CANCELLED", "SENT"}
      /\ po'[o].status = "SENT" => op = "SENT"
      /\ po'[o].status = "APPROVED" => op = "APPROVE"
  BY <1>1 DEF Decides, Decisions, Outcome
<1>4. \A x \in Orders : Grows(x) /\ OrderOK(x)'
  <2>1. Grows(o) /\ OrderOK(o)'
    BY <1>1, <1>2, <1>3 DEF Decides, Grows, OrderOK, Quantities
  <2>2. ASSUME NEW x \in Orders \ {o} PROVE Grows(x) /\ OrderOK(x)'
    BY <1>1, <2>2 DEF Decides, Grows, OrderOK, IInv, TypeOK, Quantities
  <2> QED
    BY <2>1, <2>2
<1>5. ReceivedMeansAll' /\ ReceiptFollowsApproval'
  <2>1. ReceivedMeansAll'
    BY <1>1, <1>3 DEF Decides, IInv, ReceivedMeansAll
  <2>2. ReceiptFollowsApproval'
    BY <1>1, <1>2 DEF Decides, IInv, ReceiptFollowsApproval
  <2> QED
    BY <2>1, <2>2
<1>6. po' = [x \in Orders |-> po'[x]]
  BY DEF Decide, IInv, TypeOK
<1>7. \A x \in Orders : po'[x].status = "ABSENT" <=> po[x].status = "ABSENT"
  BY <1>1, <1>3 DEF Decides, There
<1>8. Committed(t) /\ UNCHANGED << requisition, onHand, repeated >> /\ DOMAIN po' = Orders
  BY <1>1 DEF Decide, Decides
<1> QED
  BY <1>4, <1>5, <1>6, <1>7, <1>8, CommittingStep DEF IInv, TypeOK, Shape, Orders
-----------------------------------------------------------------------------
\* A receipt reads what came before, and checks its lines against it.
LEMMA PriorIInv ==
  ASSUME IInv, NEW t \in Requests, LoadPrior(t) \/ TooMuch(t)
  PROVE  IInv'
<1>1. CASE LoadPrior(t)
  <2> DEFINE sum == [p \in Products |->
               IF p \in DOMAIN work[t].lines THEN po[work[t].po].accepted[p] ELSE 0]
  <2>1. /\ work' = [work EXCEPT ![t].prior = sum] /\ pc[t] = "prior" /\ Goto(t, "receive")
        /\ UNCHANGED << docs, stale, raced, repeated >>
    BY <1>1 DEF LoadPrior
  <2>2. PICK o \in Orders : /\ o = work[t].po /\ There(o) /\ po[o].announced > 0
                            /\ \E m \in Menu : work[t].lines = m.lines
    BY <2>1 DEF IInv, WorkOK, There
  <2>3. po[o].accepted \in Quantities
    BY DEF IInv, TypeOK
  <2>4. sum \in Quantities /\ \A p \in Products : sum[p] <= po[o].accepted[p]
    BY <2>2, <2>3 DEF Quantities
  <2> HIDE DEF sum
  <2>5. DOMAIN work[t] = {"op", "po", "lines", "seen", "prior"}
    BY <2>1 DEF IInv, WorkOK, NoWork
  <2>6. /\ work'[t].po = work[t].po /\ work'[t].lines = work[t].lines /\ work'[t].prior = sum
        /\ DOMAIN work' = Requests /\ \A u \in Requests \ {t} : work'[u] = work[u]
    BY <2>1, <2>5 DEF IInv, Shape
  <2>7. pc'[t] = "receive" /\ po' = po
    BY <2>1 DEF Goto, IInv, TypeOK, docs
  <2>8. WorkOK(t)'
    BY <2>2, <2>4, <2>6, <2>7 DEF WorkOK, There
  <2> QED
    BY <2>1, <2>6, <2>8, ReadingStep
<1>2. CASE TooMuch(t)
  BY <1>2, RejectIInv DEF TooMuch
<1> QED
  BY <1>1, <1>2

\* What a receipt accepts, and when it closes its order.
LEMMA ReceiptCovers ==
  ASSUME IInv, NEW t \in Requests, pc[t] = "receive"
  PROVE  /\ AcceptedNow(t) \in Quantities
         /\ FullyReceived(t) => \A p \in Products :
              po[work[t].po].accepted[p] + AcceptedNow(t)[p] >= po[work[t].po].ordered[p]
<1>1. PICK m \in Menu : work[t].lines = m.lines
  BY DEF IInv, WorkOK
<1>2. \A p \in DOMAIN m.lines : /\ m.lines[p].last \in Nat /\ m.lines[p].sum \in Nat
                                /\ m.lines[p].last <= m.lines[p].sum
  BY LinesAssumption
<1>3. AcceptedNow(t) \in Quantities
  BY <1>1, <1>2 DEF AcceptedNow, Quantities
<1>4. PICK o \in Orders : o = work[t].po
  BY DEF IInv, WorkOK, There
<1>5. \A p \in Products : /\ work[t].prior[p] \in Nat /\ po[o].accepted[p] \in Nat
                          /\ po[o].ordered[p] \in Nat /\ work[t].prior[p] <= po[o].accepted[p]
  BY <1>4 DEF IInv, WorkOK, TypeOK, Quantities
<1>6. ASSUME FullyReceived(t), NEW p \in Products
      PROVE  po[o].accepted[p] + AcceptedNow(t)[p] >= po[o].ordered[p]
  <2>1. CASE p \in DOMAIN m.lines
    <3>1. work[t].prior[p] + m.lines[p].last >= po[o].ordered[p] /\ AcceptedNow(t)[p] = m.lines[p].sum
      BY <1>1, <1>4, <1>6, <2>1 DEF FullyReceived, AcceptedNow
    <3> QED
      BY <1>2, <1>5, <2>1, <3>1
  <2>2. CASE p \notin DOMAIN m.lines
    <3>1. work[t].prior[p] + 0 >= po[o].ordered[p] /\ AcceptedNow(t)[p] = 0
      BY <1>1, <1>4, <1>6, <2>2 DEF FullyReceived, AcceptedNow
    <3> QED
      BY <1>5, <3>1
  <2> QED
    BY <2>1, <2>2
<1> QED
  BY <1>3, <1>4, <1>6

\* What a receipt of t writes of its order.
Receives(t, o, now, status) ==
  /\ DOMAIN po' = Orders /\ \A x \in Orders \ {o} : po'[x] = po[x]
  /\ po'[o].status = status /\ po'[o].ordered = po[o].ordered
  /\ po'[o].announced = po[o].announced
  /\ po'[o].accepted = [p \in Products |-> po[o].accepted[p] + now[p]]
  /\ po'[o] \in [status: Statuses, ordered: Quantities, accepted: Quantities, announced: Nat]

\* A receipt writes its order only.
LEMMA ReceiveWrites ==
  ASSUME IInv, NEW t \in Requests, Receive(t)
  PROVE  \E o \in Orders, now \in Quantities, status \in Statuses :
           /\ o = work[t].po /\ now = AcceptedNow(t) /\ Receives(t, o, now, status)
           /\ status = IF NewStatus(t) = work[t].seen THEN po[o].status ELSE NewStatus(t)
<1>1. PICK o \in Orders : o = work[t].po
  BY DEF Receive, IInv, WorkOK, There
<1>2. PICK now \in Quantities : now = AcceptedNow(t)
  BY ReceiptCovers DEF Receive
<1>3. /\ po[o] \in [status: Statuses, ordered: Quantities, accepted: Quantities, announced: Nat]
      /\ DOMAIN po = Orders
  BY <1>1 DEF IInv, TypeOK
<1>4. PICK status \in Statuses :
        status = IF NewStatus(t) = work[t].seen THEN po[o].status ELSE NewStatus(t)
  BY <1>3 DEF NewStatus, Statuses
<1> DEFINE total == [p \in Products |-> po[o].accepted[p] + now[p]]
           added == [po EXCEPT ![o].accepted = total]
<1>5. total \in Quantities
  BY <1>2, <1>3 DEF Quantities
<1>6. po' = [added EXCEPT ![o].status = status]
  <2>1. po' = [po EXCEPT ![o].accepted = [p \in Products |-> @[p] + AcceptedNow(t)[p]],
                         ![o].status = IF NewStatus(t) = work[t].seen THEN @ ELSE NewStatus(t)]
    BY <1>1 DEF Receive
  <2> QED
    BY <1>1, <1>2, <1>3, <1>4, <2>1
<1> HIDE DEF total
<1>7. /\ DOMAIN added = Orders /\ \A x \in Orders \ {o} : added[x] = po[x]
      /\ added[o].status = po[o].status /\ added[o].ordered = po[o].ordered
      /\ added[o].accepted = total /\ added[o].announced = po[o].announced
      /\ added[o] \in [status: Statuses, ordered: Quantities, accepted: Quantities, announced: Nat]
  BY <1>1, <1>3, <1>5
<1> HIDE DEF added
<1>8. /\ DOMAIN po' = Orders /\ \A x \in Orders \ {o} : po'[x] = added[x]
      /\ po'[o].status = status /\ po'[o].ordered = po[o].ordered
      /\ po'[o].accepted = total /\ po'[o].announced = po[o].announced
      /\ po'[o] \in [status: Statuses, ordered: Quantities, accepted: Quantities, announced: Nat]
  BY <1>1, <1>4, <1>6, <1>7
<1>9. Receives(t, o, now, status)
  BY <1>7, <1>8 DEF Receives, total
<1> QED
  BY <1>1, <1>2, <1>4, <1>9

\* A receipt adds to its order, and closes it only when everything is there.
LEMMA ReceiveIInv ==
  ASSUME IInv, NEW t \in Requests, Receive(t)
  PROVE  IInv'
<1>1. PICK o \in Orders, now \in Quantities, status \in Statuses :
           /\ o = work[t].po /\ now = AcceptedNow(t) /\ Receives(t, o, now, status)
           /\ status = IF NewStatus(t) = work[t].seen THEN po[o].status ELSE NewStatus(t)
  BY ReceiveWrites
<1>2. /\ po[o] \in [status: Statuses, ordered: Quantities, accepted: Quantities, announced: Nat]
      /\ There(o) /\ po[o].announced > 0 /\ po[o].status \notin {"ABSENT", "DRAFT"}
  BY <1>1 DEF Receive, IInv, WorkOK, TypeOK, There, OrderOK
<1>3. /\ \A p \in Products : /\ po[o].accepted[p] \in Nat /\ po'[o].accepted[p] \in Nat
                            /\ po'[o].accepted[p] = po[o].accepted[p] + now[p]
                            /\ po'[o].accepted[p] >= po[o].accepted[p]
      /\ status \notin {"ABSENT", "DRAFT"}
  <2>1. po[o].accepted \in Quantities /\ now \in Quantities
    BY <1>1, <1>2
  <2>2. po'[o].accepted = [p \in Products |-> po[o].accepted[p] + now[p]]
    BY <1>1, <1>2 DEF Receives
  <2>3. status \notin {"ABSENT", "DRAFT"}
    BY <1>1, <1>2 DEF NewStatus
  <2> QED
    BY <2>1, <2>2, <2>3 DEF Quantities
<1>4. Grows(o) /\ OrderOK(o)'
  BY <1>1, <1>2, <1>3 DEF Receives, Grows, OrderOK
<1>5. \A x \in Orders : Grows(x) /\ OrderOK(x)'
  <2>1. ASSUME NEW x \in Orders \ {o} PROVE Grows(x) /\ OrderOK(x)'
    <3>1. po'[x] = po[x]
      BY <1>1 DEF Receives
    <3> QED
      BY <3>1 DEF Grows, OrderOK, IInv, TypeOK, Quantities
  <2> QED
    BY <1>4, <2>1
<1>6. ReceivedMeansAll'
  <2>1. status = "RECEIVED" => \A p \in Products : po[o].accepted[p] + now[p] >= po[o].ordered[p]
    <3>1. CASE FullyReceived(t)
      BY <1>1, <3>1, ReceiptCovers DEF Receive
    <3>2. CASE status = "RECEIVED" /\ ~FullyReceived(t)
      <4>1. po[o].status = "RECEIVED"
        BY <1>1, <3>2 DEF NewStatus
      <4>2. \A p \in Products : /\ po[o].accepted[p] >= po[o].ordered[p] /\ now[p] \in Nat
                                /\ po[o].accepted[p] \in Nat /\ po[o].ordered[p] \in Nat
        BY <1>1, <1>2, <4>1 DEF IInv, ReceivedMeansAll, Quantities
      <4> QED
        BY <4>2
    <3> QED
      BY <3>1, <3>2
  <2>2. ASSUME NEW x \in Orders, po'[x].status = "RECEIVED", NEW p \in Products
        PROVE  po'[x].accepted[p] >= po'[x].ordered[p]
    <3>1. CASE x = o
      BY <1>1, <1>3, <2>1, <2>2, <3>1 DEF Receives
    <3>2. CASE x # o
      BY <1>1, <2>2, <3>2 DEF Receives, IInv, ReceivedMeansAll
    <3> QED
      BY <3>1, <3>2
  <2> QED
    BY <2>2 DEF ReceivedMeansAll
<1>7. ReceiptFollowsApproval'
  BY <1>1, <1>2 DEF Receives, IInv, ReceiptFollowsApproval
<1>8. onHand' \in Quantities
  BY <1>1 DEF Receive, IInv, TypeOK, Quantities
<1>9. /\ Committed(t) /\ requisition' = requisition /\ repeated' \in BOOLEAN
      /\ DOMAIN po' = Orders
  BY <1>1, Zenon DEF Receive, Receives
<1>10. po' = [x \in Orders |-> po'[x]]
  BY <1>9 DEF Receive, IInv, TypeOK
<1>11. \A x \in Orders : po'[x].status = "ABSENT" <=> po[x].status = "ABSENT"
  BY <1>1, <1>2, <1>3 DEF Receives
<1> QED
  BY <1>5, <1>6, <1>7, <1>8, <1>9, <1>10, <1>11, CommittingStep DEF IInv, TypeOK, Shape, Orders

\* Every step keeps the invariant.
LEMMA NextIInv == IInv /\ [Next]_vars => IInv'
<1> SUFFICES ASSUME IInv, [Next]_vars PROVE IInv'
  OBVIOUS
<1>1. CASE UNCHANGED vars
  <2>1. \A o \in Orders : OrderOK(o)' <=> OrderOK(o)
    BY <1>1 DEF vars, docs, OrderOK
  <2>2. \A t \in Requests : WorkOK(t)' <=> WorkOK(t)
    BY <1>1 DEF vars, docs, WorkOK, There
  <2> QED
    BY <1>1, <2>1, <2>2 DEF vars, docs, IInv, Shape, TypeOK, IsOpen, ReceivedMeansAll,
                            ReceiptFollowsApproval
<1>2. ASSUME NEW t \in Requests,
             Detect(t) \/ LoadRequisition(t) \/ LoadOrder(t) \/ Step(t) \/ Lose(t)
      PROVE  IInv'
  BY <1>2, RequisitionIInv, ConvertIInv, LoadOrderIInv, DecideIInv, PriorIInv, ReceiveIInv,
     RejectIInv DEF Step, Lose
<1> QED
  BY <1>1, <1>2 DEF Next, Finished

\* What requests have loaded is there and what they have summed was accepted.
THEOREM Inductive == Spec => []IInv
  BY InitIInv, NextIInv, PTL DEF Spec

\* Every state has the shape the tables give it.
THEOREM TypeCorrect == Spec => []TypeOK
  BY Inductive, PTL DEF IInv

\* create_goods_receipt sets RECEIVED only when everything ordered has been
\* accepted, and nothing undoes it: whatever receipts overlap.
THEOREM ReceivedIsComplete == Spec => []ReceivedMeansAll
  BY Inductive, PTL DEF IInv

\* What is received was approved at some time, whatever else was decided since.
THEOREM ReceiptIsApproved == Spec => []ReceiptFollowsApproval
  BY Inductive, PTL DEF IInv
-----------------------------------------------------------------------------
\* As long as nobody commits, what t has checked still holds.
Fresh(t) == t \notin stale =>
  /\ pc[t] = "convert" => requisition.status # "CONVERTED"
  /\ pc[t] = "decide" => Admits(work[t].op, po[work[t].po].status)
  /\ pc[t] \in {"prior", "receive"} => po[work[t].po].status \notin Closed
  /\ pc[t] = "receive" => \A p \in DOMAIN work[t].lines :
       work[t].lines[p].largest <= Outstanding(work[t].po, p)

ReadsFresh == \A t \in Requests : Fresh(t)

\* An order comes from a conversion, which has marked the requisition.
OrdersConverted == (\E o \in Orders : po[o].status # "ABSENT") => requisition.status = "CONVERTED"

\* A step that writes no document leaves what others have checked.
LEMMA FreshReading ==
  ASSUME ReadsFresh, NEW t \in Requests, UNCHANGED docs, Fresh(t)',
         \A u \in Requests \ {t} : pc'[u] = pc[u] /\ work'[u] = work[u] /\ (u \in stale' <=> u \in stale)
  PROVE  ReadsFresh'
<1>1. ASSUME NEW u \in Requests \ {t} PROVE Fresh(u)'
  BY <1>1 DEF docs, ReadsFresh, Fresh, Outstanding
<1> QED
  BY <1>1 DEF ReadsFresh

\* Who is open when somebody commits has checked nothing that counts.
LEMMA FreshCommitting ==
  ASSUME IInv, NEW t \in Requests, Committed(t)
  PROVE  ReadsFresh'
<1>1. ASSUME NEW u \in Requests PROVE Fresh(u)'
  <2>1. CASE u = t
    BY <2>1 DEF Committed, Goto, Fresh, IInv, TypeOK
  <2>2. CASE u # t
    <3>1. pc'[u] = pc[u] /\ (u \in stale' <=> u \in stale \/ IsOpen(u))
      BY <2>2 DEF Committed, Goto, IInv, TypeOK
    <3> QED
      BY <3>1 DEF Fresh, IsOpen
  <2> QED
    BY <2>1, <2>2
<1> QED
  BY <1>1 DEF ReadsFresh

\* Giving up leaves what others have checked.
LEMMA FreshReject ==
  ASSUME IInv, ReadsFresh, NEW t \in Requests, Reject(t)
  PROVE  ReadsFresh'
<1>1. /\ pc'[t] = "rejected" /\ UNCHANGED docs
      /\ \A u \in Requests \ {t} : pc'[u] = pc[u] /\ work'[u] = work[u]
                                   /\ (u \in stale' <=> u \in stale)
  BY DEF Reject, Goto, IInv, TypeOK, Shape
<1>2. Fresh(t)'
  BY <1>1 DEF Fresh
<1> QED
  BY <1>1, <1>2, FreshReading

\* A step of t that writes no document and is not a rollback.
Reads(t) ==
  /\ UNCHANGED << docs, stale, raced, repeated >>
  /\ \A u \in Requests \ {t} : pc'[u] = pc[u] /\ work'[u] = work[u]
  /\ Detect(t) \/ LoadRequisition(t) \/ LoadOrder(t) \/ LoadPrior(t)

\* The four steps that only read.
LEMMA ReadsAreReads ==
  ASSUME IInv, NEW t \in Requests, Detect(t) \/ LoadRequisition(t) \/ LoadOrder(t) \/ LoadPrior(t)
  PROVE  Reads(t)
<1>1. UNCHANGED << docs, stale, raced, repeated >>
  BY DEF Detect, LoadRequisition, LoadOrder, LoadPrior
<1>2. \E where : Goto(t, where)
  BY Zenon DEF Detect, LoadRequisition, LoadOrder, LoadPrior
<1>3. work' = work \/ \E what : work' = [work EXCEPT ![t] = what]
  <2>1. CASE Detect(t)
    BY <2>1, Zenon DEF Detect
  <2>2. CASE LoadRequisition(t)
    BY <2>2 DEF LoadRequisition
  <2>3. CASE LoadOrder(t)
    BY <2>3, Zenon DEF LoadOrder
  <2>4. CASE LoadPrior(t)
    BY <2>4, Zenon DEF LoadPrior
  <2> QED
    BY <2>1, <2>2, <2>3, <2>4
<1>4. \A u \in Requests \ {t} : pc'[u] = pc[u]
  <2>1. PICK where : Goto(t, where)
    BY <1>2
  <2> QED
    BY <2>1 DEF Goto, IInv, TypeOK
<1>5. \A u \in Requests \ {t} : work'[u] = work[u]
  <2>1. CASE work' = work
    BY <2>1
  <2>2. ASSUME NEW what, work' = [work EXCEPT ![t] = what]
        PROVE  \A u \in Requests \ {t} : work'[u] = work[u]
    BY <2>2 DEF IInv, Shape
  <2> QED
    BY <1>3, <2>1, <2>2, Zenon
<1> QED
  BY <1>1, <1>4, <1>5, Zenon DEF Reads

\* What a request checks holds when it has checked it.
LEMMA FreshChecked ==
  ASSUME IInv, ReadsFresh, NEW t \in Requests, Reads(t)
  PROVE  Fresh(t)'
<1>1. \A where : Goto(t, where) => pc'[t] = where
  BY DEF Goto, IInv, TypeOK
<1>2. CASE Detect(t)
  BY <1>1, <1>2 DEF Detect, Fresh
<1>3. CASE LoadRequisition(t)
  <2>1. pc'[t] = IF requisition.status = "CONVERTED" THEN "rejected" ELSE "convert"
    BY <1>1, <1>3 DEF LoadRequisition
  <2> QED
    BY <2>1 DEF Reads, docs, Fresh
<1>4. CASE LoadOrder(t)
  <2>1. PICK m \in Menu, o \in {o \in Orders : po[o].status # "ABSENT"} :
          /\ m.op \in Decisions \cup {"RECEIVE"}
          /\ IF Admits(m.op, po[o].status)
             THEN /\ work' = [work EXCEPT ![t] = [op |-> m.op, po |-> o, lines |-> m.lines,
                                                  seen |-> po[o].status, prior |-> Nothing]]
                  /\ Goto(t, IF m.op = "RECEIVE" THEN "prior" ELSE "decide")
             ELSE Goto(t, "rejected") /\ UNCHANGED work
    BY <1>4 DEF LoadOrder
  <2>2. CASE ~Admits(m.op, po[o].status)
    BY <1>1, <2>1, <2>2 DEF Fresh
  <2>3. CASE Admits(m.op, po[o].status)
    <3>1. work'[t].op = m.op /\ work'[t].po = o /\ po' = po
      BY <2>1, <2>3 DEF IInv, Shape, Reads, docs
    <3>2. pc'[t] = IF m.op = "RECEIVE" THEN "prior" ELSE "decide"
      BY <1>1, <2>1, <2>3
    <3> QED
      BY <2>3, <3>1, <3>2 DEF Fresh, Admits
  <2> QED
    BY <2>2, <2>3
<1>5. CASE LoadPrior(t)
  <2>1. /\ pc[t] = "prior" /\ pc'[t] = "receive" /\ Fresh(t) /\ po' = po /\ stale' = stale
        /\ \A p \in DOMAIN work[t].lines : work[t].lines[p].largest <= Outstanding(work[t].po, p)
    BY <1>1, <1>5 DEF LoadPrior, ReadsFresh, docs
  <2>2. DOMAIN work[t] = {"op", "po", "lines", "seen", "prior"}
    BY <2>1 DEF IInv, WorkOK, NoWork
  <2>3. work'[t].po = work[t].po /\ work'[t].lines = work[t].lines
    BY <1>5, <2>2 DEF LoadPrior, IInv, Shape
  <2> QED
    BY <2>1, <2>3 DEF Fresh, Outstanding
<1> QED
  BY <1>2, <1>3, <1>4, <1>5 DEF Reads

\* What is checked is current until somebody commits.
LEMMA NextFresh == IInv /\ ReadsFresh /\ [Next]_vars => ReadsFresh'
<1> SUFFICES ASSUME IInv, ReadsFresh, [Next]_vars PROVE ReadsFresh'
  OBVIOUS
<1>1. CASE UNCHANGED vars
  BY <1>1 DEF vars, docs, ReadsFresh, Fresh, Outstanding
<1>2. ASSUME NEW t \in Requests, Detect(t) \/ LoadRequisition(t) \/ LoadOrder(t) \/ LoadPrior(t)
      PROVE  ReadsFresh'
  BY <1>2, ReadsAreReads, FreshChecked, FreshReading DEF Reads
<1>3. ASSUME NEW t \in Requests, CannotConvert(t) \/ TooMuch(t) \/ Lose(t)
      PROVE  ReadsFresh'
  BY <1>3, FreshReject DEF CannotConvert, TooMuch, Lose
<1>4. ASSUME NEW t \in Requests, CreateRequisition(t) \/ Convert(t) \/ Decide(t) \/ Receive(t)
      PROVE  ReadsFresh'
  BY <1>4, FreshCommitting DEF CreateRequisition, Convert, Decide, Receive
<1> QED
  BY <1>1, <1>2, <1>3, <1>4 DEF Next, Step, Finished
-----------------------------------------------------------------------------
\* What holds until a stale conversion, decision or receipt commits.
BoughtOnce == \A t, u \in Requests : Converted(t) /\ Converted(u) => t = u
DecidedOnce == \A o \in Orders : /\ po[o].announced <= 1
                                 /\ po[o].status = "CANCELLED" => po[o].announced = 0
WithinOrder == \A o \in Orders, p \in Products : po[o].accepted[p] <= po[o].ordered[p]

UIInv == /\ IInv /\ ReadsFresh /\ OrdersConverted
         /\ "convert" \notin raced => BoughtOnce
         /\ "decide" \notin raced => DecidedOnce
         /\ "receive" \notin raced /\ ~repeated => WithinOrder

\* A step that leaves the orders keeps what is said of them.
Quiet == po' = po /\ repeated' = repeated /\ raced \subseteq raced'
           /\ (requisition.status = "CONVERTED" => requisition'.status = "CONVERTED")

\* Either a step leaves the orders, or it is one of the three that write them.
LEMMA StepKinds ==
  ASSUME IInv, Next
  PROVE  Quiet \/ \E t \in Requests : Convert(t) \/ Decide(t) \/ Receive(t)
<1>1. CASE Finished
  BY <1>1 DEF Finished, vars, docs, Quiet
<1>2. ASSUME NEW t \in Requests, Detect(t) \/ LoadRequisition(t) \/ LoadOrder(t) \/ LoadPrior(t)
      PROVE  Quiet
  <2>1. po' = po /\ requisition' = requisition /\ repeated' = repeated /\ raced' = raced
    BY <1>2 DEF Detect, LoadRequisition, LoadOrder, LoadPrior, docs
  <2> QED
    BY <2>1, Zenon DEF Quiet
<1>3. ASSUME NEW t \in Requests, CannotConvert(t) \/ TooMuch(t) \/ Lose(t)
      PROVE  Quiet
  <2>1. Reject(t)
    BY <1>3 DEF CannotConvert, TooMuch, Lose
  <2>2. po' = po /\ requisition' = requisition /\ repeated' = repeated /\ raced' = raced
    BY <2>1 DEF Reject, docs
  <2> QED
    BY <2>2, Zenon DEF Quiet
<1>4. ASSUME NEW t \in Requests, CreateRequisition(t)
      PROVE  Quiet
  BY <1>4 DEF CreateRequisition, Committed, Quiet
<1> QED
  BY <1>1, <1>2, <1>3, <1>4 DEF Next, Step

\* What is said of the orders, when one step has written them.
Said == /\ OrdersConverted
        /\ "convert" \notin raced => BoughtOnce
        /\ "decide" \notin raced => DecidedOnce
        /\ "receive" \notin raced /\ ~repeated => WithinOrder

\* A quiet step leaves what is said.
LEMMA QuietSaid ==
  ASSUME UIInv, Quiet
  PROVE  Said'
BY DEF UIInv, Quiet, Said, OrdersConverted, BoughtOnce, DecidedOnce, WithinOrder, Converted

\* A conversion by who is not stale is the first one.
LEMMA ConvertSaid ==
  ASSUME UIInv, NEW t \in Requests, Convert(t)
  PROVE  Said'
<1>1. /\ pc[t] = "convert" /\ requisition'.status = "CONVERTED" /\ repeated' = repeated
      /\ raced \subseteq raced' /\ (t \in stale => pc[t] \in raced')
  BY DEF Convert, Committed, UIInv, IInv, Shape
<1>2. \A o \in Orders : Converts(t, o)
  BY ConvertWrites DEF UIInv
<1>3. ASSUME "convert" \notin raced' PROVE BoughtOnce'
  <2>1. \A o \in Orders : po[o].status = "ABSENT"
    BY <1>1, <1>3 DEF UIInv, ReadsFresh, Fresh, OrdersConverted
  <2>2. ASSUME NEW u \in Requests, Converted(u)' PROVE u = t
    <3>1. PICK s \in Suppliers : po'[<< u, s >>].status # "ABSENT"
      BY <2>2 DEF Converted
    <3>2. << u, s >> \in Orders /\ << u, s >>[1] = u
      BY DEF Orders
    <3> QED
      BY <1>2, <2>1, <3>1, <3>2 DEF Converts
  <2> QED
    BY <2>2 DEF BoughtOnce
<1>4. ASSUME "decide" \notin raced' PROVE DecidedOnce'
  <2>1. DecidedOnce
    BY <1>1, <1>4 DEF UIInv
  <2>2. \A o \in Orders : po'[o] # po[o] => po'[o].announced = 0
    BY <1>2 DEF Converts
  <2>3. ASSUME NEW o \in Orders
        PROVE  po'[o].announced <= 1 /\ (po'[o].status = "CANCELLED" => po'[o].announced = 0)
    BY <2>1, <2>2 DEF DecidedOnce
  <2> QED
    BY <2>3 DEF DecidedOnce
<1>5. ASSUME "receive" \notin raced', ~repeated' PROVE WithinOrder'
  <2>1. \A o \in Orders, p \in Products : po'[o] # po[o] => /\ po'[o].accepted[p] = 0
                                                          /\ po'[o].ordered[p] \in Nat
    BY <1>2 DEF Converts, Nothing, Quantities
  <2>2. WithinOrder
    BY <1>1, <1>5 DEF UIInv
  <2>3. ASSUME NEW o \in Orders, NEW p \in Products PROVE po'[o].accepted[p] <= po'[o].ordered[p]
    BY <2>1, <2>2 DEF WithinOrder
  <2> QED
    BY <2>3 DEF WithinOrder
<1>6. OrdersConverted'
  BY <1>1 DEF OrdersConverted
<1> QED
  BY <1>3, <1>4, <1>5, <1>6 DEF Said

\* A decision by who is not stale is the first one of its order.
LEMMA DecideSaid ==
  ASSUME UIInv, NEW t \in Requests, Decide(t)
  PROVE  Said'
<1>1. PICK o \in Orders, op \in Decisions :
        /\ o = work[t].po /\ op = work[t].op /\ There(o) /\ Decides(o, op)
  BY DecideWrites DEF UIInv
<1>2. /\ pc[t] = "decide" /\ requisition' = requisition /\ repeated' = repeated
      /\ raced \subseteq raced' /\ (t \in stale => pc[t] \in raced')
  BY DEF Decide, Committed
<1>3. /\ po[o] \in [status: Statuses, ordered: Quantities, accepted: Quantities, announced: Nat]
      /\ OrderOK(o)
  BY DEF UIInv, IInv, TypeOK
<1>4. \A x \in Orders : /\ po'[x].accepted = po[x].accepted /\ po'[x].ordered = po[x].ordered
                        /\ po'[x].status = "ABSENT" <=> po[x].status = "ABSENT"
  BY <1>1 DEF Decides, Decisions, Outcome, There
<1>5. \A u \in Requests : Converted(u)' <=> Converted(u)
  BY <1>4 DEF Converted, Orders
<1>6. OrdersConverted' /\ ("convert" \notin raced' => BoughtOnce')
  BY <1>2, <1>4, <1>5 DEF UIInv, OrdersConverted, BoughtOnce
<1>7. "receive" \notin raced' /\ ~repeated' => WithinOrder'
  BY <1>2, <1>4 DEF UIInv, WithinOrder
<1>8. ASSUME "decide" \notin raced' PROVE DecidedOnce'
  <2>1. Admits(op, po[o].status) /\ po[o].announced <= 1 /\ DecidedOnce
    BY <1>1, <1>2, <1>8 DEF UIInv, ReadsFresh, Fresh, DecidedOnce
  <2>2. op \in {"APPROVE", "REJECT"} => po[o].announced = 0
    BY <1>3, <2>1 DEF Admits, Undecided, Statuses, OrderOK
  <2>3. po'[o].announced <= 1 /\ (po'[o].status = "CANCELLED" => po'[o].announced = 0)
    BY <1>1, <1>3, <2>1, <2>2 DEF Decides, Decisions, Outcome
  <2> QED
    BY <1>1, <2>1, <2>3 DEF Decides, DecidedOnce
<1> QED
  BY <1>6, <1>7, <1>8 DEF Said

\* A receipt by who is not stale stays within its order, unless it names a
\* product twice.
LEMMA ReceiveSaid ==
  ASSUME UIInv, NEW t \in Requests, Receive(t)
  PROVE  Said'
<1>1. PICK o \in Orders, now \in Quantities, status \in Statuses :
        /\ o = work[t].po /\ now = AcceptedNow(t) /\ Receives(t, o, now, status)
        /\ status = IF NewStatus(t) = work[t].seen THEN po[o].status ELSE NewStatus(t)
  BY ReceiveWrites DEF UIInv
<1>2. /\ pc[t] = "receive" /\ requisition' = requisition /\ raced \subseteq raced'
      /\ t \in stale => pc[t] \in raced'
      /\ ~repeated' => /\ ~repeated
                       /\ \A p \in DOMAIN work[t].lines :
                            work[t].lines[p].sum = work[t].lines[p].last
  BY DEF Receive, Committed
<1>3. There(o) /\ po[o].announced > 0
  BY <1>1, <1>2 DEF UIInv, IInv, WorkOK
<1>4. \A x \in Orders : /\ po'[x].announced = po[x].announced
                        /\ po'[x].status = "ABSENT" <=> po[x].status = "ABSENT"
                        /\ po'[x].status = "CANCELLED" => po[x].status = "CANCELLED"
  BY <1>1, <1>3 DEF Receives, NewStatus, There
<1>5. \A u \in Requests : Converted(u)' <=> Converted(u)
  BY <1>4 DEF Converted, Orders
<1>6. /\ OrdersConverted'
      /\ "convert" \notin raced' => BoughtOnce'
      /\ "decide" \notin raced' => DecidedOnce'
  BY <1>2, <1>4, <1>5 DEF UIInv, OrdersConverted, BoughtOnce, DecidedOnce
<1>7. ASSUME "receive" \notin raced', ~repeated' PROVE WithinOrder'
  <2>1. PICK m \in Menu : work[t].lines = m.lines
    BY <1>2 DEF UIInv, IInv, WorkOK
  <2>2. \A p \in DOMAIN m.lines :
          /\ m.lines[p].largest <= po[o].ordered[p] - po[o].accepted[p]
          /\ m.lines[p].sum <= m.lines[p].largest
          /\ m.lines[p].sum \in Nat /\ m.lines[p].largest \in Nat
    BY <1>1, <1>2, <1>7, <2>1, LinesAssumption DEF UIInv, ReadsFresh, Fresh, Outstanding
  <2>3. /\ \A p \in Products : /\ po[o].ordered[p] \in Nat /\ po[o].accepted[p] \in Nat
                              /\ po[o].accepted[p] <= po[o].ordered[p]
      /\ WithinOrder
    BY <1>2, <1>7 DEF UIInv, IInv, TypeOK, Quantities, WithinOrder
  <2>4. ASSUME NEW p \in Products PROVE po'[o].accepted[p] <= po'[o].ordered[p]
    <3>1. po'[o].accepted[p] = po[o].accepted[p] + now[p] /\ po'[o].ordered[p] = po[o].ordered[p]
      BY <1>1 DEF Receives
    <3>2. now[p] = IF p \in DOMAIN m.lines THEN m.lines[p].sum ELSE 0
      BY <1>1, <2>1 DEF AcceptedNow
    <3> QED
      BY <2>2, <2>3, <3>1, <3>2
  <2> QED
    BY <1>1, <2>3, <2>4 DEF Receives, WithinOrder
<1> QED
  BY <1>6, <1>7 DEF Said

\* The invariant of what does not race.
LEMMA NextUIInv == UIInv /\ [Next]_vars => UIInv'
<1> SUFFICES ASSUME UIInv, [Next]_vars PROVE UIInv'
  OBVIOUS
<1>1. Said'
  <2>1. CASE UNCHANGED vars
    BY <2>1, QuietSaid DEF vars, docs, Quiet
  <2>2. CASE Next
    BY <2>2, StepKinds, QuietSaid, ConvertSaid, DecideSaid, ReceiveSaid DEF UIInv
  <2> QED
    BY <2>1, <2>2
<1> QED
  BY <1>1, NextIInv, NextFresh DEF UIInv, Said

\* At first nobody has raced, at most one conversion was made, and nothing received.
LEMMA InitUIInv == Init => UIInv
<1> SUFFICES ASSUME Init PROVE UIInv
  OBVIOUS
<1>1. PICK o \in Openings : requisition = o.requisition /\ po = o.po
  BY DEF Init
<1>2. po \in [Orders -> [status: {"ABSENT", "DRAFT", "SENT"}, ordered: Quantities,
                        accepted: {Nothing}, announced: {0, 1}]]
  BY <1>1, OpeningsAssumption
<1>3. PICK t \in Requests : \A x \in Orders :
        po[x].status # "ABSENT" => x[1] = t /\ requisition.status = "CONVERTED"
  BY <1>1, OpeningsAssumption
<1>4. ReadsFresh
  BY DEF Init, ReadsFresh, Fresh
<1>5. OrdersConverted
  BY <1>3 DEF OrdersConverted
<1>6. BoughtOnce
  <2>1. \A u \in Requests : Converted(u) => u = t
    BY <1>3 DEF Converted, Orders
  <2> QED
    BY <2>1 DEF BoughtOnce
<1>7. DecidedOnce
  BY <1>2 DEF DecidedOnce
<1>8. WithinOrder
  <2>1. \A x \in Orders : po[x].accepted = Nothing /\ po[x].ordered \in Quantities
    BY <1>2
  <2> QED
    BY <2>1 DEF WithinOrder, Nothing, Quantities
<1> QED
  BY <1>4, <1>5, <1>6, <1>7, <1>8, InitIInv DEF UIInv

\* What is said of unraced histories holds throughout.
THEOREM UnracedInductive == Spec => []UIInv
  BY InitUIInv, NextUIInv, PTL DEF Spec

\* A requisition is bought twice only when a conversion commits on what another
\* one has made stale: the status check keeps conversions in sequence apart.
THEOREM BoughtOnceUnlessRaced == Spec => []BoughtTwiceNeedsOverlap
<1>1. UIInv => BoughtTwiceNeedsOverlap
  BY DEF UIInv, BoughtOnce, BoughtTwiceNeedsOverlap
<1> QED
  BY <1>1, UnracedInductive, PTL

\* The comparison with earlier receipts keeps receipts in sequence within the
\* order, as long as none names a product twice.
THEOREM WithinOrderUnlessRaced == Spec => []OverReceiptNeedsOverlap
<1>1. UIInv => OverReceiptNeedsOverlap
  <2> SUFFICES ASSUME UIInv, "receive" \notin raced, ~repeated
               PROVE  ~ \E o \in Orders, p \in Products : po[o].accepted[p] > po[o].ordered[p]
    BY DEF OverReceiptNeedsOverlap
  <2>1. WithinOrder /\ \A o \in Orders, p \in Products : /\ po[o].accepted[p] \in Nat
                                                      /\ po[o].ordered[p] \in Nat
    BY DEF UIInv, IInv, TypeOK, Quantities
  <2> QED
    BY <2>1 DEF WithinOrder
<1> QED
  BY <1>1, UnracedInductive, PTL

\* The supplier is sent an order once, and never one that was rejected, unless two
\* decisions overlap.
THEOREM DecidedOnceUnlessRaced == Spec => []OneDecision
<1>1. UIInv => OneDecision
  BY DEF UIInv, DecidedOnce, OneDecision
<1> QED
  BY <1>1, UnracedInductive, PTL

\* A step of who is not stale moves an order along its life cycle.
THEOREM MovesAlong == Spec => StatusMoves
<1>1. UIInv /\ [Next]_vars => [\A o \in Orders : Moved(o) \/ raced' # {}]_vars
  <2> SUFFICES ASSUME UIInv, Next, NEW o \in Orders, raced' = {} PROVE Moved(o)
    OBVIOUS
  <2>1. CASE Quiet
    BY <2>1 DEF Quiet, Moved
  <2>2. ASSUME NEW t \in Requests, Convert(t) PROVE Moved(o)
    <3>1. Converts(t, o)
      BY <2>2, ConvertWrites DEF UIInv
    <3> QED
      BY <3>1 DEF Converts, Moves, Moved
  <2>3. ASSUME NEW t \in Requests, Decide(t) PROVE Moved(o)
    <3>1. PICK x \in Orders, op \in Decisions :
            x = work[t].po /\ op = work[t].op /\ There(x) /\ Decides(x, op)
      BY <2>3, DecideWrites DEF UIInv
    <3>2. t \notin stale /\ pc[t] = "decide"
      BY <2>3 DEF Decide, Committed
    <3>3. Admits(op, po[x].status) /\ po[x].status \in Statuses
      BY <3>1, <3>2 DEF UIInv, IInv, TypeOK, ReadsFresh, Fresh
    <3>4. << po[x].status, po'[x].status >> \in Moves
      BY <3>1, <3>3 DEF Admits, Decides, Decisions, Outcome, Undecided, Statuses, Moves
    <3> QED
      BY <3>1, <3>4 DEF Decides, Moved
  <2>4. ASSUME NEW t \in Requests, Receive(t) PROVE Moved(o)
    <3>1. PICK x \in Orders, now \in Quantities, status \in Statuses :
            /\ x = work[t].po /\ Receives(t, x, now, status)
            /\ status = IF NewStatus(t) = work[t].seen THEN po[x].status ELSE NewStatus(t)
      BY <2>4, ReceiveWrites DEF UIInv
    <3>2. t \notin stale /\ pc[t] = "receive"
      BY <2>4 DEF Receive, Committed
    <3>3. po[x].status \in {"APPROVED", "SENT", "PARTIALLY_RECEIVED", "RECEIVED"}
      BY <3>1, <3>2 DEF UIInv, IInv, TypeOK, ReadsFresh, Fresh, WorkOK, There, Closed, Statuses
    <3>4. po'[x].status = po[x].status \/ po'[x].status \in {"PARTIALLY_RECEIVED", "RECEIVED"}
      BY <3>1 DEF Receives, NewStatus
    <3>5. po'[x].status = po[x].status \/ << po[x].status, po'[x].status >> \in Moves
      BY <3>3, <3>4 DEF Moves
    <3> QED
      BY <3>1, <3>5 DEF Receives, Moved
  <2> QED
    BY <2>1, <2>2, <2>3, <2>4, StepKinds DEF UIInv
<1> QED
  BY <1>1, InitUIInv, NextUIInv, PTL DEF Spec, StatusMoves
-----------------------------------------------------------------------------
\* One of the orders of t covers the line for p.
LineOrdered(t, p) == \E s \in Suppliers : po[<< t, s >>].ordered[p] >= Lines[p]

\* What makes a conversion complete: a requisition has lines, and each is ordered
\* in full from one supplier.
Complete ==
  /\ requisition.status # "ABSENT" => DOMAIN Lines # {}
  /\ \A t \in Requests : pc[t] = "create" => DOMAIN work[t].lines # {}
  /\ requisition.status = "CONVERTED" => \E t \in Requests : Converted(t)
  /\ \A t \in Requests : Converted(t) => \A p \in DOMAIN Lines : LineOrdered(t, p)

CInv == UIInv /\ Complete

\* The least multiple of the minimum order quantity covers what is asked for.
LEMMA RoundUpCovers ==
  ASSUME NEW q \in Nat, NEW moq \in Nat
  PROVE  RoundUpToMoq(q, moq) >= q
<1>1. CASE moq > 0
  <2> DEFINE n == q + moq - 1
             d == n \div moq
  <2>1. n \in Nat /\ d \in Nat
    BY <1>1
  <2>2. n = moq * d + (n % moq) /\ n % moq < moq /\ n % moq \in Nat
    BY <1>1, <2>1
  <2>3. moq * d = d * moq /\ d * moq \in Nat
    BY <2>1
  <2>4. d * moq >= q
    <3> HIDE DEF d
    <3> QED BY <2>2, <2>3
  <2>5. QED
    BY <1>1, <2>4 DEF RoundUpToMoq
<1>2. CASE moq = 0
  BY <1>2 DEF RoundUpToMoq
<1>3. QED
  BY <1>1, <1>2

\* A step that leaves the orders and the lines, and starts no empty requisition.
LEMMA CompleteStays ==
  ASSUME Complete, UNCHANGED << po, requisition >>,
         \A t \in Requests : pc'[t] = "create" => DOMAIN work'[t].lines # {}
  PROVE  Complete'
<1>1. Lines' = Lines
  BY DEF Lines
<1>2. \A t \in Requests : Converted(t)' = Converted(t)
  BY DEF Converted
<1>3. \A t \in Requests : \A p : LineOrdered(t, p)' = LineOrdered(t, p)
  BY <1>1 DEF LineOrdered
<1>4. QED
  BY <1>1, <1>2, <1>3 DEF Complete

\* A request that commits or gives up asks for nothing any more.
LEMMA AsksNoMore ==
  ASSUME IInv, Complete, NEW t \in Requests, NEW where \in {"done", "rejected"}, Goto(t, where),
         work' = [work EXCEPT ![t] = NoWork]
  PROVE  \A u \in Requests : pc'[u] = "create" => DOMAIN work'[u].lines # {}
BY DEF IInv, TypeOK, Shape, Complete, Goto

\* A shortage has at least one product, and so has what is asked for.
LEMMA DetectComplete ==
  ASSUME IInv, Complete, NEW t \in Requests, Detect(t)
  PROVE  Complete'
<1>1. PICK short, lines :
        /\ short # {} /\ DOMAIN lines = short
        /\ work' = [work EXCEPT ![t] = [NoWork EXCEPT !.op = "CREATE", !.lines = lines]]
  BY DEF Detect
<1>2. UNCHANGED << po, requisition >> /\ Goto(t, "create")
  BY DEF Detect, docs
<1>3. /\ work'[t].lines = lines
      /\ \A u \in Requests \ {t} : work'[u] = work[u] /\ pc'[u] = pc[u]
  BY <1>1, <1>2 DEF IInv, TypeOK, Shape, NoWork, Goto
<1>4. \A u \in Requests : pc'[u] = "create" => DOMAIN work'[u].lines # {}
  BY <1>1, <1>3 DEF Complete
<1>5. QED
  BY <1>2, <1>4, CompleteStays

\* A step that loads something to convert, decide on or receive.
LEMMA LoadComplete ==
  ASSUME IInv, Complete, NEW t \in Requests, LoadRequisition(t) \/ LoadOrder(t) \/ LoadPrior(t)
  PROVE  Complete'
<1>1. UNCHANGED << po, requisition >>
  BY DEF LoadRequisition, LoadOrder, LoadPrior, docs
<1>2. /\ pc'[t] # "create"
      /\ \A u \in Requests \ {t} : work'[u] = work[u] /\ pc'[u] = pc[u]
  BY DEF LoadRequisition, LoadOrder, LoadPrior, IInv, TypeOK, Shape, Goto
<1>3. QED
  BY <1>1, <1>2, CompleteStays DEF Complete

\* The requisition has the lines that were asked for, and no order yet.
LEMMA CreateComplete ==
  ASSUME UIInv, Complete, NEW t \in Requests, CreateRequisition(t)
  PROVE  Complete'
<1>1. /\ requisition.status = "ABSENT" /\ pc[t] = "create" /\ Committed(t) /\ po' = po
      /\ requisition'.status = "PENDING_APPROVAL" /\ Lines' = work[t].lines
  BY DEF CreateRequisition, Lines
<1>2. \A u \in Requests : ~Converted(u) /\ ~Converted(u)'
  BY <1>1 DEF UIInv, OrdersConverted, Converted, Orders
<1>3. \A u \in Requests : pc'[u] = "create" => DOMAIN work'[u].lines # {}
  BY <1>1, AsksNoMore DEF UIInv, Committed
<1>4. QED
  BY <1>1, <1>2, <1>3 DEF Complete

\* A conversion places each line in full with its best supplier.
LEMMA ConvertComplete ==
  ASSUME UIInv, Complete, NEW t \in Requests, Convert(t)
  PROVE  Complete'
<1>1. PICK pick \in [DOMAIN Lines -> UNION {Offers[p] : p \in DOMAIN Lines}] :
        /\ \A p \in DOMAIN Lines : pick[p] \in Best(Offers[p])
        /\ po' = [o \in Orders |->
             IF o[1] = t /\ \E p \in DOMAIN Lines : pick[p].supplier = o[2]
             THEN OrderFrom(o[2], pick) ELSE po[o]]
  BY DEF Convert
<1>2. /\ pc[t] = "convert" /\ Committed(t) /\ requisition.status # "ABSENT"
      /\ requisition'.status = "CONVERTED" /\ Lines' = Lines
  BY DEF Convert, UIInv, IInv, WorkOK, Shape, Lines
<1>3. ASSUME NEW p \in DOMAIN Lines
      PROVE  /\ p \in Products /\ Lines[p] \in Nat /\ pick[p].moq \in Nat
             /\ pick[p].supplier \in Suppliers
  BY <1>1, CatalogueAssumption DEF Lines, UIInv, IInv, Shape, IsLines, Best
<1>4. ASSUME NEW p \in DOMAIN Lines
      PROVE  LineOrdered(t, p)' /\ Converted(t)'
  <2> DEFINE s == pick[p].supplier
  <2>1. << t, s >> \in Orders /\ s \in Suppliers
    BY <1>3 DEF Orders
  <2>2. po'[<< t, s >>] = OrderFrom(s, pick)
    BY <1>1, <2>1
  <2>3. /\ OrderFrom(s, pick).ordered[p] = RoundUpToMoq(Lines[p], pick[p].moq)
        /\ OrderFrom(s, pick).status = "DRAFT"
    BY <1>3 DEF OrderFrom
  <2>4. po'[<< t, s >>].ordered[p] >= Lines[p] /\ po'[<< t, s >>].status # "ABSENT"
    BY <1>3, <2>2, <2>3, RoundUpCovers
  <2>5. QED
    BY <1>2, <2>1, <2>4 DEF LineOrdered, Converted
<1>5. ASSUME NEW u \in Requests \ {t}, NEW s \in Suppliers PROVE po'[<< u, s >>] = po[<< u, s >>]
  BY <1>1 DEF Orders
<1>6. \A u \in Requests \ {t} : /\ Converted(u)' = Converted(u)
                                /\ \A p : LineOrdered(u, p)' = LineOrdered(u, p)
  BY <1>2, <1>5 DEF Converted, LineOrdered
<1>7. \A u \in Requests : pc'[u] = "create" => DOMAIN work'[u].lines # {}
  BY <1>2, AsksNoMore DEF UIInv, Committed
<1>8. DOMAIN Lines # {}
  BY <1>2 DEF Complete
<1>9. QED
  BY <1>2, <1>4, <1>6, <1>7, <1>8 DEF Complete

\* A decision and a receipt leave what is ordered, and an order stays an order.
LEMMA WriteComplete ==
  ASSUME UIInv, Complete, NEW t \in Requests, Decide(t) \/ Receive(t)
  PROVE  Complete'
<1>1. /\ requisition' = requisition /\ Lines' = Lines
      /\ Goto(t, "done") /\ work' = [work EXCEPT ![t] = NoWork]
  BY DEF Decide, Receive, Committed, Lines
<1>2. \A x \in Orders : /\ po'[x].ordered = po[x].ordered
                        /\ po'[x].status = "ABSENT" <=> po[x].status = "ABSENT"
  <2>1. CASE Decide(t)
    <3>1. PICK o \in Orders, op \in Decisions : There(o) /\ Decides(o, op)
      BY <2>1, DecideWrites DEF UIInv
    <3>2. QED
      BY <3>1 DEF Decides, Decisions, Outcome, There
  <2>2. CASE Receive(t)
    <3>1. PICK o \in Orders, now \in Quantities, status \in Statuses :
            /\ o = work[t].po /\ Receives(t, o, now, status)
            /\ status = IF NewStatus(t) = work[t].seen THEN po[o].status ELSE NewStatus(t)
      BY <2>2, ReceiveWrites DEF UIInv
    <3>2. There(o)
      BY <2>2, <3>1 DEF Receive, UIInv, IInv, WorkOK
    <3>3. QED
      BY <3>1, <3>2 DEF Receives, NewStatus, There
  <2>3. QED
    BY <2>1, <2>2
<1>3. \A u \in Requests, s \in Suppliers : << u, s >> \in Orders
  BY DEF Orders
<1>4. \A u \in Requests : /\ Converted(u)' = Converted(u)
                          /\ \A p : LineOrdered(u, p)' = LineOrdered(u, p)
  BY <1>1, <1>2, <1>3 DEF Converted, LineOrdered
<1>5. \A u \in Requests : pc'[u] = "create" => DOMAIN work'[u].lines # {}
  BY <1>1, AsksNoMore DEF UIInv
<1>6. QED
  BY <1>1, <1>4, <1>5 DEF Complete

\* Every step keeps the conversions complete.
LEMMA NextCInv == CInv /\ [Next]_vars => CInv'
<1> SUFFICES ASSUME CInv, [Next]_vars PROVE Complete'
  BY NextUIInv DEF CInv
<1>0. UIInv /\ IInv /\ Complete
  BY DEF CInv, UIInv
<1>1. CASE UNCHANGED vars
  BY <1>0, <1>1, CompleteStays DEF vars, docs, Complete
<1>2. ASSUME NEW t \in Requests, CannotConvert(t) \/ TooMuch(t) \/ Lose(t)
      PROVE  Complete'
  <2>1. Reject(t)
    BY <1>2 DEF CannotConvert, TooMuch, Lose
  <2>2. \A u \in Requests : pc'[u] = "create" => DOMAIN work'[u].lines # {}
    BY <1>0, <2>1, AsksNoMore DEF Reject
  <2>3. QED
    BY <1>0, <2>1, <2>2, CompleteStays DEF Reject, docs
<1>3. QED
  BY <1>0, <1>1, <1>2, DetectComplete, LoadComplete, CreateComplete, ConvertComplete, WriteComplete
  DEF Next, Step, Finished

\* An opening's requisition has lines, and its conversion covers them.
LEMMA InitCInv == Init => CInv
<1> SUFFICES ASSUME Init PROVE Complete
  BY InitUIInv DEF CInv
<1>1. PICK o \in Openings : requisition = o.requisition /\ po = o.po
  BY DEF Init
<1>2. PICK t \in Requests :
        /\ \A x \in Orders : po[x].status # "ABSENT" => x[1] = t
        /\ requisition.status = "CONVERTED" =>
             \A p \in DOMAIN Lines : \E s \in Suppliers :
               po[<< t, s >>].status # "ABSENT" /\ po[<< t, s >>].ordered[p] >= Lines[p]
        /\ \A x \in Orders : po[x].status # "ABSENT" => requisition.status = "CONVERTED"
  <2>1. PICK t \in Requests :
          /\ \A x \in Orders :
               o.po[x].status # "ABSENT" => x[1] = t /\ o.requisition.status = "CONVERTED"
          /\ o.requisition.status = "CONVERTED" =>
               \A p \in DOMAIN o.requisition.lines : \E s \in Suppliers :
                 /\ o.po[<< t, s >>].status # "ABSENT"
                 /\ o.po[<< t, s >>].ordered[p] >= o.requisition.lines[p]
    BY OpeningsAssumption, Zenon
  <2>2. QED
    BY <1>1, <2>1 DEF Lines
<1>3. requisition.status # "ABSENT" => DOMAIN Lines # {}
  BY <1>1, OpeningsAssumption DEF Lines
<1>4. \A u \in Requests : Converted(u) => u = t /\ requisition.status = "CONVERTED"
  <2>1. ASSUME NEW u \in Requests, NEW s \in Suppliers, po[<< u, s >>].status # "ABSENT"
        PROVE  u = t /\ requisition.status = "CONVERTED"
    <3>1. << u, s >> \in Orders /\ << u, s >>[1] = u
      BY DEF Orders
    <3>2. QED
      BY <1>2, <2>1, <3>1
  <2>2. QED
    BY <2>1 DEF Converted
<1>5. requisition.status = "CONVERTED" => Converted(t) /\ \A p \in DOMAIN Lines : LineOrdered(t, p)
  BY <1>2, <1>3 DEF Converted, LineOrdered
<1>6. \A u \in Requests : pc[u] # "create"
  BY DEF Init
<1>7. QED
  BY <1>3, <1>4, <1>5, <1>6 DEF Complete

\* What the orders of t together order of p is the total over the suppliers.
LEMMA OrderedByIsTotal ==
  ASSUME NEW t \in Requests, NEW p \in Products,
         \A s \in Suppliers : po[<< t, s >>].ordered[p] \in Int
  PROVE  OrderedBy(t, p) = Total([s \in Suppliers |-> po[<< t, s >>].ordered[p]], Suppliers)
<1> DEFINE f == [s \in Suppliers |-> po[<< t, s >>].ordered[p]]
           Body(g, T) == IF T = {} THEN 0
             ELSE po[<< t, CHOOSE x \in T : TRUE >>].ordered[p] + g[T \ {CHOOSE x \in T : TRUE}]
           Over(g, T) == IF T = {} THEN 0
             ELSE f[CHOOSE x \in T : TRUE] + g[T \ {CHOOSE x \in T : TRUE}]
           g == CHOOSE g : g = [T \in SUBSET Suppliers |-> Body(g, T)]
<1>1. IsFiniteSet(Suppliers) /\ \A s \in Suppliers : f[s] \in Int
  BY CatalogueAssumption
<1>2. \A k : IsSum(k, f, Suppliers) <=> k = [T \in SUBSET Suppliers |-> Body(k, T)]
  <2>1. ASSUME NEW k, NEW T \in SUBSET Suppliers PROVE Body(k, T) = Over(k, T)
    <3>1. T # {} => (CHOOSE x \in T : TRUE) \in Suppliers
      OBVIOUS
    <3>2. QED
      BY <3>1
  <2>2. \A k : IsSum(k, f, Suppliers) <=> k = [T \in SUBSET Suppliers |-> Over(k, T)]
    BY DEF IsSum
  <2> HIDE DEF Body, Over
  <2>3. ASSUME NEW k
        PROVE  [T \in SUBSET Suppliers |-> Over(k, T)] = [T \in SUBSET Suppliers |-> Body(k, T)]
    BY <2>1
  <2>4. QED
    BY <2>2, <2>3
<1>3. IsSum(g, f, Suppliers)
  <2>1. \E k : IsSum(k, f, Suppliers)
    <3> HIDE DEF f
    <3> QED BY <1>1, SumExists
  <2> HIDE DEF Body
  <2>2. QED
    BY <1>2, <2>1
<1>4. OrderedBy(t, p) = g[Suppliers]
  BY DEF OrderedBy, MapThenSumSet, MapThenFoldSet
<1>5. QED
  <2> HIDE DEF g, f
  <2> QED BY <1>1, <1>3, <1>4, SumIsTotal DEF f

\* Every conversion orders what its requisition asks for, whichever of the best
\* offers it takes, whatever the minimum order quantities are and however many
\* conversions overlap (create_purchase_orders_from_requisition).
THEOREM ConversionsCover == Spec => []ConvertedCovers
<1>1. CInv => ConvertedCovers
  <2> SUFFICES ASSUME CInv, NEW t \in Requests, Converted(t), NEW p \in DOMAIN Lines
               PROVE  OrderedBy(t, p) >= Lines[p]
    BY DEF CInv, Complete, ConvertedCovers
  <2>1. PICK s \in Suppliers : po[<< t, s >>].ordered[p] >= Lines[p]
    BY DEF CInv, Complete, LineOrdered
  <2>2. p \in Products /\ Lines[p] \in Nat
    BY DEF CInv, UIInv, IInv, Shape, IsLines, Lines
  <2>3. PICK f : f = [x \in Suppliers |-> po[<< t, x >>].ordered[p]]
    OBVIOUS
  <2>4. \A x \in Suppliers : f[x] = po[<< t, x >>].ordered[p] /\ f[x] \in Nat
    <3>1. \A x \in Suppliers : << t, x >> \in Orders
      BY DEF Orders
    <3>2. QED
      BY <2>2, <2>3, <3>1 DEF CInv, UIInv, IInv, TypeOK, Quantities
  <2>5. Total(f, Suppliers) \in Nat /\ f[s] <= Total(f, Suppliers)
    <3>1. IsFiniteSet(Suppliers) /\ \A x \in Suppliers : f[x] \in Nat
      BY <2>4, CatalogueAssumption
    <3>2. QED
      BY <3>1, TotalCovers
  <2>6. OrderedBy(t, p) = Total(f, Suppliers)
    <3>1. \A x \in Suppliers : po[<< t, x >>].ordered[p] \in Int
      BY <2>4
    <3>2. QED
      BY <2>2, <2>3, <3>1, OrderedByIsTotal
  <2>7. f[s] \in Nat /\ f[s] >= Lines[p]
    BY <2>1, <2>4
  <2>8. QED
    BY <2>2, <2>5, <2>6, <2>7
<1>2. QED
  BY <1>1, InitCInv, NextCInv, PTL DEF Spec
=============================================================================
