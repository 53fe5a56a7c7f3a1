------------------------------ MODULE Sourcing ------------------------------
(***************************************************************************)
(* services/procurement.py, the arithmetic of buying: what a shortage asks *)
(* for, which supplier is best for a product, and how much of it is        *)
(* ordered.  An offer is a row of product_suppliers with its supplier:     *)
(* price (paise), lead (days), reliability (0..100), preferred, moq.       *)
(***************************************************************************)
EXTENDS Integers, FiniteSetsExt

\* reorder_quantity: the shortage, the sales while the goods are on their way,
\* and the safety stock.
ReorderQuantity(shortage, daily, lead, safety) == shortage + daily * lead + safety

Cheapest(offers) == Min({o.price : o \in offers})
Fastest(offers) == Min({o.lead : o \in offers})

\* score_suppliers: 40% price, 25% lead time, 35% reliability, 5 points for a
\* preferred supplier, at most 100.  In hundredths of a point times Scale(o),
\* so that the ratios stay whole numbers.
Positive(n) == Max({n, 1})
Scale(o) == Positive(o.price) * Positive(o.lead)
PriceScore(o, offers) ==
  (IF o.price > 0 THEN 100 * Cheapest(offers) ELSE 100) * Positive(o.lead)
LeadScore(o, offers) ==
  (IF o.lead > 0 THEN 100 * Fastest(offers) ELSE 100) * Positive(o.price)
\* A fault: the lead time counts the wrong way round.
ScoreSlowFirst(o, offers) ==
  40 * PriceScore(o, offers) + 25 * 100 * o.lead * Scale(o)
    + (35 * o.reliability + IF o.preferred THEN 500 ELSE 0) * Scale(o)

Score(o, offers) ==
  Min({40 * PriceScore(o, offers) + 25 * LeadScore(o, offers)
         + (35 * o.reliability + IF o.preferred THEN 500 ELSE 0) * Scale(o),
       10000 * Scale(o)})

\* o ranks no lower than p.
AtLeastAsGood(o, p, offers) == Score(o, offers) * Scale(p) >= Score(p, offers) * Scale(o)

\* The offers that may be first in the list: the sort is stable, and the rows
\* come in no order, so any of those that tie.
Best(offers) == {o \in offers : \A p \in offers : AtLeastAsGood(o, p, offers)}

\* The quantity that is ordered: the least multiple of the minimum order
\* quantity that covers what is asked for.
RoundUpToMoq(q, moq) == IF moq > 0 THEN ((q + moq - 1) \div moq) * moq ELSE q

\* _shortage_line: the recommended quantity for a shortage of q at a stock row
\* with `daily` sales and `safety` stock; no supplier, no lead time.
Recommended(q, daily, safety, offers) ==
  {ReorderQuantity(q, daily, lead, safety) :
     lead \in IF offers = {} THEN {0} ELSE {o.lead : o \in Best(offers)}}

\* detect_shortages: a product below its reorder level lacks the difference.
BelowReorder(row) == Max({0, row.reorderLevel - (row.onHand - row.reserved)})

\* detect_shortage_from_sales_order: what an order's item has not reserved.
Unreserved(item) == Max({0, item.quantity - item.reserved})
=============================================================================
