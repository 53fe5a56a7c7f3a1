---------------------------- MODULE MCPurchasing ----------------------------
(***************************************************************************)
(* Instances of Purchasing for TLC: bolts have two suppliers that tie, for *)
(* tiles one is better, and nobody supplies pipes.                         *)
(***************************************************************************)
EXTENDS Purchasing, TLC

CONSTANTS a, b, c, d, e, bolts, tiles, pipes, acme, zenith

MCProducts == {bolts, tiles, pipes}
TwoSuppliers == {acme, zenith}

Offer(s, price, lead, reliability, preferred, moq) ==
  [supplier |-> s, price |-> price, lead |-> lead, reliability |-> reliability,
   preferred |-> preferred, moq |-> moq]

\* Bolts: acme's price and zenith's preference weigh the same; tiles: zenith.
MCOffers ==
  (bolts :> {Offer(acme, 100, 1, 100, FALSE, 2), Offer(zenith, 100, 1, 100, TRUE, 1)})
  @@ (tiles :> {Offer(zenith, 300, 1, 80, FALSE, 2), Offer(acme, 600, 1, 80, FALSE, 1)})
  @@ (pipes :> {})

MCRows == [p \in MCProducts |-> [reorderLevel |-> IF p = bolts THEN 1 ELSE 0,
                                  reserved |-> 0, daily |-> IF p = tiles THEN 1 ELSE 0, safety |-> 0]]
MCWaiting == [p \in MCProducts |-> [quantity |-> 1, reserved |-> IF p = pipes THEN 1 ELSE 0]]

M(op, lines) == [op |-> op, lines |-> lines]
Line(q) == [largest |-> q, last |-> q, sum |-> q]
Twice == [largest |-> 1, last |-> 1, sum |-> 2]

MCMenu ==
  {M(op, << >>) : op \in {"CREATE", "CONVERT", "APPROVE", "REJECT", "SENT"}}
  \cup {M("RECEIVE", l) : l \in {bolts :> Line(1), bolts :> Twice, tiles :> Line(2),
                                 (bolts :> Line(1)) @@ (tiles :> Line(2)),
                                 (bolts :> Line(0)) @@ (tiles :> Line(1))}}

Requisition(status, p) == [status |-> status, lines |-> (bolts :> 1) @@ (p :> 1)]
NoRequisition == [status |-> "ABSENT", lines |-> << >>]
NoOrders == [o \in Orders |-> NoOrder]

\* What a conversion by e has placed with zenith: a bolt and two tiles.
Placed(status) ==
  [NoOrders EXCEPT ![<< e, zenith >>] =
     [status |-> status, ordered |-> (bolts :> 1) @@ (tiles :> 2) @@ Nothing, accepted |-> Nothing,
      announced |-> IF status = "DRAFT" THEN 0 ELSE 1]]

Opening(req, orders) == [requisition |-> req, po |-> orders, onHand |-> Nothing]
MCOpenings ==
  {Opening(NoRequisition, NoOrders)}
  \cup {Opening(Requisition("PENDING_APPROVAL", p), NoOrders) : p \in {tiles, pipes}}
  \cup {Opening(Requisition("CONVERTED", tiles), Placed(s)) : s \in {"DRAFT", "SENT"}}

Symmetry == Permutations(Requests \ {e})
=============================================================================
