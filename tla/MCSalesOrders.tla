--------------------------- MODULE MCSalesOrders ----------------------------
(***************************************************************************)
(* Instances of SalesOrders for TLC.                                       *)
(***************************************************************************)
EXTENDS SalesOrders, TLC

CONSTANTS a, b, c, d, e, f, main, nobody

MCItems == {1, 2}
MCQuantity == (1 :> 2) @@ (2 :> 1)
OneWarehouse == {main}

L(i, q) == [item |-> i, qty |-> q]
M(op, wh, lines) == [op |-> op, wh |-> wh, lines |-> lines]
Ask(op) == M(op, main, <<>>)

Stock(h, r) == [onHand |-> h, reserved |-> r]
Nothing == [i \in MCItems |-> 0]

\* No order yet, or a quote: row 1 holds a unit of another order's and one or
\* two that are free, row 2 holds `free` units.
Before(status, free1, free2) ==
  [order |-> [status |-> status, reserved |-> Nothing],
   stock |-> [r \in Rows |-> IF r[1] = 1 THEN Stock(1 + free1, 1) ELSE Stock(free2, 0)],
   held  |-> [r \in Rows |-> 0], alerted |-> FALSE]

\* The order holds all it asked for, in the main warehouse; other orders hold
\* a unit of each item.
Reserved ==
  LET mine(r) == IF r[2] = main THEN MCQuantity[r[1]] ELSE 0 IN
  [order |-> [status |-> "RESERVED", reserved |-> MCQuantity],
   stock |-> [r \in Rows |-> Stock(mine(r) + 1, mine(r) + 1)],
   held  |-> [r \in Rows |-> mine(r)], alerted |-> FALSE]

\* The order holds one unit of item 1 and waits for the rest.
Partial ==
  [order |-> [status |-> "PARTIALLY_RESERVED", reserved |-> [i \in MCItems |-> 2 - i]],
   stock |-> [r \in Rows |-> IF r[1] = 1 THEN Stock(3, 2) ELSE Stock(1, 0)],
   held  |-> [r \in Rows |-> 2 - r[1]], alerted |-> TRUE]

SerialOpenings == {Before("ABSENT", 2, 0), Before("ABSENT", 1, 1), Before("ABSENT", 2, 1)}
SerialMenu ==
  {Ask(op) : op \in {"CREATE", "QUOTE", "CONFIRM", "RETRY", "INVOICE"}}
  \cup {M("DELIVER", main, << L(1, 1) >>), M("DELIVER", main, << L(2, 1), L(1, 1) >>),
        M("SELL", main, << L(1, 1) >>)}

\* Two at a time: the order is being created, confirmed, retried, shipped and
\* billed while a counter sale takes from the same rows.
BusyOpenings == {Before("DRAFT", 2, 1), Partial, Reserved}
BusyMenu ==
  {Ask(op) : op \in {"CONFIRM", "RETRY", "INVOICE"}}
  \cup {M("DELIVER", main, << L(2, 1), L(1, 1) >>), M("DELIVER", main, << L(1, 1), L(1, 1) >>),
        M("SELL", main, << L(2, 1), L(1, 1) >>)}

Symmetry == Permutations(Requests)
=============================================================================
