------------------------------ MODULE StockRow ------------------------------
(***************************************************************************)
(* One row of inventory_items, the rows of stock_ledger that belong to it, *)
(* and the six guarded UPDATE statements that may change it                *)
(* (services/inventory.py, _build_statement).  The ledger is a table of    *)
(* its own: nothing but the code keeps it in step with the row.            *)
(* Quantities are whole multiples of the column's scale (Numeric(14, 3)).  *)
(***************************************************************************)
EXTENDS Integers, Sequences

\* StockMovementType as _build_statement distinguishes it: ISSUE is the
\* dispatch of a reservation (from_reservation=True), DIRECT_ISSUE the
\* counter sale (from_reservation=False).
Movements ==
  {"RESERVE", "RELEASE", "RECEIPT", "ISSUE", "DIRECT_ISSUE", "ADJUSTMENT"}

\* The movements whose ledger row records `reserved` rather than `on_hand`.
ReservedMovements == {"RESERVE", "RELEASE"}

\* InventoryLine takes a positive quantity, AdjustmentLine a delta that is
\* not zero.
LegalQty(kind, q) == IF kind = "ADJUSTMENT" THEN q # 0 ELSE q > 0

\* A ledger row: qty_delta, balance_after and whether the movement also took
\* the quantity out of `reserved`.
Entry == [delta: Int, balance: Int, unreserves: BOOLEAN]

\* The ledger rows of one inventory row, in the order of their insertion, split
\* as balance_after is: by whether the movement is one of ReservedMovements.
Book == [moved: Seq(Entry), held: Seq(Entry)]
NoEntries == [moved |-> <<>>, held |-> <<>>]

\* The entries of book b, and then those of c.
Followed(b, c) == [moved |-> b.moved \o c.moved, held |-> b.held \o c.held]

\* A version of the inventory row.
Version == [present: BOOLEAN, onHand: Int, reserved: Int]

\* A row without stock: not there yet, or as _ensure_row inserts it.
Empty(there) == [present |-> there, onHand |-> 0, reserved |-> 0]
Absent == Empty(FALSE)
Inserted == Empty(TRUE)

\* The ledger of a row that one receipt, and one reservation, have written.
OpeningBook(v) ==
  [moved |-> IF v.onHand = 0 THEN <<>>
             ELSE << [delta |-> v.onHand, balance |-> v.onHand, unreserves |-> FALSE] >>,
   held  |-> IF v.reserved = 0 THEN <<>>
             ELSE << [delta |-> v.reserved, balance |-> v.reserved, unreserves |-> FALSE] >>]

Available(v) == v.onHand - v.reserved

\* A fault: the WHERE clause of an adjustment looks at on_hand only.
GuardOnHand(v, kind, q) ==
  /\ kind = "RESERVE" => Available(v) >= q
  /\ kind \in {"RELEASE", "ISSUE"} => v.reserved >= q
  /\ kind = "DIRECT_ISSUE" => v.onHand >= q
  /\ kind = "ADJUSTMENT" => v.onHand + q >= 0

\* The WHERE clause of the UPDATE.
Guard(v, kind, q) ==
  /\ kind = "RESERVE" => Available(v) >= q
  /\ kind \in {"RELEASE", "ISSUE"} => v.reserved >= q
  /\ kind = "DIRECT_ISSUE" => v.onHand >= q
  /\ kind = "ADJUSTMENT" => /\ v.onHand + q >= 0
                            /\ v.onHand + q >= v.reserved

\* The qty_delta of the ledger row, and what the SET clause adds to each
\* column.
QtyDelta(kind, q) == IF kind \in {"RELEASE", "ISSUE", "DIRECT_ISSUE"} THEN -q ELSE q
OnHandDelta(kind, q) == IF kind \in ReservedMovements THEN 0 ELSE QtyDelta(kind, q)
ReservedDelta(kind, q) ==
  IF kind \in ReservedMovements \cup {"ISSUE"} THEN QtyDelta(kind, q) ELSE 0

LedgerRow(kind, q, balance) ==
  [delta |-> QtyDelta(kind, q), balance |-> balance, unreserves |-> kind = "ISSUE"]

\* The SET clause.
Moved(v, kind, q) == [present  |-> v.present,
                      onHand   |-> v.onHand + OnHandDelta(kind, q),
                      reserved |-> v.reserved + ReservedDelta(kind, q)]

\* Book b with the ledger row of a movement whose UPDATE returned version v.
Entered(b, v, kind, q) ==
  IF kind \in ReservedMovements
  THEN [b EXCEPT !.held = Append(@, LedgerRow(kind, q, v.reserved))]
  ELSE [b EXCEPT !.moved = Append(@, LedgerRow(kind, q, v.onHand))]

\* The SET clause, for modules whose rows are always there.
Shift(v, kind, q) == [onHand   |-> v.onHand + OnHandDelta(kind, q),
                      reserved |-> v.reserved + ReservedDelta(kind, q)]

\* The CHECK constraints of the table.
Check(v) == /\ v.onHand >= 0
            /\ v.reserved >= 0
            /\ v.reserved <= v.onHand
=============================================================================
