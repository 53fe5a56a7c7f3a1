---------------------------- MODULE MCInventory -----------------------------
(***************************************************************************)
(* Instances of Inventory for TLC.                                         *)
(***************************************************************************)
EXTENDS Inventory

CONSTANTS a, b, nobody

MCRows == 1..2

L(r, q) == [row |-> r, qty |-> q]
C(kind, lines) == [kind |-> kind, lines |-> lines]

There(h, r) == [present |-> TRUE, onHand |-> h, reserved |-> r]

\* Row 1 with some stock of which a part is reserved, row 2 full, reserved
\* or never stocked.
MCOpenings ==
  { [r \in MCRows |-> IF r = 1 THEN There(2, 1) ELSE v] :
      v \in {Absent, There(2, 0), There(1, 1)} }

\* Every movement; two rows in either order; two lines of one row; an
\* adjustment that only fits in the order it is given in.
MCCalls ==
  { C("RESERVE",      << L(2, 1), L(1, 1) >>),
    C("RESERVE",      << L(1, 1), L(2, 1), L(1, 1) >>),
    C("RELEASE",      << L(1, 1), L(2, 1) >>),
    C("RECEIPT",      << L(2, 2), L(1, 1) >>),
    C("RECEIPT",      << L(2, 1) >>),
    C("ISSUE",        << L(2, 1), L(1, 1) >>),
    C("DIRECT_ISSUE", << L(1, 2), L(2, 1) >>),
    C("DIRECT_ISSUE", << L(2, 1), L(1, 1) >>),
    C("ADJUSTMENT",   << L(2, 1), L(1, -1), L(2, -2) >>) }
=============================================================================
