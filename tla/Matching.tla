------------------------------ MODULE Matching ------------------------------
(***************************************************************************)
(* services/matching.py: the verdict of a three-way match, a function of   *)
(* the three documents.  A line is a product as they show it: `on` is the  *)
(* set of documents that have it ("po", "grn", "inv"), then the price of   *)
(* the order, the accepted quantity, and the quantity, price and total     *)
(* that are billed.  Amounts are whole rupees.                             *)
(***************************************************************************)
EXTENDS Integers, FiniteSetsExt, Functions

DefaultTolerances == [qty |-> 2, price |-> 1, amount |-> 100]
Verdicts == {"AUTO_APPROVE", "REVIEW", "BLOCK"}
Size(n) == IF n < 0 THEN -n ELSE n

\* _pct_variance(actual, expected) <= pct; no expectation met by something is
\* a variance of 100%, and by nothing is none.
WithinPct(actual, expected, pct) ==
  IF expected = 0 THEN actual = 0 \/ 100 <= pct
  ELSE 100 * Size(actual - expected) <= pct * expected

Accepted(line) == IF "grn" \in line.on THEN line.accepted ELSE 0
Billed(line) == IF "inv" \in line.on THEN line.quantity ELSE 0
Expected(line) == Accepted(line) * IF "po" \in line.on THEN line.agreed ELSE 0
Amount(line) == IF "inv" \in line.on THEN line.total ELSE 0

Missing(line) ==
  (IF "po" \in line.on THEN {} ELSE {"PO_LINE_MISSING"})
  \cup (IF "grn" \in line.on THEN {} ELSE {"GRN_LINE_MISSING"})
  \cup (IF "inv" \in line.on THEN {} ELSE {"INVOICE_LINE_MISSING"})

\* The price is compared if both the order and the invoice name one.
PriceWithin(line, pct) ==
  {"po", "inv"} \subseteq line.on => WithinPct(line.price, line.agreed, pct)

\* The tolerances of _evaluate_line.
Variances(line, tol) ==
  (IF WithinPct(Billed(line), Accepted(line), tol.qty) THEN {} ELSE {"QTY_VARIANCE"})
  \cup (IF PriceWithin(line, tol.price) THEN {} ELSE {"PRICE_VARIANCE"})
  \cup (IF PriceWithin(line, 3 * tol.price) THEN {} ELSE {"PRICE_SPIKE"})
  \cup (IF Size(Amount(line) - Expected(line)) <= tol.amount THEN {} ELSE {"AMOUNT_VARIANCE"})

\* _evaluate_line: the reason codes of a line; none is within tolerance.
Codes(line, tol) == Missing(line) \cup Variances(line, tol)

Structural == {"PO_LINE_MISSING", "GRN_LINE_MISSING", "INVOICE_LINE_MISSING",
               "UNMATCHED_INVOICE_LINE"}

\* What a code, or several structural ones, add to the risk.
Points(codes) ==
  (IF codes \cap Structural # {} THEN 20 ELSE 0)
  + MapThenSumSet(LAMBDA c : CASE c \in {"QTY_VARIANCE", "PRICE_VARIANCE", "PRICE_SPIKE"} -> 15
                               [] c \in {"AMOUNT_VARIANCE", "NEW_SUPPLIER"} -> 10
                               [] c = "DUPLICATE_INVOICE_SUSPECTED" -> 25
                               [] c \in {"ROUND_NUMBER_AMOUNT", "WEEKEND_SUBMISSION"} -> 5
                               [] OTHER -> 0, codes)

Risk(codes) == Min({Points(codes), 100})

\* A fault: a weekend is marked instead of the rest.
FlagsOrWeekend(inv) ==
  (IF inv.unmatched THEN {"UNMATCHED_INVOICE_LINE"} ELSE {})
  \cup (IF inv.twin THEN {"DUPLICATE_INVOICE_SUSPECTED"} ELSE {})
  \cup IF inv.weekend THEN {"WEEKEND_SUBMISSION"}
       ELSE (IF inv.first THEN {"NEW_SUPPLIER"} ELSE {})
            \cup IF inv.sum > 0 /\ inv.sum % 1000 = 0 THEN {"ROUND_NUMBER_AMOUNT"} ELSE {}

\* What the invoice as a whole adds: lines without a product, a twin, the
\* supplier's first order, a multiple of a thousand rupees, a weekend.
Flags(inv) ==
  (IF inv.unmatched THEN {"UNMATCHED_INVOICE_LINE"} ELSE {})
  \cup (IF inv.twin THEN {"DUPLICATE_INVOICE_SUSPECTED"} ELSE {})
  \cup (IF inv.first THEN {"NEW_SUPPLIER"} ELSE {})
  \cup (IF inv.sum > 0 /\ inv.sum % 1000 = 0 THEN {"ROUND_NUMBER_AMOUNT"} ELSE {})
  \cup (IF inv.weekend THEN {"WEEKEND_SUBMISSION"} ELSE {})

AllCodes(lines, inv, tol) == (UNION {Codes(line, tol) : line \in lines}) \cup Flags(inv)

\* A fault: only the score decides.
VerdictByScore(lines, inv, tol) ==
  LET risk == Risk(AllCodes(lines, inv, tol)) IN
  IF risk >= 60 THEN "BLOCK" ELSE IF risk >= 20 THEN "REVIEW" ELSE "AUTO_APPROVE"

\* evaluate_three_way_match: the first of the two that holds decides.
Verdict(lines, inv, tol) ==
  LET codes    == AllCodes(lines, inv, tol)
      blocked  == \/ codes \cap (Structural \cup {"DUPLICATE_INVOICE_SUSPECTED"}) # {}
                  \/ Risk(codes) >= 60
      doubtful == Risk(codes) >= 20 \/ \E line \in lines : Codes(line, tol) # {}
  IN IF blocked THEN "BLOCK" ELSE IF doubtful THEN "REVIEW" ELSE "AUTO_APPROVE"

\* The lines of match_three_way: of several rows of a product in a document, the
\* dictionary keeps the last.  Each document gives its rows in order.
Row(rows, p) == rows[Max({n \in DOMAIN rows : rows[n].product = p})]
Has(rows, p) == \E n \in DOMAIN rows : rows[n].product = p
ProductsOf(rows) == {rows[n].product : n \in DOMAIN rows}

MatchLine(order, receipt, bill, p) ==
  [on |-> (IF Has(order, p) THEN {"po"} ELSE {}) \cup (IF Has(receipt, p) THEN {"grn"} ELSE {})
          \cup (IF Has(bill, p) THEN {"inv"} ELSE {}),
   agreed   |-> IF Has(order, p) THEN Row(order, p).price ELSE 0,
   accepted |-> IF Has(receipt, p) THEN Row(receipt, p).accepted ELSE 0,
   quantity |-> IF Has(bill, p) THEN Row(bill, p).quantity ELSE 0,
   price    |-> IF Has(bill, p) THEN Row(bill, p).price ELSE 0,
   total    |-> IF Has(bill, p) THEN Row(bill, p).total ELSE 0]

MatchLines(order, receipt, bill) ==
  {MatchLine(order, receipt, bill, p) : p \in ProductsOf(order) \cup ProductsOf(receipt)
                                                \cup (ProductsOf(bill) \ {"NONE"})}

\* _INVOICE_STATUS_BY_VERDICT; a review leaves the status alone.
StatusFor(verdict, status) ==
  CASE verdict = "AUTO_APPROVE" -> "MATCHED"
    [] verdict = "BLOCK"        -> "BLOCKED"
    [] verdict = "REVIEW"       -> status
=============================================================================
