------------------------------ MODULE Pricing ------------------------------
(***************************************************************************)
(* services/pricing.py and the slices of an order that services/sales.py   *)
(* bills delivery by delivery, in paise.  A line has its gross amount, its *)
(* discount, and its GST and cess rates; the header has a discount.  A     *)
(* discount has a percentage and an amount; percentages that come to whole *)
(* paise are assumed, shares and taxes are fractions.                      *)
(***************************************************************************)
EXTENDS Integers, FiniteSetsExt, SequencesExt

\* quantize(..., ROUND_HALF_UP) of num/den, and the default, ROUND_HALF_EVEN.
HalfUp(num, den) == (2 * num + den) \div (2 * den)
HalfEven(num, den) ==
  IF (2 * num + den) % (2 * den) = 0 /\ HalfUp(num, den) % 2 = 1 THEN HalfUp(num, den) - 1
  ELSE HalfUp(num, den)

Discount(of, d) == Min({of, (of * d.percent) \div 100 + d.amount})
Net(line) == line.gross - Discount(line.gross, line.discount)
TotalOf(f) == MapThenSumSet(LAMBDA x : f[x], DOMAIN f)
SumOver(lines, Of(_)) == TotalOf([n \in DOMAIN lines |-> Of(lines[n])])

NetSubtotal(lines) == SumOver(lines, Net)
HeaderDiscount(lines, header) == Discount(NetSubtotal(lines), header)

\* A fault: the header's discount is shared by gross amounts.
HeaderShareOfGross(line, lines, header) ==
  [num |-> HeaderDiscount(lines, header) * line.gross, den |-> Max({1, NetSubtotal(lines)})]

\* Each line bears the header's discount in proportion to what it comes to after
\* its own; so does the last, which absorbs the rest.  A fraction.
HeaderShare(line, lines, header) ==
  [num |-> HeaderDiscount(lines, header) * Net(line), den |-> Max({1, NetSubtotal(lines)})]

\* CGST, and SGST or UTGST: half the rate each, rounded on its own.
Central(taxable, rate) == HalfUp(taxable.num * rate, 200 * taxable.den)

\* price_order: a line, within a state or between two.
PricedLine(line, lines, header, intra) ==
  LET share   == HeaderShare(line, lines, header)
      taxable == [num |-> Max({0, Net(line) * share.den - share.num}), den |-> share.den]
      gst     == IF intra THEN 2 * Central(taxable, line.gst)
                 ELSE HalfUp(taxable.num * line.gst, 100 * taxable.den)
      cess    == HalfUp(taxable.num * line.cess, 100 * taxable.den)
  IN [discount |-> Discount(line.gross, line.discount) + HalfUp(share.num, share.den),
      taxable  |-> HalfUp(taxable.num, taxable.den), gst |-> gst, tax |-> gst + cess]

Priced(lines, header, intra) == [n \in DOMAIN lines |-> PricedLine(lines[n], lines, header, intra)]

Subtotal(priced) == SumOver(priced, LAMBDA l : l.taxable)
TaxTotal(priced) == SumOver(priced, LAMBDA l : l.tax)

\* The grand total is rounded to the rupee.
GrandTotal(priced) == 100 * HalfUp(Subtotal(priced) + TaxTotal(priced), 100)

\* A fault: the part of what is still to be billed.
SliceOfRest(amount, parts, n) ==
  HalfEven(amount * parts[n], MapThenSumSet(LAMBDA k : parts[k], n..Len(parts)))

\* create_customer_invoice_from_delivery: an amount of an order's line, by the
\* part of its quantity that the n-th delivery brings.
Slice(amount, parts, n) == HalfEven(amount * parts[n], TotalOf(parts))

\* The invoice of a delivery that brings the n-th part of every line.
InvoiceTotal(priced, parts, n) ==
  SumOver(priced, LAMBDA l : Slice(l.taxable, parts, n) + Slice(l.tax, parts, n))

\* _build_hsn_summary: what a group of lines with one code and rate comes to.
HsnGroups(lines) == {<< lines[n].hsn, lines[n].gst >> : n \in DOMAIN lines}
HsnTaxable(lines, priced, group) ==
  TotalOf([n \in {n \in DOMAIN lines : << lines[n].hsn, lines[n].gst >> = group} |->
             priced[n].taxable])
=============================================================================
