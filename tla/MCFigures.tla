------------------------------ MODULE MCFigures ------------------------------
(***************************************************************************)
(* The cases on which the arithmetic is checked: on both sides of each     *)
(* tolerance and of half a paisa, with ties, zeros and what is left over.  *)
(***************************************************************************)
EXTENDS Figures

\* An order of one or two products, a receipt of the first or of none of it, and a
\* bill of up to two rows, which may name a product twice or not at all.
MCProducts == {"bolts", "tiles"}
Orders == {<< [product |-> "bolts", price |-> 100] >>,
           << [product |-> "bolts", price |-> 100], [product |-> "tiles", price |-> 10] >>}
Receipt(n) == << [product |-> "bolts", accepted |-> n] >>
BillRow(p, q, price, total) == [product |-> p, quantity |-> q, price |-> price, total |-> total]
Bolts == BillRow("bolts", 50, 100, 5000)
Bills ==
  {<< BillRow("bolts", q, price, total) >> :
     q \in {0, 49, 50, 51, 52}, price \in {97, 99, 100, 101, 104}, total \in {4900, 5000, 5100, 5101, 5900}}
  \cup {<< Bolts, Bolts >>, << Bolts, BillRow("NONE", 1, 1, 1) >>, << Bolts, BillRow("tiles", 1, 10, 10) >>}
\* Both products received and billed alike.
Pair == [order |-> << [product |-> "bolts", price |-> 100], [product |-> "tiles", price |-> 100] >>,
         receipt |-> << [product |-> "bolts", accepted |-> 50], [product |-> "tiles", accepted |-> 50] >>,
         bill |-> << Bolts, BillRow("tiles", 50, 100, 5100) >>]
MCDocuments ==
  {[order |-> order, receipt |-> Receipt(n), bill |-> bill, marks |-> marks] :
     order \in Orders, n \in {0, 50}, bill \in Bills, marks \in Marks}
  \cup {[order |-> Pair.order, receipt |-> Pair.receipt, bill |-> Pair.bill, marks |-> marks] :
          marks \in Marks}
MCAmounts == {0, 40, 49, 51, 60, 90, 99, 101, 104, 120}

\* Two lines with discounts of their own and one of the header.
Off(percent, amount) == [percent |-> percent, amount |-> amount]
MCHsnCodes == {"7318", "6907"}
FirstLines == [gross: {10, 130, 250}, discount: {Off(0, 0), Off(10, 3), Off(0, 300)},
               gst: {0, 5, 18, 28}, cess: {0, 12}, hsn: {"7318"}]
Second(hsn) == [gross |-> 90, discount |-> Off(0, 7), gst |-> 5, cess |-> 0, hsn |-> hsn]
MCQuotes ==
  [lines: {<< l >> : l \in FirstLines} \cup {<< l, Second(hsn) >> : l \in FirstLines, hsn \in MCHsnCodes},
   header: {Off(0, 0), Off(0, 1), Off(0, 31), Off(10, 0), Off(0, 500)}, intra: BOOLEAN]
MCSplits == {<< 1 >>, << 1, 2 >>, << 2, 1 >>, << 1, 1, 2 >>, << 2, 1, 1, 1 >>}

OpenInvoice == {[total |-> total, paid |-> paid, due |-> due] :
                  total \in {1, 3}, paid \in {0, 1}, due \in {0, 30, 31}}
MCDues == [open: UNION {[S -> OpenInvoice] : S \in SUBSET {1, 2, 3}}, amount: {1, 3, 5}]

\* Two offers, and two beside one that costs nothing or takes no time.
SomeOffers == [price: {0, 100, 120}, lead: {0, 2, 3}, reliability: {50, 95, 100}, preferred: BOOLEAN]
Extremes == [price: {0, 90}, lead: {0, 1}, reliability: {50}, preferred: {FALSE}]
MCMarkets == {{o, p} : o, p \in SomeOffers}
               \cup {{o, p, x} : o, p \in [price: {100, 120}, lead: {2, 3}, reliability: {50, 95}, preferred: BOOLEAN],
                                 x \in Extremes}
=============================================================================
