------------------------------- MODULE Figures ------------------------------
(***************************************************************************)
(* What a reader would ask of the answers of Matching, Pricing, Allocation *)
(* and Sourcing, for any documents, quotes, open invoices and offers: a    *)
(* state holds one case, and each invariant is about the cases of a topic. *)
(***************************************************************************)
EXTENDS Matching, Pricing, Allocation, Sourcing

CONSTANTS
  Products,   \* what the documents name
  Documents,  \* an order, a receipt and a bill, and the marks against the bill
  Amounts,    \* other quantities and prices that a line may be billed for
  HsnCodes,   \* the codes that lines are grouped by
  Quotes,     \* lines to price, the header's discount, within a state or not
  Splits,     \* the parts in which an order may be delivered
  Dues,       \* open invoices, and the payment to be divided over them
  Markets     \* sets of offers for one product

Marks == [twin: BOOLEAN, first: BOOLEAN, weekend: BOOLEAN]
Rebates == [percent: 0..100, amount: Nat]
QuoteLines == [gross: Nat, discount: Rebates, gst: Nat, cess: Nat, hsn: HsnCodes]
Offers == [price: Nat, lead: Nat, reliability: Nat, preferred: BOOLEAN]

\* A bill may have rows without a product, and no amount is negative.
ASSUME DocumentsAssumption ==
  /\ Amounts \subseteq Nat /\ "NONE" \notin Products
  /\ \A d \in Documents :
       /\ d.order \in Seq([product: Products, price: Nat])
       /\ d.receipt \in Seq([product: Products, accepted: Nat])
       /\ d.bill \in Seq([product: Products \cup {"NONE"}, quantity: Nat, price: Nat, total: Nat])
       /\ d.marks \in Marks
ASSUME QuotesAssumption ==
  /\ \A q \in Quotes : q.lines \in Seq(QuoteLines) /\ q.header \in Rebates /\ q.intra \in BOOLEAN
  /\ \A parts \in Splits : parts \in Seq(Nat \ {0}) /\ parts # << >>
\* CHECK (amount_paid <= total).
ASSUME DuesAssumption ==
  \A d \in Dues :
    /\ d.amount \in Nat /\ IsFiniteSet(DOMAIN d.open)
    /\ \A i \in DOMAIN d.open : /\ d.open[i].total \in Nat /\ d.open[i].due \in Int
                                /\ d.open[i].paid \in 0..d.open[i].total
ASSUME MarketsAssumption ==
  \A offers \in Markets :
    /\ IsFiniteSet(offers)
    /\ \A o \in offers : /\ o.price \in Nat /\ o.lead \in Nat /\ o.reliability \in Nat
                         /\ o.preferred \in BOOLEAN

VARIABLES topic, given
asked == << topic, given >>

FiguresInit == topic = "none" /\ given = << >>
-----------------------------------------------------------------------------
\* match_three_way: the lines of the three documents, and what marks the bill.
CaseOf(d) ==
  [order |-> d.order, receipt |-> d.receipt, bill |-> d.bill,
   lines |-> MatchLines(d.order, d.receipt, d.bill),
   flags |-> [unmatched |-> Has(d.bill, "NONE"), twin |-> d.marks.twin, first |-> d.marks.first,
              weekend |-> d.marks.weekend,
              sum |-> TotalOf([n \in DOMAIN d.bill |-> d.bill[n].total])]]

AskMatch == topic = "none" /\ topic' = "match" /\ given' \in {CaseOf(d) : d \in Documents}
AskPrice == topic = "none" /\ topic' = "price" /\ given' \in Quotes
AskAllocate == topic = "none" /\ topic' = "allocate" /\ given' \in Dues
AskChoose == topic = "none" /\ topic' = "choose" /\ given' \in Markets
Answered == topic # "none" /\ topic' = "none" /\ given' = << >>

FiguresNext == AskMatch \/ AskPrice \/ AskAllocate \/ AskChoose \/ Answered

FiguresSpec == FiguresInit /\ [][FiguresNext]_asked
-----------------------------------------------------------------------------
Judged(case) == Verdict(case.lines, case.flags, DefaultTolerances)
NamesTwice(bill) == \E m, n \in DOMAIN bill : m # n /\ bill[m].product = bill[n].product
\* What a row of the bill may come to: what was accepted at the agreed price.
DueFor(case, p) == Row(case.receipt, p).accepted * Row(case.order, p).price

\* services/matching.py: an invoice is approved automatically only if, line by line,
\* all three documents have it, the quantity is within 2% of what was accepted, and
\* the price within 1% of the order's; and the whole bill, unless it names a product
\* twice, exceeds what is due for its rows by at most 100 rupees each.
ApprovedMeansAgreed ==
  topic = "match" /\ Judged(given) = "AUTO_APPROVE" =>
    /\ \A line \in given.lines :
         /\ line.on = {"po", "grn", "inv"}
         /\ 50 * line.quantity \in 49 * line.accepted .. 51 * line.accepted
         /\ 100 * line.price \in 99 * line.agreed .. 101 * line.agreed
    /\ NamesTwice(given.bill) \/
         given.flags.sum <= TotalOf([n \in DOMAIN given.bill |->
                                       DueFor(given, given.bill[n].product) + 100])

Rank == [AUTO_APPROVE |-> 0, REVIEW |-> 1, BLOCK |-> 2]
RankOf(lines, flags) == Rank[Verdict(lines, flags, DefaultTolerances)]
Further(n, actual, expected) == Size(n - expected) >= Size(actual - expected)

\* services/matching.py: billing further away from what was agreed, in any line,
\* never gets a better verdict, and neither does a mark against the invoice.
FurtherIsNoBetter ==
  topic = "match" =>
    /\ \A line \in given.lines : \A n \in Amounts :
         LET rest == given.lines \ {line} IN
         /\ Further(n, line.quantity, Accepted(line))
              => RankOf(rest \cup {[line EXCEPT !.quantity = n]}, given.flags) >= Rank[Judged(given)]
         /\ Further(n, line.price, line.agreed)
              => RankOf(rest \cup {[line EXCEPT !.price = n]}, given.flags) >= Rank[Judged(given)]
    /\ \A mark \in {"twin", "first", "weekend", "unmatched"} :
         RankOf(given.lines, [given.flags EXCEPT ![mark] = TRUE]) >= Rank[Judged(given)]
-----------------------------------------------------------------------------
PricedOf(quote) == Priced(quote.lines, quote.header, quote.intra)

\* services/pricing.py: the columns of an invoice add up.  Gross less discounts is
\* the subtotal, within a paisa a line; the subtotal is what the discounts leave,
\* within half a paisa a line; and the HSN groups make up the subtotal exactly.
ColumnsAddUp ==
  topic = "price" =>
    LET lines == given.lines  priced == PricedOf(given)
        left == NetSubtotal(lines) - HeaderDiscount(lines, given.header)
    IN /\ Size(SumOver(lines, LAMBDA l : l.gross) - SumOver(priced, LAMBDA l : l.discount)
                 - Subtotal(priced)) <= Len(lines)
       /\ 2 * Size(Subtotal(priced) - left) <= Len(lines)
       /\ TotalOf([g \in HsnGroups(lines) |-> HsnTaxable(lines, priced, g)]) = Subtotal(priced)

\* services/sales.py: billed delivery by delivery, an order costs what was quoted,
\* to half a rupee, and half a paisa for each amount of each delivery.
BilledAsQuoted ==
  topic = "price" =>
    \A parts \in Splits :
      LET priced == PricedOf(given)
          billed == TotalOf([n \in DOMAIN parts |-> InvoiceTotal(priced, parts, n)])
      IN Size(billed - GrandTotal(priced)) <= 50 + Len(given.lines) * Len(parts)
-----------------------------------------------------------------------------
\* What a plan gives an invoice.
Gets(plan, i) == IF i \in DOMAIN plan THEN plan[i] ELSE 0

\* services/payments.py: a payment that names no invoice clears the oldest first.
\* Nothing goes to an invoice while one that was due before owes anything, and none
\* of it is left over while anything is owed.
OldestFirst ==
  topic = "allocate" =>
    \A plan \in AutoPlans(given.open, given.amount) :
      LET owes(i) == Remaining(given.open[i]) - Gets(plan, i)
      IN /\ \A i, j \in DOMAIN given.open :
              given.open[i].due < given.open[j].due /\ Gets(plan, j) > 0 => owes(i) = 0
         /\ Unapplied(plan, given.amount) >= 0 /\ \A i \in DOMAIN given.open : owes(i) >= 0
         /\ Unapplied(plan, given.amount) > 0 => \A i \in DOMAIN given.open : owes(i) = 0
-----------------------------------------------------------------------------
AtCap(o, offers) == Score(o, offers) = 10000 * Scale(o)
NoWorse(o, p) ==
  /\ o.price <= p.price /\ o.lead <= p.lead /\ o.reliability >= p.reliability
  /\ p.preferred => o.preferred
\* Worse in what earns points: a price earns none, unless it is zero itself, once
\* there is an offer for nothing, and neither does a lead time.
WorseInSome(p, o, offers) ==
  \/ o.reliability > p.reliability \/ (o.preferred /\ ~p.preferred)
  \/ o.price < p.price /\ (Cheapest(offers) > 0 \/ o.price = 0)
  \/ o.lead < p.lead /\ (Fastest(offers) > 0 \/ o.lead = 0)

\* services/procurement.py: a supplier that is no better in anything is never ranked
\* before the other; if it is worse in something, it is the best only where it
\* scores 100.
WorseIsNotBest ==
  topic = "choose" =>
    \A o, p \in given : NoWorse(o, p) =>
      /\ AtLeastAsGood(o, p, given)
      /\ WorseInSome(p, o, given) => p \notin Best(given) \/ AtCap(p, given)
-----------------------------------------------------------------------------
\* services/matching.py: the amount tolerance catches "compounding rounding/calc
\* errors qty and price tolerances alone might each pass".  A bill of what was
\* accepted at the agreed price, with 18% GST in its total, has no such error.
GstIsNoVariance ==
  topic = "match" =>
    \A line \in given.lines :
      /\ line.on = {"po", "grn", "inv"}
      /\ line.quantity = line.accepted /\ line.price = line.agreed
      /\ 100 * line.total = 118 * line.quantity * line.price
      => "AMOUNT_VARIANCE" \notin Codes(line, DefaultTolerances)
=============================================================================
