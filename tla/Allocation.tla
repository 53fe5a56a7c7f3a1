----------------------------- MODULE Allocation -----------------------------
(***************************************************************************)
(* services/payments.py, the arithmetic: how a payment is divided over the *)
(* open invoices of a customer or supplier.  `open` maps an invoice to its *)
(* total, what is paid of it, and its due date, a day's number; a plan     *)
(* maps invoices to the amounts they get.                                  *)
(***************************************************************************)
EXTENDS Integers, FiniteSetsExt, SequencesExt

\* _remaining.
Remaining(inv) == inv.total - inv.paid
Owed(inv) == Max({0, Remaining(inv)})

\* A fault: the date is compared the wrong way round.
NewestFirst(open) ==
  {s \in SetToSeqs(DOMAIN open) : IsSorted(s, LAMBDA i, j : open[i].due >= open[j].due)}

\* The orders in which sorted(..., key=due_date) may put them: rows come in no
\* order, and the sort is stable.
ByDueDate(open) ==
  {s \in SetToSeqs(DOMAIN open) : IsSorted(s, LAMBDA i, j : open[i].due <= open[j].due)}

\* What is left of the amount once the first n invoices of s are filled.
LeftAfter(open, s, n, amount) ==
  Max({0, amount - MapThenSumSet(LAMBDA k : Owed(open[s[k]]), 1..n)})

\* allocate_payment without a request: greedily, oldest due first.
AutoPlans(open, amount) ==
  {LET share(n) == LeftAfter(open, s, n - 1, amount) - LeftAfter(open, s, n, amount)
       place(i) == CHOOSE n \in DOMAIN s : s[n] = i
   IN [i \in {s[n] : n \in {n \in DOMAIN s : share(n) \in Nat \ {0}}} |-> share(place(i))]
     : s \in ByDueDate(open)}

Planned(plan) == MapThenSumSet(LAMBDA i : plan[i], DOMAIN plan)

\* A fault: each line may use the whole payment.
MayRequestEach(open, amount, plan) ==
  /\ DOMAIN plan # {} /\ DOMAIN plan \subseteq DOMAIN open
  /\ \A i \in DOMAIN plan : plan[i] \in 1..Min({amount, Remaining(open[i])})

\* allocate_payment with a request: it is followed to the letter or refused.
MayRequest(open, amount, plan) ==
  /\ DOMAIN plan # {} /\ DOMAIN plan \subseteq DOMAIN open
  /\ \A i \in DOMAIN plan : plan[i] \in 1..Remaining(open[i])
  /\ Planned(plan) <= amount

Unapplied(plan, amount) == amount - Planned(plan)

=============================================================================
