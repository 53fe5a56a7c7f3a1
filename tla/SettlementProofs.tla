-------------------------- MODULE SettlementProofs --------------------------
(***************************************************************************)
(* For any invoices, amounts, credit limit and number of requests: no      *)
(* invoice counts money that no payment allocates to it, of several bills  *)
(* with one total at most one is approved automatically; the books         *)
(* disagree only after a payment has committed on what is stale; a blocked *)
(* bill is paid, or a sale exceeds the credit limit while they agree, only *)
(* by a request that does so itself.                                       *)
(*                                                                         *)
(* Then Figures, for documents, quotes, open invoices and offers of any    *)
(* number and size: what an automatic approval has checked, what can only  *)
(* worsen a verdict, whom a payment pays, which offer is the best, and how *)
(* far the rounding of an invoice's lines can move its totals.             *)
(***************************************************************************)
EXTENDS Settlement, Figures, FoldFacts, FiniteSetTheorems, TLAPS

Shape ==
  /\ inv \in [Invoices -> [status: Statuses.customer \cup Statuses.supplier,
                           paid: Nat, allocated: Nat]]
  /\ DOMAIN work = Requests

IsPlan(plan) == DOMAIN plan \subseteq Invoices /\ \A i \in DOMAIN plan : plan[i] \in Nat \ {0}

\* What the requests have read stays true enough.
Loaded(i, status) == Exists(i) /\ status \in Statuses[Terms[i].side] \ {"ABSENT"}

\* A sale or an order is about to make an invoice that nobody else makes.
SaleIsNew(t) ==
  pc[t] \in {"sell", "order"} =>
    /\ work[t] \in Of("customer") \ ordered /\ ~Exists(work[t])
    /\ \A u \in Requests \ {t} : pc[u] \in {"sell", "order"} => work[u] # work[t]

\* A match has loaded a bill.
BillIsThere(t) ==
  /\ pc[t] = "compare" => /\ work[t].ask.inv \in Of("supplier")
                          /\ Loaded(work[t].ask.inv, work[t].seen)
  /\ pc[t] = "judge" => /\ work[t].inv \in Of("supplier")
                        /\ Loaded(work[t].inv, work[t].seen)
                        /\ work[t].verdict \in Verdicts

\* A payment has taken invoices of its plan, and since then each of them has been
\* allocated no less than it counted as paid.
TakenIsAllocated(t) ==
  pc[t] = "take" =>
    /\ IsPlan(work[t].plan) /\ \A i \in DOMAIN work[t].plan : Exists(i)
    /\ DOMAIN work[t].seen \subseteq DOMAIN work[t].plan
    /\ \A i \in DOMAIN work[t].seen :
         /\ Loaded(i, work[t].seen[i].status)
         /\ work[t].seen[i].paid \in Nat /\ work[t].seen[i].paid <= inv[i].allocated

ReadsHold == \A t \in Requests : SaleIsNew(t) /\ BillIsThere(t) /\ TakenIsAllocated(t)

\* Nothing has been paid of what is not there.
AbsentIsUnpaid == \A i \in Invoices : ~Exists(i) => inv[i].paid = 0 /\ inv[i].allocated = 0

IInv == Shape /\ TypeOK /\ ReadsHold /\ AbsentIsUnpaid /\ PaidIsAllocated
-----------------------------------------------------------------------------
\* The verdict is one of three.
LEMMA VerdictIsOne ==
  ASSUME NEW lines, NEW flags, NEW tol
  PROVE  Verdict(lines, flags, tol) \in Verdicts
BY DEF Verdict, Verdicts

\* A duplicate is never approved automatically.
LEMMA TwinIsBlocked ==
  ASSUME NEW lines, NEW flags, NEW tol, flags.twin = TRUE
  PROVE  Verdict(lines, flags, tol) # "AUTO_APPROVE"
<1> DEFINE codes == AllCodes(lines, flags, tol)
<1>1. "DUPLICATE_INVOICE_SUSPECTED" \in Flags(flags)
  BY Zenon DEF Flags
<1>2. codes \cap (Structural \cup {"DUPLICATE_INVOICE_SUSPECTED"}) # {}
  BY <1>1, Zenon DEF AllCodes
<1> QED
  BY <1>2 DEF Verdict

\* A plan made by the program gives each open invoice it names something.
LEMMA PlansNameOpen ==
  ASSUME NEW open, NEW amount, NEW plan \in AutoPlans(open, amount)
  PROVE  DOMAIN plan \subseteq DOMAIN open /\ \A i \in DOMAIN plan : plan[i] \in Nat \ {0}
<1> DEFINE share(s, n) == LeftAfter(open, s, n - 1, amount) - LeftAfter(open, s, n, amount)
           place(s, i) == CHOOSE n \in DOMAIN s : s[n] = i
           served(s) == {s[n] : n \in {n \in DOMAIN s : share(s, n) \in Nat \ {0}}}
<1>1. PICK s \in ByDueDate(open) : plan = [i \in served(s) |-> share(s, place(s, i))]
  BY Zenon DEF AutoPlans
<1>2. /\ s \in [1..Cardinality(DOMAIN open) -> DOMAIN open]
      /\ \A m, n \in DOMAIN s : m # n => s[m] # s[n]
  BY DEF ByDueDate, SetToSeqs
<1> HIDE DEF share
<1>3. ASSUME NEW i \in served(s) PROVE i \in DOMAIN open /\ share(s, place(s, i)) \in Nat \ {0}
  <2>1. PICK n \in DOMAIN s : i = s[n] /\ share(s, n) \in Nat \ {0}
    BY <1>3
  <2>2. place(s, i) = n
    BY <1>2, <2>1
  <2> QED
    BY <1>2, <2>1, <2>2
<1> QED
  BY <1>1, <1>3

\* Only invoices that exist are open.
LEMMA OpenExist ==
  ASSUME NEW side, NEW i \in DOMAIN LoadOpenInvoices(side)
  PROVE  i \in Invoices /\ Exists(i) /\ inv[i].status \in OpenStatuses
BY DEF LoadOpenInvoices, Of, Exists, OpenStatuses
-----------------------------------------------------------------------------
\* At first nothing has been paid, and no request is under way.
LEMMA InitIInv == Init => IInv
<1> SUFFICES ASSUME Init PROVE IInv
  OBVIOUS
<1>1. PICK o \in Openings : inv = o.inv /\ ordered = o.ordered
  BY DEF Init
<1>2. /\ ordered \subseteq Of("customer")
      /\ inv \in [Invoices -> [status: {"ABSENT", "ISSUED", "RECEIVED"}, paid: {0}, allocated: {0}]]
  BY <1>1, OpeningsAssumption DEF New
<1>3. \A i \in Invoices : inv[i].status \in Statuses[Terms[i].side]
  BY <1>1, <1>2, OpeningsAssumption, TermsAssumption DEF Of, Statuses
<1>4. Shape /\ AbsentIsUnpaid /\ PaidIsAllocated
  BY <1>2 DEF Init, Shape, Statuses, AbsentIsUnpaid, PaidIsAllocated
<1>5. TypeOK
  <2>1. \A i \in Invoices : inv[i].paid \in 0..Terms[i].total /\ inv[i].allocated \in Nat
    BY <1>2, TermsAssumption
  <2> QED
    BY <1>2, <1>3, <2>1 DEF Init, TypeOK, IsOpen
<1>6. ReadsHold
  BY DEF Init, ReadsHold, SaleIsNew, BillIsThere, TakenIsAllocated
<1> QED
  BY <1>4, <1>5, <1>6 DEF IInv
-----------------------------------------------------------------------------
\* A step of t leaves what the other requests have read true enough, as long as no
\* invoice vanishes, none loses an allocation, and none of theirs is made.
LEMMA OthersKeep ==
  ASSUME Shape, ReadsHold, NEW t \in Requests,
         \A u \in Requests \ {t} : pc'[u] = pc[u] /\ work'[u] = work[u],
         Shape', \A i \in Invoices : /\ inv'[i].allocated >= inv[i].allocated
                                     /\ Exists(i) => Exists(i)',
         \A u \in Requests \ {t} : pc[u] \in {"sell", "order"} =>
           /\ inv'[work[u]].status = "ABSENT" /\ work[u] \notin ordered'
           /\ pc'[t] \in {"sell", "order"} => work[u] # work'[t],
         SaleIsNew(t)', BillIsThere(t)', TakenIsAllocated(t)'
  PROVE  ReadsHold'
<1> SUFFICES ASSUME NEW u \in Requests \ {t}
             PROVE  SaleIsNew(u)' /\ BillIsThere(u)' /\ TakenIsAllocated(u)'
  BY DEF ReadsHold
<1>1. SaleIsNew(u) /\ BillIsThere(u) /\ TakenIsAllocated(u)
  BY DEF ReadsHold
<1>2. SaleIsNew(u)'
  BY <1>1 DEF SaleIsNew, Exists
<1>3. BillIsThere(u)'
  BY <1>1 DEF BillIsThere, Loaded, Of
<1>4. TakenIsAllocated(u)'
  <2> SUFFICES ASSUME pc[u] = "take"
               PROVE  /\ IsPlan(work[u].plan) /\ \A i \in DOMAIN work[u].plan : Exists(i)'
                      /\ DOMAIN work[u].seen \subseteq DOMAIN work[u].plan
                      /\ \A i \in DOMAIN work[u].seen :
                           /\ Loaded(i, work[u].seen[i].status)'
                           /\ work[u].seen[i].paid \in Nat
                           /\ work[u].seen[i].paid <= inv'[i].allocated
    BY DEF TakenIsAllocated
  <2> QED
    BY <1>1 DEF TakenIsAllocated, IsPlan, Loaded, Shape
<1> QED
  BY <1>2, <1>3, <1>4

\* What every step has to leave.
Preserved == IInv' /\ \A i \in Invoices : Exists(i) => Exists(i)'

\* A step that writes no document.
LEMMA ReadingStep ==
  ASSUME IInv, NEW t \in Requests, UNCHANGED docs, NEW where, NEW what, Goto(t, where, what),
         where \in {"sell", "order", "compare", "judge", "take", "done", "rejected"},
         stale' \subseteq stale, where \in {"done", "rejected"} => t \notin stale',
         raced' = raced,
         where \in {"sell", "order"} =>
           \A u \in Requests \ {t} : pc[u] \in {"sell", "order"} => work[u] # what,
         SaleIsNew(t)', BillIsThere(t)', TakenIsAllocated(t)'
  PROVE  Preserved
<1> USE DEF IInv
<1>1. /\ pc'[t] = where /\ work'[t] = what /\ DOMAIN work' = Requests
      /\ \A u \in Requests \ {t} : pc'[u] = pc[u] /\ work'[u] = work[u]
  BY DEF Goto, Shape, TypeOK
<1>2. Shape' /\ AbsentIsUnpaid' /\ PaidIsAllocated'
  BY <1>1 DEF docs, Shape, AbsentIsUnpaid, PaidIsAllocated, Exists
<1>3. ReadsHold'
  <2>1. \A i \in Invoices : inv'[i].allocated >= inv[i].allocated /\ (Exists(i) => Exists(i)')
    BY DEF docs, Shape, Exists
  <2>2. \A u \in Requests \ {t} : pc[u] \in {"sell", "order"} =>
           /\ inv'[work[u]].status = "ABSENT" /\ work[u] \notin ordered'
           /\ pc'[t] \in {"sell", "order"} => work[u] # work'[t]
    BY <1>1 DEF docs, ReadsHold, SaleIsNew, Exists
  <2>3. Shape /\ ReadsHold /\ Shape'
    BY <1>2
  <2> HIDE DEF IInv
  <2> QED
    BY <1>1, <2>1, <2>2, <2>3, OthersKeep
<1>4. TypeOK'
  <2>1. stale' \subseteq {u \in Requests : IsOpen(u)'}
    <3> SUFFICES ASSUME NEW u \in stale' PROVE u \in Requests /\ IsOpen(u)'
      OBVIOUS
    <3>1. u \in Requests /\ IsOpen(u)
      BY DEF TypeOK
    <3>2. CASE u = t
      BY <1>1, <3>1, <3>2 DEF IsOpen
    <3>3. CASE u # t
      BY <1>1, <3>1, <3>3 DEF IsOpen
    <3> QED
      BY <3>2, <3>3
  <2> QED
    BY <2>1 DEF TypeOK, docs, Goto
<1>5. \A i \in Invoices : Exists(i) => Exists(i)'
  BY DEF docs, Exists
<1>6. IInv'
  BY <1>2, <1>3, <1>4
<1> QED
  BY <1>5, <1>6 DEF Preserved

\* What a commit has to leave of one invoice.
KeepsInvoice(i) ==
  /\ inv'[i].status \in Statuses[Terms[i].side] /\ inv'[i].paid \in 0..Terms[i].total
  /\ inv'[i].paid <= inv'[i].allocated /\ inv'[i].allocated >= inv[i].allocated
  /\ Exists(i) => Exists(i)'
  /\ ~Exists(i)' => inv'[i].paid = 0 /\ inv'[i].allocated = 0

\* A commit that leaves each invoice so, and makes none that another is making.
LEMMA CommittingStep ==
  ASSUME IInv, NEW t \in Requests, Committed(t), Shape', \A i \in Invoices : KeepsInvoice(i),
         ordered' \subseteq Of("customer"), passed' \subseteq Of("supplier"),
         \A u \in Requests \ {t} : pc[u] \in {"sell", "order"} =>
           inv'[work[u]].status = "ABSENT" /\ work[u] \notin ordered'
  PROVE  Preserved
<1> USE DEF IInv
<1>1. /\ pc'[t] = "done" /\ DOMAIN work' = Requests
      /\ \A u \in Requests \ {t} : pc'[u] = pc[u] /\ work'[u] = work[u]
  BY DEF Committed, Goto, Shape, TypeOK
<1>2. ReadsHold'
  <2>1. SaleIsNew(t)' /\ BillIsThere(t)' /\ TakenIsAllocated(t)'
    BY <1>1 DEF SaleIsNew, BillIsThere, TakenIsAllocated
  <2>2. \A i \in Invoices : inv'[i].allocated >= inv[i].allocated /\ (Exists(i) => Exists(i)')
    BY DEF KeepsInvoice
  <2>3. Shape /\ ReadsHold /\ pc'[t] \notin {"sell", "order"}
    BY <1>1
  <2> HIDE DEF IInv
  <2> QED
    BY <1>1, <2>1, <2>2, <2>3, OthersKeep
<1>3. TypeOK'
  <2>1. \A i \in Invoices : /\ inv'[i].status \in Statuses[Terms[i].side]
                            /\ inv'[i].paid \in 0..Terms[i].total
                            /\ inv'[i].allocated \in Nat
    BY DEF KeepsInvoice, Shape
  <2>2. stale' \subseteq {u \in Requests : IsOpen(u)'}
    BY <1>1 DEF TypeOK, Committed, IsOpen
  <2>3. raced' \subseteq {"idle", "sell", "order", "compare", "judge", "take"}
    <3>1. t \in stale => pc[t] \in {"sell", "order", "compare", "judge", "take"}
      BY DEF TypeOK, IsOpen
    <3> QED
      BY <3>1 DEF TypeOK, Committed
  <2> QED
    BY <2>1, <2>2, <2>3 DEF TypeOK, Committed, Goto
<1>4. AbsentIsUnpaid' /\ PaidIsAllocated'
  BY DEF KeepsInvoice, AbsentIsUnpaid, PaidIsAllocated, Exists
<1> QED
  BY <1>2, <1>3, <1>4 DEF Preserved, KeepsInvoice

\* What the others are making is nowhere yet.
LEMMA OthersMake ==
  ASSUME ReadsHold, NEW t \in Requests, NEW u \in Requests \ {t}, pc[u] \in {"sell", "order"}
  PROVE  /\ work[u] \in Invoices /\ Terms[work[u]].side = "customer"
         /\ inv[work[u]].status = "ABSENT" /\ work[u] \notin ordered
         /\ pc[t] \in {"sell", "order"} => work[u] # work[t]
BY DEF ReadsHold, SaleIsNew, Of, Exists

\* A request that gives up writes nothing.
LEMMA RejectIInv ==
  ASSUME IInv, NEW t \in Requests, Reject(t)
  PROVE  Preserved
<1>1. pc'[t] = "rejected"
  BY DEF Reject, Goto, IInv, TypeOK
<1>2. SaleIsNew(t)' /\ BillIsThere(t)' /\ TakenIsAllocated(t)'
  BY <1>1 DEF SaleIsNew, BillIsThere, TakenIsAllocated
<1> QED
  BY <1>2, ReadingStep DEF Reject

\* t makes the invoice i, which is not there and which nobody else makes.
Makes(t, i, s) ==
  /\ Committed(t) /\ UNCHANGED << ordered, passed >>
  /\ i \in Invoices /\ ~Exists(i) /\ s \in Statuses[Terms[i].side] \ {"ABSENT"}
  /\ inv' = [inv EXCEPT ![i] = New(s)]
  /\ \A u \in Requests \ {t} : pc[u] \in {"sell", "order"} => work[u] # i

\* Nothing has been paid of it before.
LEMMA MakingIInv ==
  ASSUME IInv, NEW t \in Requests, NEW i, NEW s, Makes(t, i, s)
  PROVE  Preserved
<1> USE DEF Makes
<1>1. New(s) \in [status: Statuses.customer \cup Statuses.supplier, paid: {0}, allocated: {0}]
  BY TermsAssumption DEF New, Statuses
<1>2. Shape'
  BY <1>1 DEF IInv, Shape, Committed, Goto
<1>3. inv'[i] = New(s) /\ \A j \in Invoices \ {i} : inv'[j] = inv[j]
  BY DEF IInv, Shape
<1>4. \A j \in Invoices : KeepsInvoice(j)
  <2>1. inv[i].paid = 0 /\ inv[i].allocated = 0
    BY DEF IInv, AbsentIsUnpaid
  <2>2. KeepsInvoice(i)
    BY <1>3, <2>1, TermsAssumption DEF KeepsInvoice, New, Exists
  <2>3. \A j \in Invoices \ {i} : KeepsInvoice(j)
    BY <1>3 DEF IInv, TypeOK, Shape, PaidIsAllocated, AbsentIsUnpaid, KeepsInvoice, Exists
  <2> QED
    BY <2>2, <2>3
<1>5. \A u \in Requests \ {t} : pc[u] \in {"sell", "order"} =>
         inv'[work[u]].status = "ABSENT" /\ work[u] \notin ordered'
  BY <1>3, OthersMake DEF IInv, Exists
<1> QED
  BY <1>2, <1>4, <1>5, CommittingStep DEF IInv, TypeOK
-----------------------------------------------------------------------------
\* The sales and orders of the customer.
LEMMA SaleIInv ==
  ASSUME IInv, NEW t \in Requests, CheckCredit(t) \/ Sell(t) \/ Order(t) \/ BillDelivery(t)
  PROVE  Preserved
<1>1. CASE CheckCredit(t)
  <2>1. PICK m \in Menu :
          /\ m.op \in {"SELL", "ORDER"} /\ ~Exists(m.inv) /\ m.inv \notin Promised
          /\ \/ Goto(t, "rejected", << >>)
             \/ Goto(t, "sell", m.inv)
             \/ Goto(t, "order", m.inv)
    BY <1>1 DEF CheckCredit
  <2>2. UNCHANGED docs /\ stale' = stale /\ raced' = raced /\ pc[t] = "idle" /\ t \notin stale
    BY <1>1 DEF CheckCredit, CanOpen, docs, IInv, TypeOK, IsOpen
  <2>3. CASE Goto(t, "rejected", << >>)
    BY <2>2, <2>3, RejectIInv DEF Reject, docs
  <2>4. ASSUME NEW where \in {"sell", "order"}, Goto(t, where, m.inv) PROVE Preserved
    <3>1. /\ pc'[t] = where /\ work'[t] = m.inv
          /\ \A u \in Requests \ {t} : pc'[u] = pc[u] /\ work'[u] = work[u]
      BY <2>4 DEF Goto, IInv, Shape, TypeOK
    <3>2. m.inv \in Of("customer") \ ordered
          /\ \A u \in Requests : pc[u] \in {"sell", "order"} => work[u] # m.inv
      BY <2>1, MenuAssumption DEF Promised
    <3>3. SaleIsNew(t)'
      BY <2>1, <2>2, <3>1, <3>2 DEF SaleIsNew, docs, Exists
    <3>4. BillIsThere(t)' /\ TakenIsAllocated(t)'
      BY <3>1 DEF BillIsThere, TakenIsAllocated
    <3> QED
      BY <2>2, <2>4, <3>2, <3>3, <3>4, ReadingStep
  <2> QED
    BY <2>1, <2>3, <2>4
<1>2. CASE Sell(t)
  <2>1. SaleIsNew(t) /\ "ISSUED" \in Statuses[Terms[work[t]].side] \ {"ABSENT"}
    BY <1>2 DEF Sell, IInv, ReadsHold, SaleIsNew, Of, Statuses
  <2>2. Makes(t, work[t], "ISSUED")
    BY <1>2, <2>1 DEF Makes, Sell, SaleIsNew, Of
  <2> QED
    BY <2>2, MakingIInv
<1>3. CASE Order(t)
  <2>1. pc[t] = "order" /\ SaleIsNew(t) /\ inv' = inv /\ passed' = passed
    BY <1>3 DEF Order, IInv, ReadsHold
  <2>2. ordered' \subseteq Of("customer")
    BY <1>3, <2>1 DEF Order, SaleIsNew, IInv, TypeOK
  <2>3. Shape' /\ \A i \in Invoices : KeepsInvoice(i)
    BY <1>3, <2>1 DEF Order, Committed, Goto, IInv, Shape, TypeOK, PaidIsAllocated,
       AbsentIsUnpaid, KeepsInvoice, Exists
  <2>4. \A u \in Requests \ {t} : pc[u] \in {"sell", "order"} =>
           inv'[work[u]].status = "ABSENT" /\ work[u] \notin ordered'
    BY <1>3, <2>1, OthersMake DEF Order, IInv, Exists
  <2> QED
    BY <1>3, <2>1, <2>2, <2>3, <2>4, CommittingStep DEF Order, IInv, TypeOK
<1>4. CASE BillDelivery(t)
  <2>1. PICK i \in ordered : ~Exists(i) /\ inv' = [inv EXCEPT ![i] = New("ISSUED")]
    BY <1>4 DEF BillDelivery
  <2>2. i \in Invoices /\ "ISSUED" \in Statuses[Terms[i].side] \ {"ABSENT"}
    BY <2>1 DEF IInv, TypeOK, Of, Statuses
  <2>3. \A u \in Requests \ {t} : pc[u] \in {"sell", "order"} => work[u] # i
    BY <2>1 DEF IInv, ReadsHold, SaleIsNew
  <2>4. Makes(t, i, "ISSUED")
    BY <1>4, <2>1, <2>2, <2>3 DEF BillDelivery, Makes
  <2> QED
    BY <2>4, MakingIInv
<1> QED
  BY <1>1, <1>2, <1>3, <1>4

\* The supplier's bills and their matches.
LEMMA BillIInv ==
  ASSUME IInv, NEW t \in Requests,
         EnterBill(t) \/ RefuseBill(t) \/ LoadInvoice(t) \/ Compare(t) \/ Judge(t)
  PROVE  Preserved
<1>1. CASE EnterBill(t)
  <2>1. PICK m \in Menu : /\ m.op = "ENTER" /\ ~Exists(m.inv)
                          /\ inv' = [inv EXCEPT ![m.inv] = New("RECEIVED")]
    BY <1>1 DEF EnterBill
  <2>2. m.inv \in Of("supplier") /\ "RECEIVED" \in Statuses[Terms[m.inv].side] \ {"ABSENT"}
    BY <2>1, MenuAssumption DEF Of, Statuses
  <2>3. \A u \in Requests \ {t} : pc[u] \in {"sell", "order"} => work[u] # m.inv
    BY <2>2, OthersMake DEF IInv, Of
  <2>4. Makes(t, m.inv, "RECEIVED")
    BY <1>1, <2>1, <2>2, <2>3 DEF EnterBill, Makes, Of
  <2> QED
    BY <2>4, MakingIInv
<1>2. CASE RefuseBill(t)
  BY <1>2, RejectIInv DEF RefuseBill
<1>3. CASE LoadInvoice(t)
  <2>1. PICK m \in Menu : /\ m.op = "MATCH" /\ Exists(m.inv)
                          /\ Goto(t, "compare", [ask |-> m, seen |-> inv[m.inv].status])
    BY <1>3 DEF LoadInvoice
  <2>2. UNCHANGED docs /\ stale' = stale /\ raced' = raced
    BY <1>3 DEF LoadInvoice, docs
  <2>3. m.inv \in Of("supplier") /\ Loaded(m.inv, inv[m.inv].status)
    BY <2>1, MenuAssumption DEF Loaded, Exists, IInv, TypeOK, Of
  <2>4. pc'[t] = "compare" /\ work'[t] = [ask |-> m, seen |-> inv[m.inv].status]
    BY <2>1 DEF Goto, IInv, Shape, TypeOK
  <2>5. SaleIsNew(t)' /\ BillIsThere(t)' /\ TakenIsAllocated(t)'
    BY <2>2, <2>3, <2>4 DEF SaleIsNew, BillIsThere, TakenIsAllocated, Loaded, Exists, docs
  <2> QED
    BY <2>1, <2>2, <2>5, ReadingStep
<1>4. CASE Compare(t)
  <2>1. PICK verdict \in Verdicts :
          Goto(t, "judge", [inv |-> work[t].ask.inv, seen |-> work[t].seen, verdict |-> verdict])
    BY <1>4, VerdictIsOne DEF Compare
  <2>2. UNCHANGED docs /\ stale' = stale /\ raced' = raced /\ pc[t] = "compare"
    BY <1>4 DEF Compare, docs
  <2>3. work[t].ask.inv \in Of("supplier") /\ Loaded(work[t].ask.inv, work[t].seen)
    BY <2>2 DEF IInv, ReadsHold, BillIsThere
  <2>4. /\ pc'[t] = "judge"
        /\ work'[t] = [inv |-> work[t].ask.inv, seen |-> work[t].seen, verdict |-> verdict]
    BY <2>1 DEF Goto, IInv, Shape, TypeOK
  <2>5. SaleIsNew(t)' /\ BillIsThere(t)' /\ TakenIsAllocated(t)'
    BY <2>2, <2>3, <2>4 DEF SaleIsNew, BillIsThere, TakenIsAllocated, Loaded, Exists, docs
  <2> QED
    BY <2>1, <2>2, <2>5, ReadingStep
<1>5. CASE Judge(t)
  <2> DEFINE i == work[t].inv
             status == IF StatusFor(work[t].verdict, work[t].seen) = work[t].seen
                       THEN inv[i].status ELSE StatusFor(work[t].verdict, work[t].seen)
  <2>1. pc[t] = "judge" /\ Committed(t) /\ ordered' = ordered
        /\ inv' = [inv EXCEPT ![i].status = status]
    BY <1>5 DEF Judge
  <2>2. i \in Of("supplier") /\ Loaded(i, work[t].seen) /\ work[t].verdict \in Verdicts
    BY <2>1 DEF IInv, ReadsHold, BillIsThere
  <2>3. status \in Statuses.supplier \ {"ABSENT"}
    BY <2>2 DEF Loaded, Exists, Of, IInv, TypeOK, StatusFor, Verdicts, Statuses
  <2> HIDE DEF status
  <2>4. /\ inv'[i] = [status |-> status, paid |-> inv[i].paid, allocated |-> inv[i].allocated]
        /\ \A j \in Invoices \ {i} : inv'[j] = inv[j]
    BY <2>1, <2>2 DEF IInv, Shape, Of
  <2>5. Shape'
    BY <2>1, <2>3 DEF IInv, Shape, Committed, Goto
  <2>6. \A j \in Invoices : KeepsInvoice(j)
    BY <2>2, <2>3, <2>4 DEF IInv, TypeOK, Shape, PaidIsAllocated, AbsentIsUnpaid, KeepsInvoice,
       Exists, Of
  <2>7. passed' \subseteq Of("supplier")
    BY <1>5, <2>2 DEF Judge, IInv, TypeOK
  <2>8. \A u \in Requests \ {t} : pc[u] \in {"sell", "order"} =>
           inv'[work[u]].status = "ABSENT" /\ work[u] \notin ordered'
    BY <2>1, <2>2, <2>4, OthersMake DEF IInv, Exists, Of
  <2> QED
    BY <2>1, <2>5, <2>6, <2>7, <2>8, CommittingStep DEF IInv, TypeOK
<1> QED
  BY <1>1, <1>2, <1>3, <1>4, <1>5
\* The payments.
LEMMA PlanIInv ==
  ASSUME IInv, NEW t \in Requests, Plan(t)
  PROVE  Preserved
<1>1. UNCHANGED docs /\ stale' = stale /\ raced' = raced /\ pc[t] = "idle" /\ t \notin stale
  BY DEF Plan, CanOpen, docs, IInv, TypeOK, IsOpen
<1>2. CASE Goto(t, "rejected", << >>)
  BY <1>1, <1>2, RejectIInv DEF Reject
<1>3. ASSUME NEW m \in Menu, NEW plan, Goto(t, "take", [plan |-> plan, seen |-> << >>]),
             \/ plan \in AutoPlans(LoadOpenInvoices(m.side), m.amount)
             \/ MayRequest(LoadOpenInvoices(m.side), m.amount, plan)
      PROVE  Preserved
  <2>1. /\ DOMAIN plan \subseteq DOMAIN LoadOpenInvoices(m.side)
        /\ \A i \in DOMAIN plan : plan[i] \in Nat \ {0}
    <3>1. CASE plan \in AutoPlans(LoadOpenInvoices(m.side), m.amount)
      BY <3>1, PlansNameOpen
    <3>2. CASE MayRequest(LoadOpenInvoices(m.side), m.amount, plan)
      BY <3>2 DEF MayRequest
    <3> QED
      BY <1>3, <3>1, <3>2
  <2>2. IsPlan(plan) /\ \A i \in DOMAIN plan : Exists(i)
    BY <2>1, OpenExist DEF IsPlan
  <2>3. pc'[t] = "take" /\ work'[t] = [plan |-> plan, seen |-> << >>]
    BY <1>3 DEF Goto, IInv, Shape, TypeOK
  <2>4. SaleIsNew(t)' /\ BillIsThere(t)' /\ TakenIsAllocated(t)'
    BY <1>1, <2>2, <2>3 DEF SaleIsNew, BillIsThere, TakenIsAllocated, IsPlan, Exists, docs
  <2> QED
    BY <1>1, <1>3, <2>4, ReadingStep
<1> QED
  BY <1>2, <1>3 DEF Plan

\* A payment takes an invoice: it counts as paid what is allocated.
LEMMA TakeIInv ==
  ASSUME IInv, NEW t \in Requests, Take(t)
  PROVE  Preserved
<1> DEFINE read(i) == [paid |-> inv[i].paid, status |-> inv[i].status]
           more(i) == [work[t] EXCEPT !.seen = [j \in DOMAIN work[t].seen \cup {i} |->
                         IF j = i THEN read(i) ELSE work[t].seen[j]]]
<1>1. PICK i \in Untaken(t) : Goto(t, "take", more(i))
  BY Zenon DEF Take
<1>2. UNCHANGED docs /\ stale' = stale /\ raced' = raced /\ pc[t] = "take" /\ TakenIsAllocated(t)
  BY DEF Take, docs, IInv, ReadsHold
<1>3. pc'[t] = "take" /\ work'[t] = more(i)
  BY <1>1 DEF Goto, IInv, Shape, TypeOK
<1>4. /\ work'[t].plan = work[t].plan
      /\ work'[t].seen = [j \in DOMAIN work[t].seen \cup {i} |->
                            IF j = i THEN read(i) ELSE work[t].seen[j]]
  BY <1>3
<1>5. TakenIsAllocated(t)'
  <2>1. /\ i \in Invoices /\ Loaded(i, inv[i].status) /\ inv[i].paid \in Nat
        /\ inv[i].paid <= inv[i].allocated
    BY <1>2 DEF Untaken, TakenIsAllocated, IsPlan, Loaded, Exists, IInv, TypeOK, Shape,
       PaidIsAllocated
  <2>2. /\ IsPlan(work'[t].plan) /\ \A j \in DOMAIN work'[t].plan : Exists(j)'
        /\ DOMAIN work'[t].seen \subseteq DOMAIN work'[t].plan
    BY <1>2, <1>4 DEF Untaken, TakenIsAllocated, IsPlan, Exists, docs
  <2>3. \A j \in DOMAIN work'[t].seen :
          /\ Loaded(j, work'[t].seen[j].status)
          /\ work'[t].seen[j].paid \in Nat /\ work'[t].seen[j].paid <= inv[j].allocated
    BY <1>2, <1>4, <2>1 DEF TakenIsAllocated
  <2> QED
    BY <1>2, <2>2, <2>3 DEF TakenIsAllocated, IsPlan, Loaded, Exists, docs
<1>6. SaleIsNew(t)' /\ BillIsThere(t)'
  BY <1>3 DEF SaleIsNew, BillIsThere
<1> QED
  BY <1>1, <1>2, <1>5, <1>6, ReadingStep
\* A payment that commits adds the same to what it counts as paid, which was at most
\* the allocations when it was taken, and to the allocations of now.
LEMMA PayIInv ==
  ASSUME IInv, NEW t \in Requests, Pay(t)
  PROVE  Preserved
<1> DEFINE plan == work[t].plan
           seen == work[t].seen
           status(i) == IF NewPaymentStatus(t, i) = seen[i].status THEN inv[i].status
                        ELSE NewPaymentStatus(t, i)
<1>1. /\ pc[t] = "take" /\ Committed(t) /\ UNCHANGED << ordered, passed >>
      /\ \A i \in DOMAIN plan : NewPaid(t, i) <= Terms[i].total
      /\ inv' = [i \in Invoices |->
           IF i \notin DOMAIN plan THEN inv[i]
           ELSE [status |-> status(i), paid |-> NewPaid(t, i),
                 allocated |-> inv[i].allocated + plan[i]]]
  BY DEF Pay
<1>2. TakenIsAllocated(t) /\ DOMAIN seen = DOMAIN plan
  BY DEF Pay, Untaken, IInv, ReadsHold, TakenIsAllocated
<1>3. ASSUME NEW i \in DOMAIN plan
      PROVE  KeepsInvoice(i) /\ Exists(i)
             /\ inv'[i] \in [status: Statuses.customer \cup Statuses.supplier,
                            paid: Nat, allocated: Nat]
  <2>1. /\ i \in Invoices /\ plan[i] \in Nat \ {0} /\ inv[i].allocated \in Nat /\ Exists(i)
        /\ seen[i].paid \in Nat /\ seen[i].paid <= inv[i].allocated
        /\ seen[i].status \in Statuses[Terms[i].side] \ {"ABSENT"}
        /\ inv[i].status \in Statuses[Terms[i].side] \ {"ABSENT"}
    BY <1>1, <1>2 DEF TakenIsAllocated, IsPlan, Loaded, Exists, IInv, Shape, TypeOK
  <2>2. NewPaid(t, i) = seen[i].paid + plan[i]
    BY DEF NewPaid
  <2>3. NewPaid(t, i) \in 0..Terms[i].total /\ NewPaid(t, i) <= inv[i].allocated + plan[i]
    BY <1>1, <2>1, <2>2, TermsAssumption
  <2>4. NewPaymentStatus(t, i) \in Statuses[Terms[i].side] \ {"ABSENT"}
    BY <2>1, <2>3, TermsAssumption DEF NewPaymentStatus, Statuses
  <2>5. status(i) \in Statuses[Terms[i].side] \ {"ABSENT"}
    BY <2>1, <2>4
  <2>6. status(i) \in Statuses.customer \cup Statuses.supplier
    BY <2>1, <2>5, TermsAssumption DEF Statuses
  <2> HIDE DEF status
  <2>7. inv'[i] = [status |-> status(i), paid |-> NewPaid(t, i),
                   allocated |-> inv[i].allocated + plan[i]]
    BY <1>1, <2>1
  <2>8. KeepsInvoice(i)
    BY <2>1, <2>3, <2>5, <2>7 DEF KeepsInvoice, Exists
  <2>9. NewPaid(t, i) \in Nat /\ inv[i].allocated + plan[i] \in Nat
    BY <2>1, <2>3, TermsAssumption
  <2> QED
    BY <2>1, <2>6, <2>7, <2>8, <2>9
<1> HIDE DEF status
<1>4. \A i \in Invoices \ DOMAIN plan : inv'[i] = inv[i]
  BY <1>1
<1>5. Shape'
  <2>1. inv' = [i \in Invoices |-> inv'[i]]
    BY <1>1
  <2> DEFINE rows == [status: Statuses.customer \cup Statuses.supplier, paid: Nat, allocated: Nat]
  <2>2. \A i \in DOMAIN plan : inv'[i] \in rows
    BY <1>3
  <2>3. \A i \in Invoices : inv'[i] \in rows
    BY <1>4, <2>2 DEF IInv, Shape
  <2> QED
    BY <1>1, <2>1, <2>3 DEF Shape, Committed, Goto, IInv
<1>6. \A i \in Invoices : KeepsInvoice(i)
  <2>1. \A i \in DOMAIN plan : KeepsInvoice(i)
    BY <1>3
  <2>2. \A i \in Invoices \ DOMAIN plan : KeepsInvoice(i)
    BY <1>4 DEF KeepsInvoice, Exists, IInv, TypeOK, Shape, PaidIsAllocated, AbsentIsUnpaid
  <2> QED
    BY <2>1, <2>2
<1>7. \A u \in Requests \ {t} : pc[u] \in {"sell", "order"} =>
         inv'[work[u]].status = "ABSENT" /\ work[u] \notin ordered'
  BY <1>1, <1>3, <1>4, OthersMake DEF IInv, Exists
<1> QED
  BY <1>1, <1>5, <1>6, <1>7, CommittingStep DEF IInv, TypeOK

\* Every step of every request.
LEMMA NextPreserves ==
  ASSUME IInv, [Next]_vars
  PROVE  Preserved
<1>1. ASSUME NEW t \in Requests, Begin(t) PROVE Preserved
  BY <1>1, SaleIInv, BillIInv, PlanIInv DEF Begin
<1>2. ASSUME NEW t \in Requests, Step(t) PROVE Preserved
  BY <1>2, SaleIInv, BillIInv, TakeIInv, PayIInv, RejectIInv DEF Step, PayTooMuch
<1>3. ASSUME NEW t \in Requests, Lose(t) PROVE Preserved
  BY <1>3, RejectIInv DEF Lose
<1>4. CASE UNCHANGED vars
  BY <1>4 DEF vars, docs, IInv, Shape, TypeOK, ReadsHold, SaleIsNew, BillIsThere,
     TakenIsAllocated, IsPlan, Loaded, AbsentIsUnpaid, PaidIsAllocated, Exists, IsOpen, Preserved
<1> QED
  BY <1>1, <1>2, <1>3, <1>4 DEF Next, Finished

\* The inductive invariant.
THEOREM Inductive == Spec => []IInv
<1>1. IInv /\ [Next]_vars => IInv'
  BY NextPreserves DEF Preserved
<1> QED
  BY <1>1, InitIInv, PTL DEF Spec

\* Every variable keeps its type: the statuses of customers and suppliers stay
\* apart, and no invoice is paid more than its total.
THEOREM TypeCorrect == Spec => []TypeOK
BY Inductive, PTL DEF IInv

\* services/payments.py, record_payment: whatever payments, matches and lost updates
\* overlap, amount_paid never exceeds the allocations of the invoice.
THEOREM NothingPaidUnallocated == Spec => []PaidIsAllocated
BY Inductive, PTL DEF IInv
-----------------------------------------------------------------------------
\* The bills that have passed or are about to.
Passing(t) == pc[t] = "judge" /\ work[t].verdict = "AUTO_APPROVE"
Cleared == passed \cup {work[t].inv : t \in {t \in Requests : Passing(t)}}

\* Of those with one total there is one, and all of them exist: who looks for a
\* duplicate finds them.
ClearedAlone ==
  /\ \A i \in Cleared : i \in Of("supplier") /\ Exists(i)
  /\ \A i, j \in Cleared : Terms[i].total = Terms[j].total => i = j

\* Who looks for a duplicate and clears the invoice has found no other with its total.
LEMMA CompareClears ==
  ASSUME IInv, ClearedAlone, NEW t \in Requests, Compare(t)
  PROVE  ClearedAlone'
<1> DEFINE i == work[t].ask.inv
<1>1. PICK flags, lines :
        /\ flags.twin = HasTwin(i)
        /\ Goto(t, "judge", [inv |-> i, seen |-> work[t].seen,
                             verdict |-> Verdict(lines, flags, DefaultTolerances)])
  BY DEF Compare
<1>2. pc[t] = "compare" /\ UNCHANGED docs /\ i \in Of("supplier") /\ Exists(i)
  BY DEF Compare, docs, IInv, ReadsHold, BillIsThere, Loaded
<1>3. /\ pc'[t] = "judge" /\ work'[t].inv = i
      /\ work'[t].verdict = Verdict(lines, flags, DefaultTolerances)
      /\ \A u \in Requests \ {t} : pc'[u] = pc[u] /\ work'[u] = work[u]
  BY <1>1 DEF Goto, IInv, Shape, TypeOK
<1>4. CASE HasTwin(i)
  <2>1. ~Passing(t)'
    BY <1>1, <1>3, <1>4, TwinIsBlocked DEF Passing
  <2>2. Cleared' \subseteq Cleared
    BY <1>2, <1>3, <2>1 DEF Cleared, Passing, docs
  <2> QED
    BY <1>2, <2>2 DEF ClearedAlone, docs, Exists
<1>5. CASE ~HasTwin(i)
  <2>1. Cleared' \subseteq Cleared \cup {i}
    BY <1>2, <1>3 DEF Cleared, Passing, docs
  <2>2. \A j \in Cleared : Terms[j].total = Terms[i].total => j = i
    BY <1>5 DEF ClearedAlone, HasTwin
  <2> QED
    BY <1>2, <2>1, <2>2 DEF ClearedAlone, docs, Exists
<1> QED
  BY <1>4, <1>5

\* No other step clears an invoice, and none that is cleared vanishes.
LEMMA NextClears == IInv /\ ClearedAlone /\ [Next]_vars => ClearedAlone'
<1> SUFFICES ASSUME IInv, ClearedAlone, [Next]_vars PROVE ClearedAlone'
  OBVIOUS
<1>1. \A i \in Invoices : Exists(i) => Exists(i)'
  BY NextPreserves DEF Preserved
<1>2. SUFFICES ASSUME ~\E t \in Requests : Compare(t)
               PROVE  Cleared' \subseteq Cleared
  BY <1>1, CompareClears DEF ClearedAlone, Of
<1>3. ASSUME NEW t \in Requests, Goto(t, pc'[t], work'[t]), passed' = passed, ~Passing(t)'
      PROVE  Cleared' \subseteq Cleared
  BY <1>3 DEF Goto, Cleared, Passing, IInv, Shape, TypeOK
<1>4. ASSUME NEW t \in Requests, NEW where, NEW what, Goto(t, where, what)
      PROVE  pc'[t] = where /\ Goto(t, pc'[t], work'[t])
  BY <1>4 DEF Goto, IInv, Shape, TypeOK
<1>5. ASSUME NEW t \in Requests, Judge(t) PROVE Cleared' \subseteq Cleared
  <2>1. /\ pc[t] = "judge" /\ pc'[t] = "done" /\ \A u \in Requests \ {t} : pc'[u] = pc[u] /\ work'[u] = work[u]
        /\ passed' \subseteq IF Passing(t) THEN passed \cup {work[t].inv} ELSE passed
    BY <1>5 DEF Judge, Committed, Goto, IInv, Shape, TypeOK, Passing
  <2> QED
    BY <2>1 DEF Cleared, Passing
<1>6. ASSUME NEW t \in Requests, Reject(t) PROVE Cleared' \subseteq Cleared
  BY <1>3, <1>4, <1>6 DEF Reject, docs, Passing
<1>7. ASSUME NEW t \in Requests, Begin(t) PROVE Cleared' \subseteq Cleared
  <2>1. CASE RefuseBill(t)
    BY <1>6, <2>1 DEF RefuseBill
  <2>2. CASE CheckCredit(t)
    BY <1>3, <1>4, <2>2 DEF CheckCredit, docs, Passing
  <2>3. CASE BillDelivery(t) \/ EnterBill(t)
    BY <1>3, <1>4, <2>3 DEF BillDelivery, EnterBill, Committed, Passing
  <2>4. CASE LoadInvoice(t)
    BY <1>3, <1>4, <2>4 DEF LoadInvoice, docs, Passing
  <2>5. CASE Plan(t)
    <3>1. PICK where \in {"take", "rejected"} : \E what : Goto(t, where, what)
      BY <2>5, Zenon DEF Plan
    <3> QED
      BY <1>3, <1>4, <2>5, <3>1 DEF Plan, docs, Passing
  <2> QED
    BY <1>7, <2>1, <2>2, <2>3, <2>4, <2>5 DEF Begin
<1>8. ASSUME NEW t \in Requests, Step(t) PROVE Cleared' \subseteq Cleared
  <2>1. CASE Sell(t) \/ Order(t) \/ Pay(t)
    BY <1>3, <1>4, <2>1 DEF Sell, Order, Pay, Committed, Passing
  <2>2. CASE Take(t)
    <3>1. PICK what : Goto(t, "take", what)
      BY <2>2, Zenon DEF Take
    <3> QED
      BY <1>3, <1>4, <2>2, <3>1 DEF Take, docs, Passing
  <2>3. CASE PayTooMuch(t)
    BY <1>6, <2>3 DEF PayTooMuch
  <2> QED
    BY <1>2, <1>5, <1>8, <2>1, <2>2, <2>3 DEF Step
<1>9. CASE UNCHANGED vars
  BY <1>9 DEF vars, docs, Cleared, Passing
<1> QED
  BY <1>6, <1>7, <1>8, <1>9 DEF Next, Finished, Lose

\* services/matching.py, match_three_way: of several bills of the supplier with one
\* total at most one is ever approved automatically, however requests overlap.
THEOREM OneTwinApproved == Spec => []OneOfTwinsPasses
<1>1. Init => ClearedAlone
  BY DEF Init, ClearedAlone, Cleared, Passing
<1>2. ClearedAlone => OneOfTwinsPasses
  BY DEF ClearedAlone, OneOfTwinsPasses, Cleared
<1> QED
  BY <1>1, <1>2, NextClears, Inductive, PTL DEF Spec
-----------------------------------------------------------------------------
\* As long as nobody has committed since t planned its payment, the invoices of the
\* plan are open, and those it has taken are as it has seen them.
FreshPlan(t) ==
  pc[t] = "take" /\ t \notin stale =>
    /\ \A i \in DOMAIN work[t].plan : inv[i].status \in OpenStatuses
    /\ \A i \in DOMAIN work[t].seen : work[t].seen[i] = [paid |-> inv[i].paid,
                                                         status |-> inv[i].status]
FreshPlans == \A t \in Requests : FreshPlan(t)

\* A commit makes everybody else stale, and nothing else writes.
LEMMA CommitFresh ==
  ASSUME IInv, NEW t \in Requests, Committed(t)
  PROVE  FreshPlans'
<1>1. /\ pc'[t] = "done" /\ stale' = (stale \cup {u \in Requests : IsOpen(u)}) \ {t}
      /\ \A u \in Requests \ {t} : pc'[u] = pc[u]
  BY DEF Committed, Goto, IInv, TypeOK
<1> QED
  BY <1>1 DEF FreshPlans, FreshPlan, IsOpen

\* A step that writes no document makes nobody's plan stale.
LEMMA ReadFresh ==
  ASSUME IInv, FreshPlans, NEW t \in Requests, NEW where, NEW what, Goto(t, where, what),
         UNCHANGED docs, stale \ {t} \subseteq stale', FreshPlan(t)'
  PROVE  FreshPlans'
<1>1. \A u \in Requests \ {t} : pc'[u] = pc[u] /\ work'[u] = work[u]
  BY DEF Goto, IInv, Shape, TypeOK
<1> QED
  BY <1>1 DEF FreshPlans, FreshPlan, docs

\* A new plan names what is open.
LEMMA PlanFresh ==
  ASSUME IInv, FreshPlans, NEW t \in Requests, Plan(t)
  PROVE  FreshPlans'
<1>1. UNCHANGED docs /\ stale' = stale
  BY DEF Plan, docs
<1>2. CASE Goto(t, "rejected", << >>)
  <2>1. FreshPlan(t)'
    BY <1>2 DEF Goto, IInv, TypeOK, FreshPlan
  <2> QED
    BY <1>1, <1>2, <2>1, ReadFresh
<1>3. ASSUME NEW m \in Menu, NEW plan, Goto(t, "take", [plan |-> plan, seen |-> << >>]),
             \/ plan \in AutoPlans(LoadOpenInvoices(m.side), m.amount)
             \/ MayRequest(LoadOpenInvoices(m.side), m.amount, plan)
      PROVE  FreshPlans'
  <2>1. DOMAIN plan \subseteq DOMAIN LoadOpenInvoices(m.side)
    <3>1. CASE plan \in AutoPlans(LoadOpenInvoices(m.side), m.amount)
      BY <3>1, PlansNameOpen
    <3>2. CASE MayRequest(LoadOpenInvoices(m.side), m.amount, plan)
      BY <3>2 DEF MayRequest
    <3> QED
      BY <1>3, <3>1, <3>2
  <2>2. \A i \in DOMAIN plan : inv[i].status \in OpenStatuses
    BY <2>1, OpenExist
  <2>3. work'[t] = [plan |-> plan, seen |-> << >>]
    BY <1>3 DEF Goto, IInv, Shape
  <2>4. FreshPlan(t)'
    BY <1>1, <2>2, <2>3 DEF FreshPlan, docs
  <2> QED
    BY <1>1, <1>3, <2>4, ReadFresh
<1> QED
  BY <1>2, <1>3 DEF Plan

\* What is taken is what the invoice says.
LEMMA TakeFresh ==
  ASSUME IInv, FreshPlans, NEW t \in Requests, Take(t)
  PROVE  FreshPlans'
<1> DEFINE read(i) == [paid |-> inv[i].paid, status |-> inv[i].status]
           more(i) == [work[t] EXCEPT !.seen = [j \in DOMAIN work[t].seen \cup {i} |->
                         IF j = i THEN read(i) ELSE work[t].seen[j]]]
<1>1. PICK i \in Untaken(t) : Goto(t, "take", more(i))
  BY Zenon DEF Take
<1>2. UNCHANGED docs /\ stale' = stale /\ pc[t] = "take" /\ FreshPlan(t)
  BY DEF Take, docs, FreshPlans
<1>3. work'[t] = more(i)
  BY <1>1 DEF Goto, IInv, Shape
<1>4. /\ work'[t].plan = work[t].plan
      /\ work'[t].seen = [j \in DOMAIN work[t].seen \cup {i} |->
                            IF j = i THEN read(i) ELSE work[t].seen[j]]
  BY <1>3
<1>5. FreshPlan(t)'
  BY <1>2, <1>4 DEF FreshPlan, docs
<1> QED
  BY <1>1, <1>2, <1>5, ReadFresh

\* So plans are fresh as long as their payments are not stale.
LEMMA NextFresh == IInv /\ FreshPlans /\ [Next]_vars => FreshPlans'
<1> SUFFICES ASSUME IInv, FreshPlans, [Next]_vars PROVE FreshPlans'
  OBVIOUS
<1>1. ASSUME NEW t \in Requests, NEW where, NEW what, Goto(t, where, what), where # "take",
             UNCHANGED docs, stale \ {t} \subseteq stale'
      PROVE  FreshPlans'
  <2>1. FreshPlan(t)'
    BY <1>1 DEF Goto, IInv, TypeOK, FreshPlan
  <2> QED
    BY <1>1, <2>1, ReadFresh
<1>2. ASSUME NEW t \in Requests, Reject(t) PROVE FreshPlans'
  BY <1>1, <1>2 DEF Reject
<1>3. ASSUME NEW t \in Requests, Begin(t) PROVE FreshPlans'
  <2>1. CASE CheckCredit(t)
    BY <1>1, <2>1 DEF CheckCredit, docs
  <2>2. CASE BillDelivery(t) \/ EnterBill(t)
    BY <2>2, CommitFresh DEF BillDelivery, EnterBill
  <2>3. CASE RefuseBill(t)
    BY <1>2, <2>3 DEF RefuseBill
  <2>4. CASE LoadInvoice(t)
    BY <1>1, <2>4 DEF LoadInvoice, docs
  <2> QED
    BY <1>3, <2>1, <2>2, <2>3, <2>4, PlanFresh DEF Begin
<1>4. ASSUME NEW t \in Requests, Step(t) PROVE FreshPlans'
  <2>1. CASE Sell(t) \/ Order(t) \/ Judge(t) \/ Pay(t)
    BY <2>1, CommitFresh DEF Sell, Order, Judge, Pay
  <2>2. CASE Compare(t)
    BY <1>1, <2>2 DEF Compare, docs
  <2>3. CASE PayTooMuch(t)
    BY <1>2, <2>3 DEF PayTooMuch
  <2> QED
    BY <1>4, <2>1, <2>2, <2>3, TakeFresh DEF Step
<1>5. CASE UNCHANGED vars
  BY <1>5 DEF vars, docs, FreshPlans, FreshPlan
<1> QED
  BY <1>2, <1>3, <1>4, <1>5 DEF Next, Finished, Lose
-----------------------------------------------------------------------------
\* A step that pays: of what t has planned, and only of that.
LEMMA OnlyPayAllocates ==
  ASSUME IInv, [Next]_vars, NEW i \in Invoices, inv'[i].allocated > inv[i].allocated
  PROVE  \E t \in Requests : Pay(t) /\ i \in DOMAIN work[t].plan
<1>1. inv[i].allocated \in Nat
  BY DEF IInv, Shape
<1>2. \/ inv' = inv
      \/ \E j \in Invoices : \E s : inv' = [inv EXCEPT ![j] = New(s)]
      \/ \E j \in Invoices : \E s : inv' = [inv EXCEPT ![j].status = s]
      \/ \E t \in Requests : Pay(t)
  <2>1. ASSUME NEW t \in Requests, Begin(t) \/ Step(t) \/ Lose(t) 
             PROVE  \/ inv' = inv
                    \/ \E j \in Invoices : \E s : inv' = [inv EXCEPT ![j] = New(s)]
                    \/ \E j \in Invoices : \E s : inv' = [inv EXCEPT ![j].status = s]
                    \/ \E u \in Requests : Pay(u)
    <3>1. CASE \/ CheckCredit(t) \/ RefuseBill(t) \/ LoadInvoice(t) \/ Plan(t) \/ Order(t)
               \/ Compare(t) \/ Take(t) \/ PayTooMuch(t) \/ Lose(t)
      BY <3>1 DEF CheckCredit, RefuseBill, LoadInvoice, Plan, Order, Compare, Take, PayTooMuch,
         Lose, Reject, docs
    <3>2. CASE BillDelivery(t) \/ EnterBill(t)
      BY <3>2, MenuAssumption DEF BillDelivery, EnterBill, IInv, TypeOK, Of
    <3>3. CASE Sell(t)
      BY <3>3 DEF Sell, IInv, ReadsHold, SaleIsNew, Of
    <3>4. CASE Judge(t)
      BY <3>4 DEF Judge, IInv, ReadsHold, BillIsThere, Of
    <3> QED
      BY <2>1, <3>1, <3>2, <3>3, <3>4 DEF Begin, Step
  <2> QED
    BY <2>1 DEF Next, Finished, vars, docs
<1>3. ASSUME NEW j \in Invoices, NEW s, inv' = [inv EXCEPT ![j] = New(s)] PROVE FALSE
  BY <1>1, <1>3 DEF IInv, Shape, New
<1>4. ASSUME NEW j \in Invoices, NEW s, inv' = [inv EXCEPT ![j].status = s] PROVE FALSE
  BY <1>1, <1>4 DEF IInv, Shape
<1>5. inv' # inv
  BY <1>1
<1>6. PICK t \in Requests : Pay(t)
  BY <1>2, <1>3, <1>4, <1>5
<1>7. i \notin DOMAIN work[t].plan => inv'[i] = inv[i]
  BY <1>6 DEF Pay
<1> QED
  BY <1>1, <1>6, <1>7

\* services/payments.py and services/matching.py: money goes to a blocked invoice only
\* if that payment itself overlaps with a commit.
THEOREM BlockedStaysUnpaid == Spec => BlockedNotPaid
<1>1. IInv /\ FreshPlans /\ [Next]_vars =>
        [\A i \in Invoices : inv[i].status = "BLOCKED" /\ inv'[i].allocated > inv[i].allocated
                               => \E t \in Requests : CommitsStale(t, "take")]_vars
  <2> SUFFICES ASSUME IInv, FreshPlans, [Next]_vars, NEW i \in Invoices,
                      inv[i].status = "BLOCKED", inv'[i].allocated > inv[i].allocated
               PROVE  \E t \in Requests : CommitsStale(t, "take")
    OBVIOUS
  <2>1. PICK t \in Requests : Pay(t) /\ i \in DOMAIN work[t].plan
    BY OnlyPayAllocates
  <2>2. t \in stale
    BY <2>1 DEF Pay, FreshPlans, FreshPlan, OpenStatuses
  <2>3. pc[t] = "take" /\ pc'[t] = "done"
    BY <2>1 DEF Pay, Committed, Goto, IInv, TypeOK
  <2> QED
    BY <2>2, <2>3 DEF CommitsStale
<1>2. Init => FreshPlans
  BY DEF Init, FreshPlans, FreshPlan
<1> QED
  BY <1>1, <1>2, NextFresh, Inductive, PTL DEF Spec, BlockedNotPaid
-----------------------------------------------------------------------------
\* What the books say of one invoice.
Agrees(i) ==
  /\ inv[i].paid = inv[i].allocated
  /\ inv[i].status = "PAID" => inv[i].paid = Terms[i].total
  /\ Terms[i].side = "customer" =>
       /\ inv[i].status \in {"ABSENT", "ISSUED"} <=> inv[i].paid = 0
       /\ inv[i].paid = Terms[i].total => inv[i].status = "PAID"

\* A payment that is not stale adds to what the invoices of its plan still say.
LEMMA PayAgrees ==
  ASSUME IInv, FreshPlans, \A i \in Invoices : Agrees(i), NEW t \in Requests, Pay(t), t \notin stale
  PROVE  \A i \in Invoices : Agrees(i)'
<1> DEFINE plan == work[t].plan
           seen == work[t].seen
<1>1. /\ pc[t] = "take" /\ DOMAIN seen = DOMAIN plan /\ TakenIsAllocated(t) /\ FreshPlan(t)
      /\ \A i \in DOMAIN plan : NewPaid(t, i) <= Terms[i].total
  BY DEF Pay, Untaken, IInv, ReadsHold, TakenIsAllocated, FreshPlans
<1>2. ASSUME NEW i \in Invoices, i \notin DOMAIN plan PROVE Agrees(i)'
  <2>1. inv'[i] = inv[i]
    BY <1>2 DEF Pay
  <2> QED
    BY <2>1 DEF Agrees
<1>3. ASSUME NEW i \in DOMAIN plan PROVE Agrees(i)'
  <2>1. /\ i \in Invoices /\ plan[i] \in Nat \ {0} /\ inv[i].paid \in Nat
        /\ inv[i].allocated = inv[i].paid /\ Terms[i].total \in Nat \ {0}
        /\ inv[i].status \in OpenStatuses /\ seen[i].status = inv[i].status
        /\ NewPaid(t, i) = inv[i].paid + plan[i] /\ NewPaid(t, i) <= Terms[i].total
    <3>1. /\ i \in Invoices /\ plan[i] \in Nat \ {0} /\ inv[i].status \in OpenStatuses
          /\ seen[i] = [paid |-> inv[i].paid, status |-> inv[i].status]
      BY <1>1 DEF TakenIsAllocated, IsPlan, FreshPlan
    <3>2. NewPaid(t, i) = inv[i].paid + plan[i]
      BY <3>1 DEF NewPaid
    <3> QED
      BY <1>1, <3>1, <3>2, TermsAssumption DEF IInv, Shape, Agrees
  <2>2. /\ inv'[i].status = NewPaymentStatus(t, i) /\ inv'[i].paid = NewPaid(t, i)
        /\ inv'[i].allocated = inv[i].allocated + plan[i]
    BY <2>1 DEF Pay
  <2>3. /\ NewPaid(t, i) = Terms[i].total => NewPaymentStatus(t, i) = "PAID"
        /\ NewPaid(t, i) # Terms[i].total =>
             NewPaymentStatus(t, i) = IF Terms[i].side = "customer" THEN "PARTIALLY_PAID"
                                      ELSE inv[i].status
    BY <2>1 DEF NewPaymentStatus
  <2>4. inv'[i].status \notin {"ABSENT", "ISSUED"} \/ Terms[i].side # "customer"
    BY <2>2, <2>3
  <2> QED
    BY <2>1, <2>2, <2>3, <2>4 DEF Agrees, OpenStatuses
<1> QED
  BY <1>2, <1>3

\* Only payments, sales, bills and matches write; none of them breaks the books.
LEMMA NextBooksAgree == IInv /\ FreshPlans /\ BooksAgree /\ [Next]_vars => BooksAgree'
<1> SUFFICES ASSUME IInv, FreshPlans, BooksAgree, [Next]_vars, "take" \notin raced'
             PROVE  \A i \in Invoices : Agrees(i)'
  BY DEF BooksAgree, Agrees
<1>1. ASSUME "take" \notin raced, inv' = inv PROVE \A i \in Invoices : Agrees(i)'
  BY <1>1 DEF BooksAgree, Agrees
<1>2. ASSUME "take" \notin raced, NEW j \in Invoices, NEW s \in {"ISSUED", "RECEIVED"},
             inv' = [inv EXCEPT ![j] = New(s)], Terms[j].side = "customer" => s = "ISSUED"
      PROVE  \A i \in Invoices : Agrees(i)'
  <2>1. inv'[j] = New(s) /\ \A i \in Invoices \ {j} : inv'[i] = inv[i]
    BY <1>2 DEF IInv, Shape
  <2>2. Agrees(j)'
    BY <1>2, <2>1, TermsAssumption DEF Agrees, New
  <2>3. \A i \in Invoices \ {j} : Agrees(i)'
    BY <1>2, <2>1 DEF BooksAgree, Agrees
  <2> QED
    BY <2>2, <2>3
<1>3. ASSUME "take" \notin raced, NEW j \in Of("supplier"), NEW s, inv' = [inv EXCEPT ![j].status = s],
             s = "PAID" => inv[j].status = "PAID"
      PROVE  \A i \in Invoices : Agrees(i)'
  <2>1. /\ inv'[j].status = s /\ inv'[j].paid = inv[j].paid /\ inv'[j].allocated = inv[j].allocated
        /\ \A i \in Invoices \ {j} : inv'[i] = inv[i]
    BY <1>3 DEF IInv, Shape, Of
  <2>2. Agrees(j)'
    BY <1>3, <2>1 DEF BooksAgree, Agrees, Of
  <2>3. \A i \in Invoices \ {j} : Agrees(i)'
    BY <1>3, <2>1 DEF BooksAgree, Agrees
  <2> QED
    BY <2>2, <2>3
<1>4. ASSUME NEW t \in Requests, Begin(t) \/ Step(t) \/ Lose(t)
      PROVE  \A i \in Invoices : Agrees(i)'
  <2>1. CASE \/ CheckCredit(t) \/ RefuseBill(t) \/ LoadInvoice(t) \/ Plan(t) \/ Order(t)
             \/ Compare(t) \/ Take(t) \/ PayTooMuch(t) \/ Lose(t)
    BY <1>1, <2>1 DEF CheckCredit, RefuseBill, LoadInvoice, Plan, Order, Compare, Take, PayTooMuch,
       Lose, Reject, docs, Committed
  <2>2. CASE BillDelivery(t)
    BY <1>2, <2>2 DEF BillDelivery, Committed, IInv, TypeOK, Of
  <2>3. CASE EnterBill(t)
    BY <1>2, <2>3, MenuAssumption DEF EnterBill, Committed, Of
  <2>4. CASE Sell(t)
    BY <1>2, <2>4 DEF Sell, Committed, IInv, ReadsHold, SaleIsNew, Of
  <2>5. CASE Judge(t)
    <3> DEFINE i == work[t].inv
               status == StatusFor(work[t].verdict, work[t].seen)
               new == IF status = work[t].seen THEN inv[i].status ELSE status
    <3>1. "take" \notin raced /\ i \in Of("supplier") /\ work[t].verdict \in Verdicts
          /\ inv' = [inv EXCEPT ![i].status = new]
      BY <2>5 DEF Judge, Committed, IInv, ReadsHold, BillIsThere
    <3>2. status # work[t].seen => status # "PAID"
      BY <3>1 DEF StatusFor, Verdicts
    <3>3. new = "PAID" => inv[i].status = "PAID"
      BY <3>2
    <3> HIDE DEF new, i
    <3> QED
      BY <1>3, <3>1, <3>3
  <2>6. CASE Pay(t)
    <3>1. "take" \notin raced /\ t \notin stale
      BY <2>6 DEF Pay, Committed
    <3> QED
      BY <2>6, <3>1, PayAgrees DEF BooksAgree, Agrees
  <2> QED
    BY <1>4, <2>1, <2>2, <2>3, <2>4, <2>5, <2>6 DEF Begin, Step
<1>5. CASE UNCHANGED vars
  BY <1>1, <1>5 DEF vars, docs
<1> QED
  BY <1>4, <1>5 DEF Next, Finished

\* services/payments.py: until a stale payment commits, amount_paid is the sum of the
\* allocations and the statuses say how far the invoices are paid.
THEOREM BooksAgreeUnlessRaced == Spec => []BooksAgree
<1>1. Init => FreshPlans /\ BooksAgree
  <2> SUFFICES ASSUME Init PROVE FreshPlans /\ BooksAgree
    OBVIOUS
  <2>1. FreshPlans
    BY DEF Init, FreshPlans, FreshPlan
  <2>2. PICK o \in Openings : inv = o.inv
    BY DEF Init
  <2>3. \A i \in Invoices : Agrees(i)
    BY <2>2, OpeningsAssumption, TermsAssumption DEF Agrees, New, Of
  <2> QED
    BY <2>1, <2>3 DEF BooksAgree, Agrees
<1> QED
  BY <1>1, NextFresh, NextBooksAgree, Inductive, PTL DEF Spec
-----------------------------------------------------------------------------
\* What each customer's invoice has left to pay, and what it counts as debt.
Open == {i \in Of("customer") : inv[i].status \notin {"ABSENT", "PAID", "VOID"}}
Unpaid == [i \in Of("customer") |-> Terms[i].total - inv[i].paid]
Owes == [i \in Of("customer") |-> IF Exists(i) THEN Terms[i].total - inv[i].paid ELSE 0]

\* The sums of the credit check and of the property are totals.
LEMMA CustomersFinite == IsFiniteSet(Of("customer")) /\ IsFiniteSet(Open)
BY LimitAssumption, FS_Subset DEF Of, Open

ExposureTotals == (\A i \in Of("customer") : Unpaid[i] \in Int) => Exposure = Total(Unpaid, Open)
DebtTotals == (\A i \in Of("customer") : Owes[i] \in Int) => Debt = Total(Owes, Of("customer"))

LEMMA ExposureIsTotal == ExposureTotals
<1> SUFFICES ASSUME \A i \in Of("customer") : Unpaid[i] \in Int
             PROVE  Exposure = Total(Unpaid, Open)
  BY DEF ExposureTotals
<1> DEFINE Body(h, T) == IF T = {} THEN 0
             ELSE (Terms[CHOOSE x \in T : TRUE].total - inv[CHOOSE x \in T : TRUE].paid)
                  + h[T \ {CHOOSE x \in T : TRUE}]
           Over(h, T) == IF T = {} THEN 0
             ELSE Unpaid[CHOOSE x \in T : TRUE] + h[T \ {CHOOSE x \in T : TRUE}]
           g == CHOOSE h : h = [T \in SUBSET Open |-> Body(h, T)]
<1>1. IsFiniteSet(Open) /\ \A i \in Open : Unpaid[i] \in Int
  BY CustomersFinite DEF Open
<1>2. \A k : IsSum(k, Unpaid, Open) <=> k = [T \in SUBSET Open |-> Body(k, T)]
  <2>1. ASSUME NEW k, NEW T \in SUBSET Open PROVE Body(k, T) = Over(k, T)
    <3>1. T # {} => (CHOOSE x \in T : TRUE) \in Of("customer")
      BY DEF Open
    <3>2. QED
      BY <3>1 DEF Unpaid
  <2>2. \A k : IsSum(k, Unpaid, Open) <=> k = [T \in SUBSET Open |-> Over(k, T)]
    BY DEF IsSum
  <2> HIDE DEF Body, Over
  <2>3. ASSUME NEW k
        PROVE  [T \in SUBSET Open |-> Over(k, T)] = [T \in SUBSET Open |-> Body(k, T)]
    BY <2>1
  <2>4. QED
    BY <2>2, <2>3
<1>3. IsSum(g, Unpaid, Open)
  <2>1. \E k : IsSum(k, Unpaid, Open)
    BY <1>1, SumExists
  <2> HIDE DEF Body
  <2>2. QED
    BY <1>2, <2>1
<1>4. Exposure = g[Open]
  BY DEF Exposure, MapThenSumSet, MapThenFoldSet, Open
<1>5. QED
  <2> HIDE DEF g
  <2> QED BY <1>1, <1>3, <1>4, SumIsTotal

LEMMA DebtIsTotal == DebtTotals
<1> SUFFICES ASSUME \A i \in Of("customer") : Owes[i] \in Int
             PROVE  Debt = Total(Owes, Of("customer"))
  BY DEF DebtTotals
<1> DEFINE C == Of("customer")
           Body(h, T) == IF T = {} THEN 0
             ELSE (IF Exists(CHOOSE x \in T : TRUE)
                     THEN Terms[CHOOSE x \in T : TRUE].total - inv[CHOOSE x \in T : TRUE].paid
                     ELSE 0)
                  + h[T \ {CHOOSE x \in T : TRUE}]
           Over(h, T) == IF T = {} THEN 0
             ELSE Owes[CHOOSE x \in T : TRUE] + h[T \ {CHOOSE x \in T : TRUE}]
           g == CHOOSE h : h = [T \in SUBSET C |-> Body(h, T)]
<1>1. IsFiniteSet(C)
  BY CustomersFinite
<1>2. \A k : IsSum(k, Owes, C) <=> k = [T \in SUBSET C |-> Body(k, T)]
  <2>1. ASSUME NEW k, NEW T \in SUBSET C PROVE Body(k, T) = Over(k, T)
    <3>1. T # {} => (CHOOSE x \in T : TRUE) \in C
      OBVIOUS
    <3>2. QED
      BY <3>1 DEF Owes
  <2>2. \A k : IsSum(k, Owes, C) <=> k = [T \in SUBSET C |-> Over(k, T)]
    BY DEF IsSum
  <2> HIDE DEF Body, Over
  <2>3. ASSUME NEW k
        PROVE  [T \in SUBSET C |-> Over(k, T)] = [T \in SUBSET C |-> Body(k, T)]
    BY <2>1
  <2>4. QED
    BY <2>2, <2>3
<1>3. IsSum(g, Owes, C)
  <2>1. \E k : IsSum(k, Owes, C)
    BY <1>1, SumExists
  <2> HIDE DEF Body
  <2>2. QED
    BY <1>2, <2>1
<1>4. Debt = g[C]
  BY DEF Debt, MapThenSumSet, MapThenFoldSet
<1>5. QED
  <2> HIDE DEF g
  <2> QED BY <1>1, <1>3, <1>4, SumIsTotal

\* While the books agree, the check counts what the customer owes: an invoice
\* that is paid or absent leaves nothing.
LEMMA ExposureIsDebt ==
  ASSUME IInv, \A i \in Invoices : Agrees(i)
  PROVE  Exposure = Debt /\ Debt \in Int
<1> DEFINE C == Of("customer")
<1>1. \A i \in C : Unpaid[i] \in Int /\ Owes[i] \in Int
  BY TermsAssumption DEF Unpaid, Owes, IInv, Shape, Of
<1>2. \A i \in C \ Open : Owes[i] = 0
  BY TermsAssumption DEF Owes, Open, Agrees, Exists, IInv, Shape, TypeOK, Statuses, Of
<1>3. \A i \in Open : i \in C /\ Owes[i] = Unpaid[i]
  BY DEF Owes, Unpaid, Open, Exists
<1>4. Total(Unpaid, Open) = Total(Owes, Open)
  BY <1>1, <1>3, CustomersFinite, TotalAgree
<1>5. Total(Owes, C) = Total(Owes, Open)
  BY <1>1, <1>2, CustomersFinite, TotalRest DEF Open
<1>6. QED
  BY <1>1, <1>4, <1>5, CustomersFinite, ExposureIsTotal, DebtIsTotal, TotalType
     DEF ExposureTotals, DebtTotals
-----------------------------------------------------------------------------
\* As long as nobody has committed since t checked the credit, there is room for
\* its sale.
RoomForSale(t) ==
  pc[t] = "sell" /\ t \notin stale => Exposure + Terms[work[t]].total <= Limit
RoomForSales == \A t \in Requests : RoomForSale(t)

\* A commit makes everybody else stale, and nothing else writes.
LEMMA CommitRoom ==
  ASSUME IInv, NEW t \in Requests, Committed(t)
  PROVE  RoomForSales'
<1>1. /\ pc'[t] = "done" /\ stale' = (stale \cup {u \in Requests : IsOpen(u)}) \ {t}
      /\ \A u \in Requests \ {t} : pc'[u] = pc[u]
  BY DEF Committed, Goto, IInv, TypeOK
<1> QED
  BY <1>1 DEF RoomForSales, RoomForSale, IsOpen

\* Exposure is a matter of the invoices.
LEMMA SameExposure == ASSUME IInv, inv' = inv PROVE Exposure' = Exposure
<1>1. \A i \in Of("customer") : Unpaid[i] \in Int
  BY TermsAssumption DEF Unpaid, IInv, Shape, Of
<1>2. Unpaid' = Unpaid /\ Open' = Open
  BY DEF Unpaid, Open
<1>3. ExposureTotals'
  BY ExposureIsTotal, PTL
<1> QED
  BY <1>1, <1>2, <1>3, ExposureIsTotal DEF ExposureTotals

\* A step that writes no document leaves room for those that have checked.
LEMMA ReadRoom ==
  ASSUME IInv, RoomForSales, NEW t \in Requests, NEW where, NEW what, Goto(t, where, what),
         UNCHANGED docs, stale \ {t} \subseteq stale', RoomForSale(t)'
  PROVE  RoomForSales'
<1>1. \A u \in Requests \ {t} : pc'[u] = pc[u] /\ work'[u] = work[u]
  BY DEF Goto, IInv, Shape, TypeOK
<1>2. Exposure' = Exposure
  BY SameExposure DEF docs
<1> QED
  BY <1>1, <1>2 DEF RoomForSales, RoomForSale

LEMMA CheckRoom ==
  ASSUME IInv, RoomForSales, NEW t \in Requests, CheckCredit(t)
  PROVE  RoomForSales'
<1>1. PICK m \in Menu :
        /\ m.op \in {"SELL", "ORDER"} /\ m.inv \in Of("customer")
        /\ IF Exposure + Terms[m.inv].total > Limit THEN Goto(t, "rejected", << >>)
           ELSE Goto(t, IF m.op = "SELL" THEN "sell" ELSE "order", m.inv)
  BY MenuAssumption DEF CheckCredit
<1>2. UNCHANGED docs /\ stale' = stale /\ Exposure' = Exposure
  BY SameExposure DEF CheckCredit, docs
<1>3. CASE Exposure + Terms[m.inv].total > Limit
  <2>1. Goto(t, "rejected", << >>)
    BY <1>1, <1>3
  <2>2. RoomForSale(t)'
    BY <2>1 DEF Goto, IInv, TypeOK, RoomForSale
  <2> QED
    BY <1>2, <2>1, <2>2, ReadRoom
<1>4. CASE ~(Exposure + Terms[m.inv].total > Limit)
  <2>1. PICK where : Goto(t, where, m.inv)
    BY <1>1, <1>4
  <2>2. Exposure \in Int /\ Terms[m.inv].total \in Int
    <3>1. \A i \in Of("customer") : Unpaid[i] \in Int
      BY TermsAssumption DEF Unpaid, IInv, Shape, Of
    <3>2. Terms[m.inv].total \in Int
      BY <1>1, TermsAssumption DEF Of
    <3> QED
      BY <3>1, <3>2, CustomersFinite, ExposureIsTotal, TotalType
         DEF Open, ExposureTotals
  <2>3. Exposure + Terms[m.inv].total <= Limit
    BY <1>4, <2>2, LimitAssumption
  <2>4. work'[t] = m.inv
    BY <2>1 DEF Goto, IInv, Shape
  <2>5. RoomForSale(t)'
    BY <1>2, <2>3, <2>4 DEF RoomForSale
  <2> QED
    BY <1>2, <2>1, <2>5, ReadRoom
<1> QED
  BY <1>3, <1>4

LEMMA NextRoom == IInv /\ RoomForSales /\ [Next]_vars => RoomForSales'
<1> SUFFICES ASSUME IInv, RoomForSales, [Next]_vars PROVE RoomForSales'
  OBVIOUS
<1>1. ASSUME NEW t \in Requests, NEW where, NEW what, Goto(t, where, what), where # "sell",
             UNCHANGED docs, stale \ {t} \subseteq stale'
      PROVE  RoomForSales'
  <2>1. RoomForSale(t)'
    BY <1>1 DEF Goto, IInv, TypeOK, RoomForSale
  <2> QED
    BY <1>1, <2>1, ReadRoom
<1>2. ASSUME NEW t \in Requests, Reject(t) PROVE RoomForSales'
  BY <1>1, <1>2 DEF Reject
<1>3. ASSUME NEW t \in Requests, Begin(t) PROVE RoomForSales'
  <2>1. CASE BillDelivery(t) \/ EnterBill(t)
    BY <2>1, CommitRoom DEF BillDelivery, EnterBill
  <2>2. CASE RefuseBill(t)
    BY <1>2, <2>2 DEF RefuseBill
  <2>3. CASE LoadInvoice(t) \/ Plan(t)
    BY <1>1, <2>3 DEF LoadInvoice, Plan, docs
  <2> QED
    BY <1>3, <2>1, <2>2, <2>3, CheckRoom DEF Begin
<1>4. ASSUME NEW t \in Requests, Step(t) PROVE RoomForSales'
  <2>1. CASE Sell(t) \/ Order(t) \/ Judge(t) \/ Pay(t)
    BY <2>1, CommitRoom DEF Sell, Order, Judge, Pay
  <2>2. CASE Compare(t) \/ Take(t)
    <3>1. PICK what : \E where \in {"judge", "take"} : Goto(t, where, what)
      <4>1. CASE Compare(t)
        BY <4>1, Zenon DEF Compare
      <4>2. CASE Take(t)
        BY <4>2, Zenon DEF Take
      <4> QED
        BY <2>2, <4>1, <4>2
    <3> QED
      BY <1>1, <2>2, <3>1 DEF Compare, Take, docs
  <2>3. CASE PayTooMuch(t)
    BY <1>2, <2>3 DEF PayTooMuch
  <2> QED
    BY <1>4, <2>1, <2>2, <2>3 DEF Step
<1>5. CASE UNCHANGED vars
  <2>1. Exposure' = Exposure
    BY <1>5, SameExposure DEF vars, docs
  <2> QED
    BY <1>5, <2>1 DEF vars, RoomForSales, RoomForSale
<1> QED
  BY <1>2, <1>3, <1>4, <1>5 DEF Next, Finished, Lose

\* Only a sale makes a customer's invoice that no order has promised.
LEMMA OnlySalesBill ==
  ASSUME IInv, [Next]_vars, NEW i \in Of("customer") \ ordered, ~Exists(i),
         inv'[i].status = "ISSUED"
  PROVE  \E t \in Requests : Sell(t) /\ work[t] = i
<1>1. inv'[i] # inv[i] /\ i \in Invoices
  BY DEF Exists, Of
<1>2. ASSUME NEW t \in Requests, Begin(t) \/ Step(t) \/ Lose(t) PROVE Sell(t) /\ work[t] = i
  <2>1. CASE \/ CheckCredit(t) \/ RefuseBill(t) \/ LoadInvoice(t) \/ Plan(t) \/ Order(t)
             \/ Compare(t) \/ Take(t) \/ PayTooMuch(t) \/ Lose(t)
    BY <1>1, <2>1 DEF CheckCredit, RefuseBill, LoadInvoice, Plan, Order, Compare, Take, PayTooMuch,
       Lose, Reject, docs
  <2>2. CASE BillDelivery(t)
    BY <1>1, <2>2 DEF BillDelivery, IInv, Shape
  <2>3. CASE EnterBill(t)
    BY <1>1, <2>3, MenuAssumption DEF EnterBill, Of, IInv, Shape
  <2>4. CASE Sell(t)
    BY <1>1, <2>4 DEF Sell, IInv, Shape
  <2>5. CASE Judge(t)
    BY <1>1, <2>5 DEF Judge, IInv, ReadsHold, BillIsThere, Of, Shape
  <2>6. CASE Pay(t)
    BY <1>1, <2>6 DEF Pay, IInv, ReadsHold, TakenIsAllocated
  <2> QED
    BY <1>2, <2>1, <2>2, <2>3, <2>4, <2>5, <2>6 DEF Begin, Step
<1> QED
  BY <1>1, <1>2 DEF Next, Finished, vars, docs

\* A sale adds its total to the debt.
LEMMA SaleAddsItsTotal ==
  ASSUME IInv, NEW t \in Requests, Sell(t)
  PROVE  Debt' = Debt + Terms[work[t]].total
<1> DEFINE C == Of("customer")
<1>1. PICK i : i = work[t]
  OBVIOUS
<1>2. i \in C /\ i \in Invoices /\ ~Exists(i) /\ inv' = [inv EXCEPT ![i] = New("ISSUED")]
  BY <1>1 DEF Sell, IInv, ReadsHold, SaleIsNew, Of
<1>3. PICK f : f = Owes
  OBVIOUS
<1>4. PICK h : h = Owes'
  OBVIOUS
<1>5. \A j \in C : f[j] \in Int /\ h[j] \in Int
  BY <1>2, <1>3, <1>4, TermsAssumption DEF Owes, IInv, Shape, Of, New
<1>6. \A j \in C \ {i} : f[j] = h[j]
  BY <1>2, <1>3, <1>4 DEF Owes, IInv, Shape, Of, Exists
<1>7. f[i] = 0 /\ h[i] = Terms[i].total
  BY <1>2, <1>3, <1>4, TermsAssumption DEF Owes, IInv, Shape, Of, Exists, New
<1>8. Total(h, C) = Total(f, C) + (h[i] - f[i])
  <2>1. IsFiniteSet(C)
    BY CustomersFinite
  <2> HIDE DEF C
  <2> QED
    BY ONLY <1>2, <1>5, <1>6, <2>1, TotalChange
<1>9. Debt = Total(f, C)
  BY <1>3, <1>5, DebtIsTotal DEF DebtTotals
<1>10. Debt' = Total(h, C)
  <2>1. DebtTotals'
    BY DebtIsTotal, PTL
  <2> QED
    BY <1>4, <1>5, <2>1 DEF DebtTotals
<1>11. Total(f, C) \in Int /\ Terms[i].total \in Int
  BY <1>2, <1>5, CustomersFinite, TotalType, TermsAssumption
<1> QED
  BY <1>1, <1>7, <1>8, <1>9, <1>10, <1>11

\* services/sales.py, _check_credit and create_counter_sale: a sale leaves the customer
\* within the limit, unless it overlaps with a commit itself or a payment has.
THEOREM CreditIsHeld == Spec => CreditHeld
<1>1. IInv /\ RoomForSales /\ BooksAgree /\ [Next]_vars =>
        [\A i \in Of("customer") \ ordered :
           ~Exists(i) /\ inv'[i].status = "ISSUED" =>
             Debt' <= Limit \/ "take" \in raced \/ \E t \in Requests : CommitsStale(t, "sell")]_vars
  <2> SUFFICES ASSUME IInv, RoomForSales, BooksAgree, [Next]_vars,
                      NEW i \in Of("customer") \ ordered, ~Exists(i),
                      inv'[i].status = "ISSUED", "take" \notin raced,
                      ~ \E t \in Requests : CommitsStale(t, "sell")
               PROVE  Debt' <= Limit
    OBVIOUS
  <2>1. PICK t \in Requests : Sell(t) /\ work[t] = i
    BY OnlySalesBill
  <2>2. t \notin stale /\ pc[t] = "sell"
    BY <2>1 DEF Sell, Committed, Goto, CommitsStale, IInv, TypeOK
  <2>3. Exposure + Terms[i].total <= Limit
    BY <2>1, <2>2 DEF RoomForSales, RoomForSale
  <2>4. \A j \in Invoices : Agrees(j)
    BY DEF BooksAgree, Agrees
  <2> QED
    BY <2>1, <2>3, <2>4, ExposureIsDebt, SaleAddsItsTotal
<1>2. Init => FreshPlans /\ BooksAgree /\ RoomForSales
  <2> SUFFICES ASSUME Init PROVE FreshPlans /\ BooksAgree /\ RoomForSales
    OBVIOUS
  <2>1. FreshPlans /\ RoomForSales
    BY DEF Init, FreshPlans, FreshPlan, RoomForSales, RoomForSale
  <2>2. PICK o \in Openings : inv = o.inv
    BY DEF Init
  <2>3. \A i \in Invoices : Agrees(i)
    BY <2>2, OpeningsAssumption, TermsAssumption DEF Agrees, New, Of
  <2> QED
    BY <2>1, <2>3 DEF BooksAgree, Agrees
<1> QED
  BY <1>1, <1>2, NextFresh, NextBooksAgree, NextRoom, Inductive, PTL DEF Spec, CreditHeld
-----------------------------------------------------------------------------
\* A line all of whose figures are amounts.
IsLine(line) ==
  /\ line.accepted \in Nat /\ line.agreed \in Nat /\ line.quantity \in Nat
  /\ line.price \in Nat /\ line.total \in Nat

LEMMA ApprovedHasNoCodes ==
  ASSUME NEW lines, NEW flags, NEW tol, Verdict(lines, flags, tol) = "AUTO_APPROVE"
  PROVE  /\ \A line \in lines : Codes(line, tol) = {}
         /\ "UNMATCHED_INVOICE_LINE" \notin Flags(flags)
<1> DEFINE codes == AllCodes(lines, flags, tol)
<1>1. ~(codes \cap (Structural \cup {"DUPLICATE_INVOICE_SUSPECTED"}) # {})
  BY DEF Verdict
<1>2. ~(\E line \in lines : Codes(line, tol) # {})
  BY <1>1 DEF Verdict
<1>3. "UNMATCHED_INVOICE_LINE" \notin codes
  BY <1>1 DEF Structural
<1> QED
  BY <1>2, <1>3 DEF AllCodes

\* services/matching.py, evaluate_three_way_match: an invoice is approved
\* automatically only if all three documents have each of its lines, the quantity
\* is within 2% of what was accepted, the price within 1% of what was agreed, and
\* the amount within a hundred rupees of the two.
THEOREM ApprovedLinesAgree ==
  ASSUME NEW lines, NEW flags, Verdict(lines, flags, DefaultTolerances) = "AUTO_APPROVE",
         NEW line \in lines, IsLine(line)
  PROVE  /\ {"po", "grn", "inv"} \subseteq line.on
         /\ 50 * line.quantity \in 49 * line.accepted .. 51 * line.accepted
         /\ 100 * line.price \in 99 * line.agreed .. 101 * line.agreed
         /\ Size(line.total - line.accepted * line.agreed) <= 100
<1> DEFINE tol == DefaultTolerances
<1>1. Missing(line) = {} /\ Variances(line, tol) = {}
  BY ApprovedHasNoCodes DEF Codes
<1>2. "po" \in line.on /\ "grn" \in line.on /\ "inv" \in line.on
  BY <1>1, Zenon DEF Missing
<1>3. /\ WithinPct(Billed(line), Accepted(line), tol.qty)
      /\ PriceWithin(line, tol.price)
      /\ Size(Amount(line) - Expected(line)) <= tol.amount
  BY <1>1, Zenon DEF Variances
<1>4. /\ WithinPct(line.quantity, line.accepted, 2) /\ WithinPct(line.price, line.agreed, 1)
      /\ Size(line.total - line.accepted * line.agreed) <= 100
  BY <1>2, <1>3 DEF Billed, Accepted, PriceWithin, Amount, Expected, DefaultTolerances
<1>5. 50 * line.quantity \in 49 * line.accepted .. 51 * line.accepted
  <2>1. PICK q \in Nat, a \in Nat : q = line.quantity /\ a = line.accepted
    BY DEF IsLine
  <2>2. WithinPct(q, a, 2)
    BY <1>4, <2>1
  <2>3. IF a = 0 THEN q = 0 ELSE 100 * (q - a) <= 2 * a /\ 100 * (a - q) <= 2 * a
    BY <2>2 DEF WithinPct, Size
  <2> QED
    BY <2>1, <2>3
<1>6. 100 * line.price \in 99 * line.agreed .. 101 * line.agreed
  <2>1. PICK q \in Nat, a \in Nat : q = line.price /\ a = line.agreed
    BY DEF IsLine
  <2>2. WithinPct(q, a, 1)
    BY <1>4, <2>1
  <2>3. IF a = 0 THEN q = 0 ELSE 100 * (q - a) <= a /\ 100 * (a - q) <= a
    BY <2>2 DEF WithinPct, Size
  <2> QED
    BY <2>1, <2>3
<1> QED
  BY <1>2, <1>4, <1>5, <1>6

\* The last row of a product in a document.
LEMMA LastRow ==
  ASSUME NEW rows, NEW len \in Nat, DOMAIN rows = 1..len
  PROVE  \A p : Has(rows, p) =>
           \E n \in DOMAIN rows : Row(rows, p) = rows[n] /\ rows[n].product = p
<1> SUFFICES ASSUME NEW p, Has(rows, p)
             PROVE  \E n \in DOMAIN rows : Row(rows, p) = rows[n] /\ rows[n].product = p
  OBVIOUS
<1> DEFINE at == {k \in DOMAIN rows : rows[k].product = p}
           far == {len - k : k \in at}
<1>1. at \subseteq 1..len /\ at # {}
  BY DEF Has
<1>2. far \in SUBSET Nat /\ far # {}
  BY <1>1
<1>3. PICK m \in far : \A k \in far : m <= k
  <2> HIDE DEF far
  <2> QED
    BY <1>2, LeastNatural
<1>4. PICK n \in at : m = len - n
  OBVIOUS
<1>5. \A k \in at : n >= k
  <2> SUFFICES ASSUME NEW k \in at PROVE n >= k
    OBVIOUS
  <2>1. len - n <= len - k
    BY <1>3, <1>4
  <2> QED
    BY <1>1, <1>4, <2>1
<1>6. Max(at) \in at /\ \A k \in at : Max(at) >= k
  <2> HIDE DEF at
  <2> QED
    BY <1>4, <1>5 DEF Max
<1> QED
  BY <1>6 DEF Row

\* Three documents whose rows name members of Product.
Papers(Product, order, receipt, bill) ==
  /\ order \in Seq([product: Product, price: Nat])
  /\ receipt \in Seq([product: Product, accepted: Nat])
  /\ bill \in Seq([product: Product, quantity: Nat, price: Nat, total: Nat])

\* The bill exceeds what is due for its rows by no more than a hundred rupees each.
WithinDue(order, receipt, bill) ==
  Total([n \in DOMAIN bill |-> bill[n].total], DOMAIN bill)
    <= Total([n \in DOMAIN bill |->
                Row(receipt, bill[n].product).accepted * Row(order, bill[n].product).price + 100],
             DOMAIN bill)

\* services/matching.py, match_three_way: an invoice that names each product once and
\* is approved automatically exceeds what was accepted, at the prices of the order, by
\* at most a hundred rupees a line.
THEOREM ApprovedBillIsDue ==
  ASSUME NEW Product, NEW order, NEW receipt, NEW bill, Papers(Product, order, receipt, bill),
         ~NamesTwice(bill), NEW flags, flags.unmatched = Has(bill, "NONE"),
         Verdict(MatchLines(order, receipt, bill), flags, DefaultTolerances) = "AUTO_APPROVE"
  PROVE  /\ \A n \in DOMAIN bill : Has(receipt, bill[n].product) /\ Has(order, bill[n].product)
         /\ WithinDue(order, receipt, bill)
<1>0. /\ order \in Seq([product: Product, price: Nat])
      /\ receipt \in Seq([product: Product, accepted: Nat])
      /\ bill \in Seq([product: Product, quantity: Nat, price: Nat, total: Nat])
      /\ \A m, n \in DOMAIN bill : bill[m].product = bill[n].product => m = n
  BY DEF Papers, NamesTwice
<1> DEFINE billed == [n \in DOMAIN bill |-> bill[n].total]
           due(n) == Row(receipt, bill[n].product).accepted * Row(order, bill[n].product).price
           dues == [n \in DOMAIN bill |-> due(n) + 100]
<1>1. /\ Len(order) \in Nat /\ DOMAIN order = 1..Len(order)
      /\ Len(receipt) \in Nat /\ DOMAIN receipt = 1..Len(receipt)
      /\ Len(bill) \in Nat /\ DOMAIN bill = 1..Len(bill)
  BY <1>0
<1>2. /\ \A k \in DOMAIN order : order[k].price \in Nat
      /\ \A k \in DOMAIN receipt : receipt[k].accepted \in Nat
      /\ \A k \in DOMAIN bill :
           bill[k].quantity \in Nat /\ bill[k].price \in Nat /\ bill[k].total \in Nat
  <2>1. ASSUME NEW R, NEW s \in Seq(R) PROVE \A k \in DOMAIN s : s[k] \in R
    OBVIOUS
  <2>2. \A k \in DOMAIN order : order[k] \in [product: Product, price: Nat]
    BY ONLY <1>0, <2>1, Zenon
  <2>3. \A k \in DOMAIN receipt : receipt[k] \in [product: Product, accepted: Nat]
    BY ONLY <1>0, <2>1, Zenon
  <2>4. \A k \in DOMAIN bill :
          bill[k] \in [product: Product, quantity: Nat, price: Nat, total: Nat]
    BY ONLY <1>0, <2>1, Zenon
  <2> QED
    BY <2>2, <2>3, <2>4
<1>3. \A p : Has(order, p) =>
        \E j \in DOMAIN order : Row(order, p) = order[j] /\ order[j].product = p
  <2>1. PICK len \in Nat : DOMAIN order = 1..len
    BY <1>1
  <2> QED
    BY <2>1, LastRow
<1>4. \A p : Has(receipt, p) =>
        \E j \in DOMAIN receipt : Row(receipt, p) = receipt[j] /\ receipt[j].product = p
  <2>1. PICK len \in Nat : DOMAIN receipt = 1..len
    BY <1>1
  <2> QED
    BY <2>1, LastRow
<1>5. \A p : Has(bill, p) =>
        \E j \in DOMAIN bill : Row(bill, p) = bill[j] /\ bill[j].product = p
  <2>1. PICK len \in Nat : DOMAIN bill = 1..len
    BY <1>1
  <2> QED
    BY <2>1, LastRow
<1>6. ~Has(bill, "NONE")
  <2>1. "UNMATCHED_INVOICE_LINE" \notin Flags(flags)
    BY ApprovedHasNoCodes
  <2> QED
    BY <2>1, Zenon DEF Flags
<1>7. ASSUME NEW n \in DOMAIN bill
      PROVE  /\ Has(receipt, bill[n].product) /\ Has(order, bill[n].product)
             /\ bill[n].total \in Nat /\ due(n) \in Nat /\ bill[n].total <= due(n) + 100
  <2> DEFINE p == bill[n].product
             line == MatchLine(order, receipt, bill, p)
  <2>1. p # "NONE" /\ Has(bill, p) /\ bill[n].total \in Nat
    BY <1>6, <1>2 DEF Has
  <2>2. line \in MatchLines(order, receipt, bill)
    BY <2>1 DEF MatchLines, ProductsOf
  <2>3. Codes(line, DefaultTolerances) = {}
    BY <2>2, ApprovedHasNoCodes
  <2>4. {"po", "grn", "inv"} \subseteq line.on
    BY <2>3, Zenon DEF Codes, Missing
  <2>5. Has(receipt, p) /\ Has(order, p)
    BY <2>4 DEF MatchLine
  <2>6. PICK i \in DOMAIN bill : Row(bill, p) = bill[i] /\ bill[i].product = p
    BY <1>5, <2>1
  <2>7. Row(bill, p) = bill[n]
    BY <1>0, <2>6
  <2>8. PICK j \in DOMAIN receipt : Row(receipt, p) = receipt[j]
    BY <1>4, <2>5
  <2>9. PICK k \in DOMAIN order : Row(order, p) = order[k]
    BY <1>3, <2>5
  <2>10. /\ line.accepted = receipt[j].accepted /\ line.agreed = order[k].price
         /\ line.quantity = bill[n].quantity /\ line.price = bill[n].price
         /\ line.total = bill[n].total
    BY <2>1, <2>5, <2>7, <2>8, <2>9 DEF MatchLine
  <2>11. receipt[j].accepted \in Nat /\ order[k].price \in Nat
    BY <1>2
  <2>12. IsLine(line)
    BY <1>2, <2>10, <2>11 DEF IsLine
  <2>13. Size(line.total - line.accepted * line.agreed) <= 100
    BY <2>2, <2>12, ApprovedLinesAgree
  <2>14. PICK t \in Nat, d \in Nat : t = bill[n].total /\ d = due(n)
    <3>1. PICK a \in Nat, b \in Nat : a = receipt[j].accepted /\ b = order[k].price
      BY <2>11
    <3>2. a * b \in Nat
      OBVIOUS
    <3>3. due(n) = a * b
      BY <2>8, <2>9, <3>1, Zenon
    <3> HIDE DEF due
    <3> QED
      BY <2>1, <3>2, <3>3
  <2>15. Size(t - d) <= 100
    BY <2>8, <2>9, <2>10, <2>13, <2>14
  <2>16. t <= d + 100
    BY <2>15 DEF Size
  <2> QED
    BY <2>5, <2>14, <2>16
<1>8. IsFiniteSet(DOMAIN bill)
  <2>1. Len(bill) \in Nat /\ DOMAIN bill = 1..Len(bill)
    BY <1>1
  <2> QED
    BY <2>1, FS_Interval
<1>9. \A n \in DOMAIN bill : billed[n] \in Int /\ dues[n] \in Int /\ billed[n] <= dues[n]
  <2> HIDE DEF due
  <2> QED
    BY <1>7
<1>10. Total(billed, DOMAIN bill) <= Total(dues, DOMAIN bill)
  <2> HIDE DEF billed, dues
  <2> QED
    BY <1>8, <1>9, TotalMonotone
<1> QED
  BY <1>7, <1>10 DEF WithinDue
-----------------------------------------------------------------------------
\* The codes that a line or the invoice may get.
LineCodes == {"PO_LINE_MISSING", "GRN_LINE_MISSING", "INVOICE_LINE_MISSING",
              "QTY_VARIANCE", "PRICE_VARIANCE", "PRICE_SPIKE", "AMOUNT_VARIANCE"}
FlagCodes == {"UNMATCHED_INVOICE_LINE", "DUPLICATE_INVOICE_SUSPECTED", "NEW_SUPPLIER",
              "ROUND_NUMBER_AMOUNT", "WEEKEND_SUBMISSION"}

\* What a code alone adds to the risk.
PointsOf(c) ==
  CASE c \in {"QTY_VARIANCE", "PRICE_VARIANCE", "PRICE_SPIKE"} -> 15
    [] c \in {"AMOUNT_VARIANCE", "NEW_SUPPLIER"} -> 10
    [] c = "DUPLICATE_INVOICE_SUSPECTED" -> 25
    [] c \in {"ROUND_NUMBER_AMOUNT", "WEEKEND_SUBMISSION"} -> 5
    [] OTHER -> 0

LEMMA PointsAreNatural == \A c : PointsOf(c) \in Nat
<1> SUFFICES ASSUME NEW c PROVE PointsOf(c) \in Nat
  OBVIOUS
<1> QED
  BY DEF PointsOf

LEMMA CodesAreFinite == IsFiniteSet(LineCodes \cup FlagCodes)
<1>1. ASSUME NEW a, NEW b, NEW c, NEW d PROVE IsFiniteSet({a, b, c, d})
  <2>1. IsFiniteSet({a}) /\ IsFiniteSet({b}) /\ IsFiniteSet({c}) /\ IsFiniteSet({d})
    BY FS_Singleton
  <2>2. IsFiniteSet({a} \cup {b}) /\ IsFiniteSet({c} \cup {d})
    BY <2>1, FS_Union
  <2>3. IsFiniteSet(({a} \cup {b}) \cup ({c} \cup {d}))
    BY <2>2, FS_Union
  <2>4. ({a} \cup {b}) \cup ({c} \cup {d}) = {a, b, c, d}
    OBVIOUS
  <2> QED
    BY <2>3, <2>4
<1> DEFINE A == {"PO_LINE_MISSING", "GRN_LINE_MISSING", "INVOICE_LINE_MISSING", "QTY_VARIANCE"}
           B == {"PRICE_VARIANCE", "PRICE_SPIKE", "AMOUNT_VARIANCE", "NEW_SUPPLIER"}
           C == {"UNMATCHED_INVOICE_LINE", "DUPLICATE_INVOICE_SUSPECTED",
                 "ROUND_NUMBER_AMOUNT", "WEEKEND_SUBMISSION"}
<1>2. IsFiniteSet(A) /\ IsFiniteSet(B) /\ IsFiniteSet(C)
  BY <1>1
<1>3. LineCodes \cup FlagCodes = (A \cup B) \cup C
  BY DEF LineCodes, FlagCodes
<1> HIDE DEF A, B, C
<1>4. IsFiniteSet(A \cup B)
  BY <1>2, FS_Union
<1>5. IsFiniteSet((A \cup B) \cup C)
  BY <1>2, <1>4, FS_Union
<1> QED
  BY <1>3, <1>5

\* The risk before it is cut at 100 is a sum over the codes.
LEMMA PointsIsTotal ==
  ASSUME NEW codes \in SUBSET (LineCodes \cup FlagCodes)
  PROVE  Points(codes) = (IF codes \cap Structural # {} THEN 20 ELSE 0)
                           + Total([c \in LineCodes \cup FlagCodes |-> PointsOf(c)], codes)
<1> DEFINE F == [c \in LineCodes \cup FlagCodes |-> PointsOf(c)]
<1>0. PICK f : f = F
  OBVIOUS
<1> DEFINE Body(h, T) == IF T = {} THEN 0
             ELSE PointsOf(CHOOSE x \in T : TRUE) + h[T \ {CHOOSE x \in T : TRUE}]
           Over(h, T) == IF T = {} THEN 0
             ELSE f[CHOOSE x \in T : TRUE] + h[T \ {CHOOSE x \in T : TRUE}]
           g == CHOOSE h : h = [T \in SUBSET codes |-> Body(h, T)]
<1>1. IsFiniteSet(codes) /\ \A c \in codes : f[c] \in Int /\ f[c] = PointsOf(c)
  BY <1>0, CodesAreFinite, PointsAreNatural, FS_Subset
<1>2. \A k : IsSum(k, f, codes) <=> k = [T \in SUBSET codes |-> Body(k, T)]
  <2>1. ASSUME NEW k, NEW T \in SUBSET codes PROVE Body(k, T) = Over(k, T)
    <3>1. T # {} => (CHOOSE x \in T : TRUE) \in codes
      OBVIOUS
    <3> QED
      BY <1>1, <3>1
  <2>2. \A k : IsSum(k, f, codes) <=> k = [T \in SUBSET codes |-> Over(k, T)]
    BY DEF IsSum
  <2> HIDE DEF Body, Over
  <2>3. ASSUME NEW k
        PROVE  [T \in SUBSET codes |-> Over(k, T)] = [T \in SUBSET codes |-> Body(k, T)]
    BY <2>1
  <2> QED
    BY <2>2, <2>3
<1>3. IsSum(g, f, codes)
  <2>1. \E k : IsSum(k, f, codes)
    BY <1>1, SumExists
  <2> HIDE DEF Body
  <2> QED
    BY <1>2, <2>1
<1>4. MapThenSumSet(PointsOf, codes) = g[codes]
  BY DEF MapThenSumSet, MapThenFoldSet
<1>5. g[codes] = Total(f, codes)
  <2> HIDE DEF g
  <2> QED
    BY <1>1, <1>3, SumIsTotal
<1>6. Points(codes) = (IF codes \cap Structural # {} THEN 20 ELSE 0)
                        + MapThenSumSet(PointsOf, codes)
  BY DEF Points, PointsOf
<1> QED
  BY <1>0, <1>4, <1>5, <1>6

\* More codes, no less risk.
LEMMA MoreCodesMoreRisk ==
  ASSUME NEW more \in SUBSET (LineCodes \cup FlagCodes), NEW codes \in SUBSET more
  PROVE  Risk(codes) \in Int /\ Risk(more) \in Int /\ Risk(codes) <= Risk(more)
<1>1. PICK f : f = [c \in LineCodes \cup FlagCodes |-> PointsOf(c)]
  OBVIOUS
<1>2. IsFiniteSet(more) /\ IsFiniteSet(codes) /\ \A c \in more : f[c] \in Nat
  BY <1>1, CodesAreFinite, PointsAreNatural, FS_Subset
<1>3. Total(f, codes) \in Int /\ Total(f, more) \in Int
  BY <1>2, TotalType
<1>4. Total(f, codes) <= Total(f, more)
  BY <1>2, TotalOfPart
<1>5. PICK m \in Int, n \in Int : m = Points(codes) /\ n = Points(more) /\ m <= n
  <2>1. /\ Points(codes) = (IF codes \cap Structural # {} THEN 20 ELSE 0) + Total(f, codes)
        /\ Points(more) = (IF more \cap Structural # {} THEN 20 ELSE 0) + Total(f, more)
    BY <1>1, PointsIsTotal
  <2>2. codes \cap Structural # {} => more \cap Structural # {}
    OBVIOUS
  <2> QED
    BY <1>3, <1>4, <2>1, <2>2
<1>6. ASSUME NEW k \in Int PROVE Min({k, 100}) = IF k < 100 THEN k ELSE 100
  <2>1. \E x \in {k, 100} : \A y \in {k, 100} : x <= y
    OBVIOUS
  <2>2. Min({k, 100}) \in {k, 100} /\ \A y \in {k, 100} : Min({k, 100}) <= y
    BY <2>1 DEF Min
  <2> QED
    BY <2>2
<1> QED
  BY <1>5, <1>6 DEF Risk

LEMMA CodesAreNamed ==
  ASSUME NEW line, NEW flags, NEW tol
  PROVE  Codes(line, tol) \subseteq LineCodes /\ Flags(flags) \subseteq FlagCodes
BY DEF Codes, Missing, Variances, Flags, LineCodes, FlagCodes

\* services/matching.py, evaluate_three_way_match: whatever a change of the documents
\* does, the verdict is no better if every line and the invoice as a whole keep the
\* codes they had.
THEOREM MoreCodesNoBetter ==
  ASSUME NEW lines, NEW others, NEW flags, NEW marks, NEW tol,
         Flags(flags) \subseteq Flags(marks),
         \A line \in lines : \E other \in others : Codes(line, tol) \subseteq Codes(other, tol)
  PROVE  Rank[Verdict(lines, flags, tol)] <= Rank[Verdict(others, marks, tol)]
<1>1. PICK codes, more : codes = AllCodes(lines, flags, tol) /\ more = AllCodes(others, marks, tol)
  OBVIOUS
<1>2. codes \in SUBSET more /\ more \in SUBSET (LineCodes \cup FlagCodes)
  BY <1>1, CodesAreNamed DEF AllCodes
<1>3. PICK m \in Int, n \in Int : m = Risk(codes) /\ n = Risk(more) /\ m <= n
  BY <1>2, MoreCodesMoreRisk
<1>4. (\E line \in lines : Codes(line, tol) # {}) => \E other \in others : Codes(other, tol) # {}
  OBVIOUS
<1> DEFINE bad == Structural \cup {"DUPLICATE_INVOICE_SUSPECTED"}
           off(set) == \E line \in set : Codes(line, tol) # {}
<1>5. /\ Verdict(lines, flags, tol) =
           IF codes \cap bad # {} \/ m >= 60 THEN "BLOCK"
           ELSE IF m >= 20 \/ off(lines) THEN "REVIEW" ELSE "AUTO_APPROVE"
      /\ Verdict(others, marks, tol) =
           IF more \cap bad # {} \/ n >= 60 THEN "BLOCK"
           ELSE IF n >= 20 \/ off(others) THEN "REVIEW" ELSE "AUTO_APPROVE"
  BY <1>1, <1>3 DEF Verdict
<1>6. off(lines) => off(others)
  BY <1>4
<1>7. codes \cap bad # {} => more \cap bad # {}
  BY <1>2
<1> HIDE DEF bad, off
<1>8. PICK v, w : v = Verdict(lines, flags, tol) /\ w = Verdict(others, marks, tol)
  OBVIOUS
<1>9. w = "BLOCK" \/ v = "AUTO_APPROVE" \/ (v = "REVIEW" /\ w = "REVIEW")
  <2>1. CASE more \cap bad # {} \/ n >= 60
    BY <1>5, <1>8, <2>1
  <2>2. CASE ~(more \cap bad # {} \/ n >= 60) /\ (m >= 20 \/ off(lines))
    <3>1. ~(codes \cap bad # {}) /\ ~(m >= 60) /\ (n >= 20 \/ off(others))
      BY <1>3, <1>6, <1>7, <2>2
    <3> QED
      BY <1>5, <1>8, <2>2, <3>1
  <2>3. CASE ~(more \cap bad # {} \/ n >= 60) /\ ~(m >= 20 \/ off(lines))
    <3>1. ~(codes \cap bad # {}) /\ ~(m >= 60)
      BY <1>3, <1>7, <2>3
    <3> QED
      BY <1>5, <1>8, <2>3, <3>1
  <2> QED
    BY <2>1, <2>2, <2>3
<1>10. v \in Verdicts /\ w \in Verdicts
  BY <1>8 DEF Verdict, Verdicts
<1> QED
  BY <1>8, <1>9, <1>10 DEF Rank, Verdicts

\* Further from what was expected is no closer.
LEMMA FurtherIsNotWithin ==
  ASSUME NEW a \in Nat, NEW b \in Nat, NEW e \in Nat, NEW pct,
         Size(a - e) <= Size(b - e), WithinPct(b, e, pct), pct \in Nat
  PROVE  WithinPct(a, e, pct)
<1>1. CASE e = 0
  BY <1>1 DEF WithinPct, Size
<1>2. CASE e # 0
  <2>1. PICK limit \in Int : limit = pct * e
    OBVIOUS
  <2>2. 100 * Size(b - e) <= limit
    BY <1>2, <2>1 DEF WithinPct
  <2>3. 100 * Size(a - e) <= limit
    BY <2>2 DEF Size
  <2> QED
    BY <1>2, <2>1, <2>3 DEF WithinPct
<1> QED
  BY <1>1, <1>2

LineRecord == [on: SUBSET {"po", "grn", "inv"}, agreed: Nat, accepted: Nat,
               quantity: Nat, price: Nat, total: Nat]

\* services/matching.py, evaluate_three_way_match: of the lines of an invoice and its
\* other documents, one that is billed for a quantity further from what was accepted,
\* or at a price further from what was agreed, never gets the invoice a better verdict.
THEOREM FurtherNeverBetter ==
  ASSUME NEW lines, NEW line \in lines, line \in LineRecord, NEW flags, NEW tol,
         tol.qty \in Nat, tol.price \in Nat, NEW n \in Nat,
         NEW far,
         \/ /\ far = [line EXCEPT !.quantity = n]
            /\ Size(line.quantity - Accepted(line)) <= Size(n - Accepted(line))
         \/ /\ far = [line EXCEPT !.price = n]
            /\ Size(line.price - line.agreed) <= Size(n - line.agreed)
  PROVE  Rank[Verdict(lines, flags, tol)]
           <= Rank[Verdict((lines \ {line}) \cup {far}, flags, tol)]
<1>1. Codes(line, tol) \subseteq Codes(far, tol)
  <2>1. CASE /\ far = [line EXCEPT !.quantity = n]
             /\ Size(line.quantity - Accepted(line)) <= Size(n - Accepted(line))
    <3>1. /\ far.on = line.on /\ far.agreed = line.agreed /\ far.accepted = line.accepted
          /\ far.price = line.price /\ far.total = line.total /\ far.quantity = n
      BY <2>1 DEF LineRecord
    <3>2. WithinPct(Billed(far), Accepted(far), tol.qty)
            => WithinPct(Billed(line), Accepted(line), tol.qty)
      <4>1. PICK e \in Nat : e = Accepted(line)
        BY DEF Accepted, LineRecord
      <4>2. Accepted(far) = e
        BY <3>1, <4>1 DEF Accepted
      <4>3. CASE "inv" \in line.on
        <5>1. Billed(line) = line.quantity /\ Billed(far) = n /\ line.quantity \in Nat
          BY <3>1, <4>3 DEF Billed, LineRecord
        <5> QED
          BY <2>1, <4>1, <4>2, <5>1, FurtherIsNotWithin
      <4>4. CASE "inv" \notin line.on
        BY <3>1, <4>1, <4>2, <4>4 DEF Billed
      <4> QED
        BY <4>3, <4>4
    <3>3. /\ Missing(far) = Missing(line) /\ Amount(far) = Amount(line)
          /\ Expected(far) = Expected(line)
          /\ \A p : PriceWithin(far, p) <=> PriceWithin(line, p)
      BY <3>1 DEF Missing, Amount, Expected, Accepted, PriceWithin
    <3> QED
      BY <3>2, <3>3 DEF Codes, Variances
  <2>2. CASE /\ far = [line EXCEPT !.price = n]
             /\ Size(line.price - line.agreed) <= Size(n - line.agreed)
    <3>1. /\ far.on = line.on /\ far.agreed = line.agreed /\ far.accepted = line.accepted
          /\ far.price = n /\ far.total = line.total /\ far.quantity = line.quantity
      BY <2>2 DEF LineRecord
    <3>2. ASSUME NEW p \in Nat, PriceWithin(far, p) PROVE PriceWithin(line, p)
      <4>1. line.price \in Nat /\ line.agreed \in Nat
        BY DEF LineRecord
      <4> QED
        BY <2>2, <3>1, <3>2, <4>1, FurtherIsNotWithin DEF PriceWithin
    <3>3. /\ Missing(far) = Missing(line) /\ Amount(far) = Amount(line)
          /\ Expected(far) = Expected(line) /\ Accepted(far) = Accepted(line)
          /\ Billed(far) = Billed(line)
      BY <3>1 DEF Missing, Amount, Expected, Accepted, Billed
    <3>4. 3 * tol.price \in Nat
      OBVIOUS
    <3> QED
      BY <3>2, <3>3, <3>4 DEF Codes, Variances
  <2> QED
    BY <2>1, <2>2
<1> QED
  <2>1. \A l \in lines : \E o \in (lines \ {line}) \cup {far} : Codes(l, tol) \subseteq Codes(o, tol)
    BY <1>1
  <2> QED
    BY <2>1, MoreCodesNoBetter

\* services/matching.py: neither does a mark against the invoice, a twin, a supplier's
\* first order, a weekend, or a row without a product.
THEOREM MarkedIsNoBetter ==
  ASSUME NEW lines, NEW tol, NEW flags,
         flags \in [unmatched: BOOLEAN, twin: BOOLEAN, first: BOOLEAN, weekend: BOOLEAN, sum: Nat],
         NEW mark \in {"unmatched", "twin", "first", "weekend"}
  PROVE  Rank[Verdict(lines, flags, tol)]
           <= Rank[Verdict(lines, [flags EXCEPT ![mark] = TRUE], tol)]
<1>1. Flags(flags) \subseteq Flags([flags EXCEPT ![mark] = TRUE])
  <2>1. PICK marks : marks = [flags EXCEPT ![mark] = TRUE]
    OBVIOUS
  <2>2. /\ flags.unmatched = TRUE => marks.unmatched = TRUE
        /\ flags.twin = TRUE => marks.twin = TRUE
        /\ flags.first = TRUE => marks.first = TRUE
        /\ flags.weekend = TRUE => marks.weekend = TRUE
        /\ marks.sum = flags.sum
    BY <2>1
  <2>3. Flags(flags) \subseteq Flags(marks)
    BY ONLY <2>2 DEF Flags
  <2> QED
    BY <2>1, <2>3
<1> QED
  BY <1>1, MoreCodesNoBetter
-----------------------------------------------------------------------------
\* The larger of zero and a number.
LEMMA AtLeastZero ==
  ASSUME NEW n \in Int
  PROVE  Max({0, n}) = IF n > 0 THEN n ELSE 0
<1>1. \E x \in {0, n} : \A y \in {0, n} : x >= y
  OBVIOUS
<1>2. Max({0, n}) \in {0, n} /\ \A y \in {0, n} : Max({0, n}) >= y
  BY <1>1 DEF Max
<1> QED
  BY <1>2

\* A sequence by due date has every open invoice once, the older before the younger.
LEMMA DueOrder ==
  ASSUME NEW open, IsFiniteSet(DOMAIN open), NEW s \in ByDueDate(open),
         \A i \in DOMAIN open : open[i].due \in Int
  PROVE  \E N \in Nat :
           /\ s \in [1..N -> DOMAIN open] /\ \A i \in DOMAIN open : \E n \in 1..N : s[n] = i
           /\ \A m, n \in 1..N : s[m] = s[n] => m = n
           /\ \A m, n \in 1..N : open[s[m]].due < open[s[n]].due => m < n
<1> DEFINE D == DOMAIN open
           N == Cardinality(D)
<1>1. N \in Nat
  BY FS_CardinalityType
<1>2. s \in [1..N -> D] /\ \A m, n \in 1..N : s[m] = s[n] => m = n
  BY DEF ByDueDate, SetToSeqs
<1>3. \A i \in D : \E n \in 1..N : s[n] = i
  <2> SUFFICES ASSUME NEW i \in D, \A n \in 1..N : s[n] # i PROVE FALSE
    OBVIOUS
  <2>1. IsFiniteSet(D \ {i}) /\ Cardinality(D \ {i}) = N - 1
    BY FS_RemoveElement
  <2>2. IsFiniteSet(1..N) /\ Cardinality(1..N) = N
    BY <1>1, FS_Interval
  <2>3. s \in [1..N -> D \ {i}]
    BY <1>2
  <2> HIDE DEF N, D
  <2>4. PICK m, n \in 1..N : m # n /\ s[m] = s[n]
    BY <1>1, <2>1, <2>2, <2>3, FS_PigeonHole
  <2> QED
    BY <1>2, <2>4
<1>4. \A m, n \in 1..N : m < n => open[s[m]].due <= open[s[n]].due
  <2>1. Len(s) = N
    BY <1>1, <1>2
  <2>2. IsSorted(s, LAMBDA i, j : open[i].due <= open[j].due)
    BY Zenon DEF ByDueDate
  <2> QED
    BY <2>1, <2>2 DEF IsSorted
<1>5. \A m, n \in 1..N : open[s[m]].due < open[s[n]].due => m < n
  <2> SUFFICES ASSUME NEW m \in 1..N, NEW n \in 1..N, open[s[m]].due < open[s[n]].due
               PROVE  m < n
    OBVIOUS
  <2>1. open[s[m]].due \in Int /\ open[s[n]].due \in Int
    BY <1>2
  <2>2. ~(n < m) /\ m # n
    BY <1>4, <2>1
  <2> QED
    BY <1>1, <2>2
<1> QED
  BY <1>1, <1>2, <1>3, <1>5

\* The totals of longer and longer prefixes.
LEMMA PrefixTotals ==
  ASSUME NEW N \in Nat, NEW f, \A k \in 1..N : f[k] \in Nat
  PROVE  /\ Total(f, 1..0) = 0
         /\ \A n \in 0..N : Total(f, 1..n) \in Nat
         /\ \A n \in 1..N : Total(f, 1..n) = f[n] + Total(f, 1..(n - 1))
         /\ \A m, n \in 0..N : m <= n => Total(f, 1..m) <= Total(f, 1..n)
<1>1. \A n \in 0..N : IsFiniteSet(1..n) /\ \A k \in 1..n : f[k] \in Nat
  BY FS_Interval
<1>2. Total(f, 1..0) = 0
  <2>1. 1..0 = {}
    OBVIOUS
  <2> QED
    BY <2>1, TotalEmpty
<1>3. \A n \in 0..N : Total(f, 1..n) \in Nat
  BY <1>1, TotalCovers
<1>4. ASSUME NEW n \in 1..N PROVE Total(f, 1..n) = f[n] + Total(f, 1..(n - 1))
  <2>1. (1..n) \ {n} = 1..(n - 1) /\ n \in 1..n /\ n \in 0..N
    OBVIOUS
  <2>2. \A k \in 1..n : f[k] \in Int
    BY <1>1, <2>1
  <2>3. Total(f, 1..n) = f[n] + Total(f, (1..n) \ {n})
    BY <1>1, <2>1, <2>2, TotalRemove
  <2> QED
    BY <2>1, <2>3
<1>5. ASSUME NEW m \in 0..N, NEW n \in 0..N, m <= n PROVE Total(f, 1..m) <= Total(f, 1..n)
  <2>1. 1..m \in SUBSET (1..n)
    BY <1>5
  <2> QED
    BY <1>1, <2>1, TotalOfPart
<1> QED
  BY <1>2, <1>3, <1>4, <1>5

\* What is left is the amount less the total of what came before.
LEMMA LeftIsAmountLess ==
  ASSUME NEW open, NEW s, NEW n \in Nat, NEW f, NEW amount,
         \A k \in 1..n : f[k] \in Int /\ f[k] = Owed(open[s[k]])
  PROVE  LeftAfter(open, s, n, amount) = Max({0, amount - Total(f, 1..n)})
<1> DEFINE K == 1..n
           Body(h, T) == IF T = {} THEN 0
             ELSE Owed(open[s[CHOOSE x \in T : TRUE]]) + h[T \ {CHOOSE x \in T : TRUE}]
           Over(h, T) == IF T = {} THEN 0
             ELSE f[CHOOSE x \in T : TRUE] + h[T \ {CHOOSE x \in T : TRUE}]
           g == CHOOSE h : h = [T \in SUBSET K |-> Body(h, T)]
<1>1. IsFiniteSet(K)
  BY FS_Interval
<1>2. \A k : IsSum(k, f, K) <=> k = [T \in SUBSET K |-> Body(k, T)]
  <2>1. ASSUME NEW k, NEW T \in SUBSET K PROVE Body(k, T) = Over(k, T)
    <3>1. T # {} => (CHOOSE x \in T : TRUE) \in K
      OBVIOUS
    <3> QED
      BY <3>1
  <2>2. \A k : IsSum(k, f, K) <=> k = [T \in SUBSET K |-> Over(k, T)]
    BY DEF IsSum
  <2> HIDE DEF Body, Over
  <2>3. ASSUME NEW k
        PROVE  [T \in SUBSET K |-> Over(k, T)] = [T \in SUBSET K |-> Body(k, T)]
    BY <2>1
  <2> QED
    BY <2>2, <2>3
<1>3. IsSum(g, f, K)
  <2>1. \E k : IsSum(k, f, K)
    BY <1>1, SumExists
  <2> HIDE DEF Body
  <2> QED
    BY <1>2, <2>1
<1>4. MapThenSumSet(LAMBDA k : Owed(open[s[k]]), K) = g[K]
  BY DEF MapThenSumSet, MapThenFoldSet
<1>5. g[K] = Total(f, K)
  <2> HIDE DEF g
  <2> QED
    BY <1>1, <1>3, SumIsTotal
<1> QED
  BY <1>4, <1>5 DEF LeftAfter

\* Filling places 1..N, each with room f, from an amount: a place gets what fits, one
\* that gets something finds those before it full, and nothing is left while one is not.
Filling(N, f, amount, left, share) ==
  /\ N \in Nat /\ amount \in Nat /\ \A k \in 1..N : f[k] \in Nat
  /\ \A n \in 0..N : left[n] = Max({0, amount - Total(f, 1..n)})
  /\ \A n \in 1..N : share[n] = left[n - 1] - left[n]

Filled(N, f, amount, left, share) ==
  /\ \A n \in 1..N : share[n] \in Nat /\ share[n] <= f[n]
  /\ \A m, n \in 1..N : m < n /\ share[n] > 0 => share[m] = f[m]
  /\ left[N] \in Nat /\ Total(share, 1..N) = amount - left[N]
  /\ left[N] > 0 => \A n \in 1..N : share[n] = f[n]

LEMMA FillInOrder ==
  ASSUME NEW N, NEW f, NEW amount, NEW left, NEW share, Filling(N, f, amount, left, share)
  PROVE  Filled(N, f, amount, left, share)
<1> USE DEF Filling
<1> DEFINE P(n) == Total(f, 1..n)
<1>1. /\ P(0) = 0 /\ \A n \in 0..N : P(n) \in Nat
      /\ \A n \in 1..N : P(n) = f[n] + P(n - 1)
      /\ \A m, n \in 0..N : m <= n => P(m) <= P(n)
  BY PrefixTotals
<1> HIDE DEF P
<1>2. \A n \in 0..N : left[n] = IF amount > P(n) THEN amount - P(n) ELSE 0
  <2> SUFFICES ASSUME NEW n \in 0..N
               PROVE  left[n] = IF amount > P(n) THEN amount - P(n) ELSE 0
    OBVIOUS
  <2>1. amount - P(n) \in Int /\ P(n) \in Nat
    BY <1>1
  <2>2. left[n] = Max({0, amount - P(n)})
    BY DEF P
  <2> QED
    BY <2>1, <2>2, AtLeastZero
<1>3. ASSUME NEW n \in 1..N
      PROVE  /\ share[n] \in Nat /\ share[n] <= f[n]
             /\ amount >= P(n) => share[n] = f[n]
             /\ share[n] > 0 => amount > P(n - 1)
  <2>1. n \in 0..N /\ n - 1 \in 0..N /\ f[n] \in Nat
    OBVIOUS
  <2>2. P(n) \in Nat /\ P(n - 1) \in Nat /\ P(n) = f[n] + P(n - 1)
    BY <1>1, <2>1
  <2> QED
    BY <1>2, <2>1, <2>2
<1>4. ASSUME NEW m \in 1..N, NEW n \in 1..N, m < n, share[n] > 0 PROVE share[m] = f[m]
  <2>1. m \in 0..N /\ n - 1 \in 0..N /\ m <= n - 1
    BY <1>4
  <2>2. P(m) <= P(n - 1) /\ P(m) \in Nat /\ P(n - 1) \in Nat
    BY <1>1, <2>1
  <2> QED
    BY <1>3, <1>4, <2>2
<1>5. left[N] \in Nat /\ (left[N] > 0 => amount > P(N))
  BY <1>1, <1>2
<1>6. ASSUME left[N] > 0, NEW n \in 1..N PROVE share[n] = f[n]
  <2>1. n \in 0..N /\ N \in 0..N /\ n <= N
    OBVIOUS
  <2>2. P(n) <= P(N) /\ P(n) \in Nat /\ P(N) \in Nat
    BY <1>1, <2>1
  <2> QED
    BY <1>3, <1>5, <1>6, <2>2
<1>7. Total(share, 1..N) = amount - left[N]
  <2>1. /\ Total(share, 1..0) = 0
        /\ \A n \in 1..N : Total(share, 1..n) = share[n] + Total(share, 1..(n - 1))
    BY <1>3, PrefixTotals
  <2> DEFINE Q == {n \in Nat : n <= N => Total(share, 1..n) = amount - left[n]}
  <2>2. 0 \in Q
    BY <1>1, <1>2, <2>1
  <2>3. ASSUME NEW n \in Q PROVE n + 1 \in Q
    <3> SUFFICES ASSUME n + 1 <= N PROVE Total(share, 1..(n + 1)) = amount - left[n + 1]
      OBVIOUS
    <3>1. n + 1 \in 1..N /\ n \in 0..N /\ n + 1 \in 0..N /\ (n + 1) - 1 = n
      OBVIOUS
    <3>2. Total(share, 1..n) = amount - left[n]
      BY <3>1
    <3>3. Total(share, 1..(n + 1)) = share[n + 1] + Total(share, 1..n)
      BY <2>1, <3>1
    <3>4. share[n + 1] = left[n] - left[n + 1]
      BY <3>1
    <3>5. left[n] \in Int /\ left[n + 1] \in Int
      BY <1>1, <1>2, <3>1
    <3> QED
      BY <3>2, <3>3, <3>4, <3>5
  <2>4. N \in Q
    <3> HIDE DEF Q
    <3>1. Q \in SUBSET Nat
      BY DEF Q
    <3> QED
      BY <2>2, <2>3, <3>1, NaturalInduction
  <2> QED
    BY <2>4
<1> QED
  BY <1>3, <1>4, <1>5, <1>6, <1>7 DEF Filled

\* services/payments.py, allocate_payment: a payment that names no invoice gives no
\* invoice more than it owes and all invoices no more than it brings, nothing while one
\* that was due before owes anything, and keeps nothing while anything is owed.
THEOREM OldestPaidFirst ==
  ASSUME NEW open, IsFiniteSet(DOMAIN open),
         \A i \in DOMAIN open : /\ open[i].total \in Nat /\ open[i].paid \in Nat
                                /\ open[i].paid <= open[i].total /\ open[i].due \in Int,
         NEW amount \in Nat, NEW plan \in AutoPlans(open, amount)
  PROVE  /\ DOMAIN plan \subseteq DOMAIN open
         /\ \A i \in DOMAIN plan : plan[i] \in 1..Remaining(open[i])
         /\ Planned(plan) \in Nat /\ Planned(plan) <= amount
         /\ \A i, j \in DOMAIN open :
              open[i].due < open[j].due /\ Gets(plan, j) > 0 => Gets(plan, i) = Remaining(open[i])
         /\ Planned(plan) < amount => \A i \in DOMAIN open : Gets(plan, i) = Remaining(open[i])
<1> DEFINE sh(s, n) == LeftAfter(open, s, n - 1, amount) - LeftAfter(open, s, n, amount)
           place(s, i) == CHOOSE n \in DOMAIN s : s[n] = i
           served(s) == {s[n] : n \in {n \in DOMAIN s : sh(s, n) \in Nat \ {0}}}
<1>1. PICK s \in ByDueDate(open) : plan = [i \in served(s) |-> sh(s, place(s, i))]
  BY Zenon DEF AutoPlans
<1>2. PICK N \in Nat :
        /\ s \in [1..N -> DOMAIN open] /\ \A i \in DOMAIN open : \E n \in 1..N : s[n] = i
        /\ \A m, n \in 1..N : s[m] = s[n] => m = n
        /\ \A m, n \in 1..N : open[s[m]].due < open[s[n]].due => m < n
  BY DueOrder
<1>3. PICK f : f = [k \in 1..N |-> Remaining(open[s[k]])]
  OBVIOUS
<1>4. PICK left : left = [n \in 0..N |-> LeftAfter(open, s, n, amount)]
  OBVIOUS
<1>5. PICK share : share = [n \in 1..N |-> left[n - 1] - left[n]]
  OBVIOUS
<1>6. \A k \in 1..N : f[k] \in Nat /\ f[k] = Owed(open[s[k]])
  <2> SUFFICES ASSUME NEW k \in 1..N PROVE f[k] \in Nat /\ f[k] = Owed(open[s[k]])
    OBVIOUS
  <2>1. PICK r \in Nat : r = Remaining(open[s[k]])
    BY <1>2 DEF Remaining
  <2>2. Max({0, r}) = r
    BY AtLeastZero
  <2> QED
    BY <1>3, <2>1, <2>2 DEF Owed
<1>7. \A n \in 0..N : left[n] = Max({0, amount - Total(f, 1..n)})
  <2> SUFFICES ASSUME NEW n \in 0..N PROVE left[n] = Max({0, amount - Total(f, 1..n)})
    OBVIOUS
  <2>1. n \in Nat /\ \A k \in 1..n : f[k] \in Int /\ f[k] = Owed(open[s[k]])
    BY <1>6
  <2>2. LeftAfter(open, s, n, amount) = Max({0, amount - Total(f, 1..n)})
    BY <2>1, LeftIsAmountLess
  <2> QED
    BY <1>4, <2>2
<1>8. /\ \A n \in 1..N : share[n] \in Nat /\ share[n] <= f[n]
      /\ \A m, n \in 1..N : m < n /\ share[n] > 0 => share[m] = f[m]
      /\ left[N] \in Nat /\ Total(share, 1..N) = amount - left[N]
      /\ left[N] > 0 => \A n \in 1..N : share[n] = f[n]
  <2>1. \A n \in 1..N : share[n] = left[n - 1] - left[n]
    BY <1>5
  <2>2. \A k \in 1..N : f[k] \in Nat
    BY <1>6
  <2>3. Filling(N, f, amount, left, share)
    BY <1>7, <2>1, <2>2 DEF Filling
  <2>4. Filled(N, f, amount, left, share)
    BY <2>3, FillInOrder
  <2> QED
    BY <2>4 DEF Filled
<1>9. \A n \in 1..N : sh(s, n) = share[n] /\ place(s, s[n]) = n
  <2> SUFFICES ASSUME NEW n \in 1..N PROVE sh(s, n) = share[n] /\ place(s, s[n]) = n
    OBVIOUS
  <2>1. n \in 0..N /\ n - 1 \in 0..N
    OBVIOUS
  <2>2. sh(s, n) = share[n]
    BY <1>4, <1>5, <2>1
  <2>3. place(s, s[n]) = n
    BY <1>2
  <2> QED
    BY <2>2, <2>3
<1>10. DOMAIN s = 1..N
  BY <1>2
<1>11. /\ DOMAIN plan = {s[n] : n \in {n \in 1..N : share[n] # 0}}
       /\ \A n \in 1..N : share[n] # 0 => plan[s[n]] = share[n]
  <2>1. served(s) = {s[n] : n \in {n \in 1..N : share[n] # 0}}
    <3> HIDE DEF sh, place
    <3> QED
      BY <1>8, <1>9, <1>10
  <2> HIDE DEF sh, place, served
  <2> QED
    BY <1>1, <1>9, <2>1
<1> HIDE DEF sh, place, served
<1>12. \A n \in 1..N : /\ Gets(plan, s[n]) = share[n]
                       /\ f[n] = Remaining(open[s[n]]) /\ f[n] \in Nat /\ share[n] \in Nat
  <2> SUFFICES ASSUME NEW n \in 1..N
               PROVE  /\ Gets(plan, s[n]) = share[n]
                      /\ f[n] = Remaining(open[s[n]]) /\ f[n] \in Nat /\ share[n] \in Nat
    OBVIOUS
  <2>1. f[n] = Remaining(open[s[n]])
    BY <1>3
  <2>2. f[n] \in Nat /\ share[n] \in Nat
    BY <1>6, <1>8
  <2>3. ASSUME share[n] # 0 PROVE Gets(plan, s[n]) = share[n]
    <3>1. s[n] \in DOMAIN plan /\ plan[s[n]] = share[n]
      BY <1>11, <2>3
    <3> QED
      BY <3>1 DEF Gets
  <2>4. ASSUME share[n] = 0 PROVE Gets(plan, s[n]) = share[n]
    <3>1. s[n] \notin DOMAIN plan
      <4> SUFFICES ASSUME s[n] \in DOMAIN plan PROVE FALSE
        OBVIOUS
      <4>1. PICK m \in 1..N : share[m] # 0 /\ s[m] = s[n]
        BY <1>11
      <4> QED
        BY <1>2, <2>4, <4>1
    <3> QED
      BY <2>4, <3>1 DEF Gets
  <2> QED
    BY <2>1, <2>2, <2>3, <2>4
<1>13. DOMAIN plan \subseteq DOMAIN open /\ \A i \in DOMAIN plan : plan[i] \in 1..Remaining(open[i])
  <2> SUFFICES ASSUME NEW i \in DOMAIN plan
               PROVE  i \in DOMAIN open /\ plan[i] \in 1..Remaining(open[i])
    OBVIOUS
  <2>1. PICK n \in 1..N : i = s[n] /\ share[n] # 0
    BY <1>11
  <2>2. plan[i] = share[n] /\ share[n] \in Nat /\ share[n] <= f[n]
    BY <1>8, <1>11, <2>1
  <2>3. f[n] \in Nat /\ f[n] = Remaining(open[i])
    BY <1>12, <2>1
  <2> QED
    BY <1>2, <2>1, <2>2, <2>3
<1>14. Planned(plan) = Total(share, 1..N)
  <2>1. PICK S : S = DOMAIN plan
    OBVIOUS
  <2>2. PICK R : R = 1..N
    OBVIOUS
  <2>3. IsFiniteSet(S) /\ IsFiniteSet(R)
    <3>1. S \in SUBSET DOMAIN open
      BY <1>13, <2>1
    <3>2. IsFiniteSet(S)
      BY <3>1, FS_Subset
    <3>3. IsFiniteSet(R)
      BY <2>2, FS_Interval
    <3> QED
      BY <3>2, <3>3
  <2>4. PICK zero : zero = [x \in (1..N) \cup S |-> 0]
    OBVIOUS
  <2>5. \A i \in S : \E n \in 1..N : i = s[n] /\ share[n] # 0 /\ plan[i] = share[n]
    BY <1>11, <2>1
  <2>6. PICK m : m = [i \in S |-> CHOOSE n \in 1..N : i = s[n] /\ share[n] # 0 /\ plan[i] = share[n]]
    OBVIOUS
  <2>7. m \in [S -> 1..N] /\ \A i \in S : i = s[m[i]] /\ plan[i] = share[m[i]]
    BY <2>5, <2>6
  <2>8. \A y, z \in S : m[y] = m[z] => y = z
    BY <2>7
  <2>9. \A x \in 1..N : (\A y \in S : m[y] # x) => zero[x] = share[x]
    <3> SUFFICES ASSUME NEW x \in 1..N, share[x] # 0 PROVE \E y \in S : m[y] = x
      BY <2>4
    <3>1. s[x] \in S
      BY <1>11, <2>1
    <3>2. s[m[s[x]]] = s[x] /\ m[s[x]] \in 1..N
      BY <2>7, <3>1
    <3>3. m[s[x]] = x
      BY <1>2, <3>2
    <3> QED
      BY <3>1, <3>3
  <2>10. /\ \A x \in 1..N : share[x] \in Int /\ zero[x] \in Int
         /\ \A y \in S : zero[y] \in Int /\ plan[y] \in Int
         /\ \A y \in S : zero[m[y]] + plan[y] = share[m[y]] + zero[y]
    BY <1>8, <2>4, <2>7
  <2>11. /\ m \in [S -> R] /\ \A x \in R : (\A y \in S : m[y] # x) => zero[x] = share[x]
         /\ \A x \in R : share[x] \in Int /\ zero[x] \in Int
         /\ \A x \in R : zero[x] = 0
         /\ \A y \in S : zero[y] = 0
    BY <2>2, <2>4, <2>7, <2>9, <2>10
  <2>12. Total(zero, R) + Total(plan, S) = Total(share, R) + Total(zero, S)
    BY ONLY <2>3, <2>11, <2>8, <2>10, TotalsMove
  <2>13. Total(zero, R) = 0 /\ Total(zero, S) = 0
    BY <2>3, <2>11, TotalZero
  <2>14. Total(plan, S) \in Int /\ Total(share, R) \in Int
    BY <2>3, <2>10, <2>11, TotalType
  <2>15. Total(plan, S) = Total(share, R)
    BY <2>12, <2>13, <2>14
  <2> QED
    BY <2>2, <2>1, <2>15 DEF Planned, Total
<1>15. ASSUME NEW i \in DOMAIN open, NEW j \in DOMAIN open, open[i].due < open[j].due, Gets(plan, j) > 0
       PROVE  Gets(plan, i) = Remaining(open[i])
  <2>1. PICK a \in 1..N, b \in 1..N : s[a] = i /\ s[b] = j
    BY <1>2
  <2>2. a < b /\ share[b] > 0
    BY <1>2, <1>12, <1>15, <2>1
  <2>3. share[a] = f[a]
    BY <1>8, <2>2
  <2> QED
    BY <1>12, <2>1, <2>3
<1>16. Planned(plan) \in Nat /\ Planned(plan) <= amount
  <2>1. PICK R : R = 1..N
    OBVIOUS
  <2>2. IsFiniteSet(R) /\ \A n \in R : share[n] \in Nat
    BY <1>8, <2>1, FS_Interval
  <2>3. Total(share, R) \in Nat
    BY <2>2, TotalCovers
  <2>4. Total(share, 1..N) \in Nat
    BY <2>1, <2>3
  <2> QED
    BY <1>8, <1>14, <2>4
<1>17. ASSUME Planned(plan) < amount, NEW i \in DOMAIN open
       PROVE  Gets(plan, i) = Remaining(open[i])
  <2>1. left[N] > 0
    BY <1>8, <1>14, <1>17
  <2>2. PICK n \in 1..N : s[n] = i
    BY <1>2
  <2> QED
    BY <1>8, <1>12, <2>1, <2>2
<1> QED
  BY <1>13, <1>15, <1>16, <1>17

-----------------------------------------------------------------------------
\* What the cases of Figures are taken from.
Asked ==
  /\ topic = "match" => \E d \in Documents : given = CaseOf(d)
  /\ topic = "price" => given \in Quotes
  /\ topic = "allocate" => given \in Dues
  /\ topic = "choose" => given \in Markets

LEMMA AlwaysAsked == FiguresSpec => []Asked
<1>1. FiguresInit => Asked
  BY DEF FiguresInit, Asked
<1>2. Asked /\ [FiguresNext]_asked => Asked'
  BY DEF Asked, FiguresNext, AskMatch, AskPrice, AskAllocate, AskChoose, Answered, asked
<1> QED
  BY <1>1, <1>2, PTL DEF FiguresSpec

LEMMA TotalOfIsTotal == \A f : TotalOf(f) = Total(f, DOMAIN f)
BY DEF TotalOf, Total

\* The row of a product is one of the document's.
LEMMA RowIsOne ==
  ASSUME NEW R, NEW rows \in Seq(R), NEW p, Has(rows, p)
  PROVE  Row(rows, p) \in R
<1>1. PICK len \in Nat : DOMAIN rows = 1..len
  <2>1. Len(rows) \in Nat /\ DOMAIN rows = 1..Len(rows)
    OBVIOUS
  <2> QED
    BY <2>1
<1>2. PICK n \in DOMAIN rows : Row(rows, p) = rows[n]
  BY <1>1, LastRow
<1> QED
  BY <1>2

\* The lines of three documents.
LEMMA LinesAreRecords ==
  ASSUME NEW d \in Documents, NEW line \in MatchLines(d.order, d.receipt, d.bill)
  PROVE  line \in LineRecord
<1>1. PICK p : line = MatchLine(d.order, d.receipt, d.bill, p)
  BY DEF MatchLines
<1>2. Has(d.order, p) => Row(d.order, p).price \in Nat
  <2>1. d.order \in Seq([product: Products, price: Nat])
    BY DocumentsAssumption
  <2>2. Has(d.order, p) => Row(d.order, p) \in [product: Products, price: Nat]
    BY <2>1, RowIsOne
  <2> QED
    BY <2>2
<1>3. Has(d.receipt, p) => Row(d.receipt, p).accepted \in Nat
  <2>1. d.receipt \in Seq([product: Products, accepted: Nat])
    BY DocumentsAssumption
  <2>2. Has(d.receipt, p) => Row(d.receipt, p) \in [product: Products, accepted: Nat]
    BY <2>1, RowIsOne
  <2> QED
    BY <2>2
<1>4. Has(d.bill, p) => /\ Row(d.bill, p).quantity \in Nat /\ Row(d.bill, p).price \in Nat
                        /\ Row(d.bill, p).total \in Nat
  <2> DEFINE R == [product: Products \cup {"NONE"}, quantity: Nat, price: Nat, total: Nat]
  <2>1. d.bill \in Seq(R)
    BY DocumentsAssumption
  <2>2. Has(d.bill, p) => Row(d.bill, p) \in R
    <3> HIDE DEF R
    <3> QED
      BY <2>1, RowIsOne
  <2> QED
    BY <2>2
<1> QED
  BY <1>1, <1>2, <1>3, <1>4 DEF MatchLine, LineRecord

\* The three documents of a case.
LEMMA ApprovedAgree == Asked => ApprovedMeansAgreed
<1> SUFFICES ASSUME NEW d \in Documents, given = CaseOf(d), Judged(given) = "AUTO_APPROVE"
             PROVE  /\ \A line \in given.lines :
                         /\ line.on = {"po", "grn", "inv"}
                         /\ 50 * line.quantity \in 49 * line.accepted .. 51 * line.accepted
                         /\ 100 * line.price \in 99 * line.agreed .. 101 * line.agreed
                    /\ NamesTwice(given.bill) \/
                         given.flags.sum <= TotalOf([n \in DOMAIN given.bill |->
                                              DueFor(given, given.bill[n].product) + 100])
  BY DEF Asked, ApprovedMeansAgreed
<1>1. PICK order, receipt, bill, flags :
        /\ order = d.order /\ receipt = d.receipt /\ bill = d.bill /\ flags = given.flags
  OBVIOUS
<1>2. /\ given.order = order /\ given.receipt = receipt /\ given.bill = bill
      /\ given.lines = MatchLines(order, receipt, bill)
      /\ flags.unmatched = Has(bill, "NONE")
      /\ flags.sum = TotalOf([n \in DOMAIN bill |-> bill[n].total])
  BY <1>1 DEF CaseOf
<1>3. Verdict(MatchLines(order, receipt, bill), flags, DefaultTolerances) = "AUTO_APPROVE"
  BY <1>1, <1>2 DEF Judged
<1>4. ASSUME NEW line \in given.lines
      PROVE  /\ line.on = {"po", "grn", "inv"}
             /\ 50 * line.quantity \in 49 * line.accepted .. 51 * line.accepted
             /\ 100 * line.price \in 99 * line.agreed .. 101 * line.agreed
  <2>1. line \in LineRecord
    BY <1>1, <1>2, LinesAreRecords
  <2>2. IsLine(line) /\ line.on \subseteq {"po", "grn", "inv"}
    BY <2>1 DEF LineRecord, IsLine
  <2>3. /\ {"po", "grn", "inv"} \subseteq line.on
        /\ 50 * line.quantity \in 49 * line.accepted .. 51 * line.accepted
        /\ 100 * line.price \in 99 * line.agreed .. 101 * line.agreed
    BY <1>2, <1>3, <2>2, ApprovedLinesAgree
  <2> QED
    BY <2>2, <2>3
<1>5. ASSUME ~NamesTwice(bill)
      PROVE  flags.sum <= TotalOf([n \in DOMAIN bill |-> DueFor(given, bill[n].product) + 100])
  <2> DEFINE P == Products \cup {"NONE"}
             billed == [n \in DOMAIN bill |-> bill[n].total]
             dues == [n \in DOMAIN bill |->
                        Row(receipt, bill[n].product).accepted * Row(order, bill[n].product).price
                          + 100]
  <2>1. order \in Seq([product: P, price: Nat]) /\ receipt \in Seq([product: P, accepted: Nat])
    <3>1. ASSUME NEW R, NEW Q, R \subseteq Q, NEW s \in Seq(R) PROVE s \in Seq(Q)
      BY <3>1
    <3>2. /\ [product: Products, price: Nat] \subseteq [product: P, price: Nat]
          /\ [product: Products, accepted: Nat] \subseteq [product: P, accepted: Nat]
      OBVIOUS
    <3>3. /\ order \in Seq([product: Products, price: Nat])
          /\ receipt \in Seq([product: Products, accepted: Nat])
      BY <1>1, DocumentsAssumption
    <3> QED
      BY <3>1, <3>2, <3>3
  <2>2. bill \in Seq([product: P, quantity: Nat, price: Nat, total: Nat])
    BY <1>1, DocumentsAssumption
  <2>3. Papers(P, order, receipt, bill)
    <3> HIDE DEF P
    <3> QED
      BY <2>1, <2>2 DEF Papers
  <2>4. Total(billed, DOMAIN bill) <= Total(dues, DOMAIN bill)
    <3>1. WithinDue(order, receipt, bill)
      BY <1>2, <1>3, <1>5, <2>3, ApprovedBillIsDue
    <3> QED
      BY <3>1 DEF WithinDue
  <2>5. flags.sum = Total(billed, DOMAIN bill)
    BY <1>2, TotalOfIsTotal
  <2>6. [n \in DOMAIN bill |-> DueFor(given, bill[n].product) + 100] = dues
    BY <1>2 DEF DueFor
  <2>7. TotalOf(dues) = Total(dues, DOMAIN bill)
    BY TotalOfIsTotal
  <2> HIDE DEF billed, dues
  <2> QED
    BY <2>4, <2>5, <2>6, <2>7
<1> QED
  BY <1>1, <1>2, <1>4, <1>5

\* services/matching.py: for any documents, an invoice that is approved automatically
\* agrees with its order and its receipt in each line, and as a whole.
THEOREM ApprovalsAgree == FiguresSpec => []ApprovedMeansAgreed
BY AlwaysAsked, ApprovedAgree, PTL
\* What marks the bill of a case.
LEMMA MarksAreTyped ==
  ASSUME NEW d \in Documents
  PROVE  CaseOf(d).flags \in [unmatched: BOOLEAN, twin: BOOLEAN, first: BOOLEAN,
                              weekend: BOOLEAN, sum: Nat]
<1> DEFINE totals == [n \in DOMAIN d.bill |-> d.bill[n].total]
<1>1. DOMAIN d.bill = 1..Len(d.bill) /\ Len(d.bill) \in Nat
  BY DocumentsAssumption
<1>2. IsFiniteSet(DOMAIN d.bill)
  BY <1>1, FS_Interval
<1>3. \A n \in DOMAIN d.bill : totals[n] \in Nat
  <2> DEFINE R == [product: Products \cup {"NONE"}, quantity: Nat, price: Nat, total: Nat]
  <2>1. ASSUME NEW Q, NEW s \in Seq(Q) PROVE \A n \in DOMAIN s : s[n] \in Q
    OBVIOUS
  <2>2. d.bill \in Seq(R)
    BY DocumentsAssumption
  <2>3. \A n \in DOMAIN d.bill : d.bill[n] \in R
    <3> HIDE DEF R
    <3> QED
      BY <2>1, <2>2, Zenon
  <2> QED
    BY <2>3
<1>4. TotalOf(totals) \in Nat
  <2>1. PICK S, f : S = DOMAIN d.bill /\ f = totals /\ DOMAIN f = S
    OBVIOUS
  <2> HIDE DEF totals
  <2>2. Total(f, S) \in Nat
    BY <1>2, <1>3, <2>1, TotalCovers
  <2> QED
    BY <2>1, <2>2, TotalOfIsTotal
<1>5. d.marks \in Marks
  BY DocumentsAssumption
<1> QED
  BY <1>4, <1>5 DEF CaseOf, Marks, Has

LEMMA FurtherCases == Asked => FurtherIsNoBetter
<1> SUFFICES ASSUME NEW d \in Documents, given = CaseOf(d)
             PROVE  /\ \A line \in given.lines : \A n \in Amounts :
                         LET rest == given.lines \ {line} IN
                         /\ Further(n, line.quantity, Accepted(line))
                              => RankOf(rest \cup {[line EXCEPT !.quantity = n]}, given.flags)
                                   >= Rank[Judged(given)]
                         /\ Further(n, line.price, line.agreed)
                              => RankOf(rest \cup {[line EXCEPT !.price = n]}, given.flags)
                                   >= Rank[Judged(given)]
                    /\ \A mark \in {"twin", "first", "weekend", "unmatched"} :
                         RankOf(given.lines, [given.flags EXCEPT ![mark] = TRUE])
                           >= Rank[Judged(given)]
  BY DEF Asked, FurtherIsNoBetter
<1>1. PICK lines, flags, tol : lines = given.lines /\ flags = given.flags /\ tol = DefaultTolerances
  OBVIOUS
<1>2. lines = MatchLines(d.order, d.receipt, d.bill) /\ flags = CaseOf(d).flags
  BY <1>1 DEF CaseOf
<1>3. tol.qty \in Nat /\ tol.price \in Nat
  BY <1>1 DEF DefaultTolerances
<1>4. ASSUME NEW line \in lines, NEW n \in Amounts, NEW far,
             \/ /\ far = [line EXCEPT !.quantity = n]
                /\ Further(n, line.quantity, Accepted(line))
             \/ /\ far = [line EXCEPT !.price = n]
                /\ Further(n, line.price, line.agreed)
      PROVE  RankOf((lines \ {line}) \cup {far}, flags) >= Rank[Judged(given)]
  <2>1. n \in Nat
    BY DocumentsAssumption
  <2>2. line \in LineRecord
    BY <1>2, LinesAreRecords
  <2>3. Accepted(line) \in Nat /\ line.quantity \in Nat /\ line.price \in Nat /\ line.agreed \in Nat
    BY <2>2 DEF LineRecord, Accepted
  <2>4. \/ /\ far = [line EXCEPT !.quantity = n]
           /\ Size(line.quantity - Accepted(line)) <= Size(n - Accepted(line))
        \/ /\ far = [line EXCEPT !.price = n]
           /\ Size(line.price - line.agreed) <= Size(n - line.agreed)
    BY <1>4, <2>1, <2>3 DEF Further, Size
  <2>5. Rank[Verdict(lines, flags, tol)]
          <= Rank[Verdict((lines \ {line}) \cup {far}, flags, tol)]
    BY <1>3, <2>1, <2>2, <2>4, FurtherNeverBetter
  <2> QED
    BY <1>1, <2>5 DEF RankOf, Judged
<1>5. ASSUME NEW mark \in {"twin", "first", "weekend", "unmatched"}
      PROVE  RankOf(lines, [flags EXCEPT ![mark] = TRUE]) >= Rank[Judged(given)]
  <2>1. flags \in [unmatched: BOOLEAN, twin: BOOLEAN, first: BOOLEAN, weekend: BOOLEAN, sum: Nat]
    BY <1>2, MarksAreTyped
  <2>2. Rank[Verdict(lines, flags, tol)] <= Rank[Verdict(lines, [flags EXCEPT ![mark] = TRUE], tol)]
    BY <2>1, MarkedIsNoBetter
  <2> QED
    BY <1>1, <2>2 DEF RankOf, Judged
<1> QED
  BY <1>1, <1>4, <1>5

\* services/matching.py: for any documents, billing further away from what was agreed,
\* or a mark against the bill, never gets a better verdict.
THEOREM FurtherAlwaysNoBetter == FiguresSpec => []FurtherIsNoBetter
BY AlwaysAsked, FurtherCases, PTL

LEMMA OldestCases == Asked => OldestFirst
<1> SUFFICES ASSUME NEW d \in Dues, given = d, NEW plan \in AutoPlans(d.open, d.amount)
             PROVE  LET owes(i) == Remaining(d.open[i]) - Gets(plan, i)
                    IN /\ \A i, j \in DOMAIN d.open :
                            d.open[i].due < d.open[j].due /\ Gets(plan, j) > 0 => owes(i) = 0
                       /\ Unapplied(plan, d.amount) >= 0 /\ \A i \in DOMAIN d.open : owes(i) >= 0
                       /\ Unapplied(plan, d.amount) > 0 => \A i \in DOMAIN d.open : owes(i) = 0
  BY DEF Asked, OldestFirst
<1>0. PICK open : open = d.open
  OBVIOUS
<1>1. PICK amount \in Nat : open = d.open /\ amount = d.amount
  BY <1>0, DuesAssumption
<1>2. IsFiniteSet(DOMAIN open)
  BY <1>1, DuesAssumption
<1>3. \A i \in DOMAIN open : /\ open[i].total \in Nat /\ open[i].paid \in Nat
                             /\ open[i].paid <= open[i].total /\ open[i].due \in Int
  <2>1. \A i \in DOMAIN open : /\ open[i].total \in Nat /\ open[i].due \in Int
                               /\ open[i].paid \in 0..open[i].total
    BY <1>1, DuesAssumption
  <2> QED
    BY <2>1
<1>4. plan \in AutoPlans(open, amount)
  BY <1>1
<1>5. /\ DOMAIN plan \subseteq DOMAIN open
      /\ \A i \in DOMAIN plan : plan[i] \in 1..Remaining(open[i])
      /\ Planned(plan) \in Nat /\ Planned(plan) <= amount
      /\ \A i, j \in DOMAIN open :
           open[i].due < open[j].due /\ Gets(plan, j) > 0 => Gets(plan, i) = Remaining(open[i])
      /\ Planned(plan) < amount => \A i \in DOMAIN open : Gets(plan, i) = Remaining(open[i])
  BY <1>2, <1>3, <1>4, OldestPaidFirst
<1>6. \A i \in DOMAIN open : /\ Remaining(open[i]) \in Nat /\ Gets(plan, i) \in Nat
                             /\ Gets(plan, i) <= Remaining(open[i])
  BY <1>3, <1>5 DEF Remaining, Gets
<1>7. /\ Unapplied(plan, amount) >= 0
      /\ Unapplied(plan, amount) > 0 => Planned(plan) < amount
  BY <1>5 DEF Unapplied
<1> QED
  BY <1>1, <1>5, <1>6, <1>7

\* services/payments.py: for any open invoices and any amount, a payment that names no
\* invoice clears the oldest first.
THEOREM OldestAlwaysFirst == FiguresSpec => []OldestFirst
BY AlwaysAsked, OldestCases, PTL-----------------------------------------------------------------------------
\* Products of natural numbers keep their order.
LEMMA TimesKeepsOrder ==
  ASSUME NEW a \in Nat, NEW b \in Nat, NEW c \in Nat
  PROVE  /\ a <= b => a * c <= b * c
         /\ a < b /\ c > 0 => a * c < b * c
OBVIOUS

LEMMA PositiveProduct ==
  ASSUME NEW a \in Nat, NEW b \in Nat, a > 0, b > 0
  PROVE  a * b \in Nat /\ a * b > 0
OBVIOUS

\* The factors of two products, exchanged.
LEMMA Exchange ==
  ASSUME NEW a \in Nat, NEW b \in Nat, NEW c \in Nat, NEW d \in Nat
  PROVE  (a * b) * (c * d) = (a * c) * (b * d)
OBVIOUS

\* What an offer scores for its price (a), its lead time (e) and the rest (w), at
\* the scale of the price x and the lead time l.
Weighed(a, e, w, x, l) == 40 * (a * l) + 25 * (e * x) + w * (x * l)

LEMMA WeighedType ==
  ASSUME NEW a \in Nat, NEW e \in Nat, NEW w \in Nat, NEW x \in Nat, NEW l \in Nat
  PROVE  Weighed(a, e, w, x, l) \in Nat
BY DEF Weighed

\* Two offers at a common scale.
LEMMA CommonScale ==
  ASSUME NEW a \in Nat, NEW e \in Nat, NEW w \in Nat, NEW x \in Nat, NEW l \in Nat,
         NEW y \in Nat, NEW k \in Nat, NEW p \in Nat, p = a * y, NEW q \in Nat, q = e * k,
         NEW m \in Nat, m = l * k, NEW n \in Nat, n = x * y, NEW r \in Nat, r = (x * l) * (y * k)
  PROVE  Weighed(a, e, w, x, l) * (y * k) = 40 * (p * m) + 25 * (q * n) + w * r
<1>1. PICK s \in Nat, t \in Nat, u \in Nat, z \in Nat :
        s = a * l /\ t = e * x /\ u = w * (x * l) /\ z = y * k
  OBVIOUS
<1>2. Weighed(a, e, w, x, l) = 40 * s + 25 * t + u
  BY <1>1 DEF Weighed
<1>3. (40 * s + 25 * t + u) * z = 40 * (s * z) + 25 * (t * z) + u * z
  OBVIOUS
<1>4. s * z = p * m
  BY <1>1, Exchange
<1>5. t * z = q * n
  <2>1. z = k * y
    BY <1>1
  <2> QED
    BY <1>1, <2>1, Exchange
<1>6. u * z = w * r
  BY <1>1
<1> QED
  BY <1>1, <1>2, <1>3, <1>4, <1>5, <1>6

LEMMA WeighedOrder ==
  ASSUME NEW a \in Nat, NEW e \in Nat, NEW w \in Nat, NEW x \in Nat, NEW l \in Nat,
         NEW b \in Nat, NEW f \in Nat, NEW v \in Nat, NEW y \in Nat, NEW k \in Nat,
         x > 0, l > 0, y > 0, k > 0, b * x <= a * y, f * l <= e * k, v <= w
  PROVE  /\ Weighed(b, f, v, y, k) * (x * l) <= Weighed(a, e, w, x, l) * (y * k)
         /\ b * x < a * y \/ f * l < e * k \/ v < w
              => Weighed(b, f, v, y, k) * (x * l) < Weighed(a, e, w, x, l) * (y * k)
<1>1. PICK p1 \in Nat, p2 \in Nat, q1 \in Nat, q2 \in Nat :
        p1 = a * y /\ p2 = b * x /\ q1 = e * k /\ q2 = f * l
  OBVIOUS
<1>2. PICK m \in Nat, n \in Nat, r \in Nat :
        m = l * k /\ n = x * y /\ r = (x * l) * (y * k) /\ m > 0 /\ n > 0 /\ r > 0
  <2>1. l * k \in Nat /\ l * k > 0 /\ x * y \in Nat /\ x * y > 0
    BY PositiveProduct
  <2>2. x * l \in Nat /\ x * l > 0 /\ y * k \in Nat /\ y * k > 0
    BY PositiveProduct
  <2>3. (x * l) * (y * k) \in Nat /\ (x * l) * (y * k) > 0
    BY <2>2, PositiveProduct
  <2> QED
    BY <2>1, <2>3
<1>3. Weighed(a, e, w, x, l) * (y * k) = 40 * (p1 * m) + 25 * (q1 * n) + w * r
  BY <1>1, <1>2, CommonScale, SMTT(30)
<1>4. Weighed(b, f, v, y, k) * (x * l) = 40 * (p2 * m) + 25 * (q2 * n) + v * r
  <2>1. k * l = m /\ y * x = n /\ (y * k) * (x * l) = r
    BY <1>2
  <2> QED
    BY <1>1, <1>2, <2>1, CommonScale, SMTT(30)
<1>5. /\ p2 * m <= p1 * m /\ q2 * n <= q1 * n /\ v * r <= w * r
      /\ p2 < p1 => p2 * m < p1 * m
      /\ q2 < q1 => q2 * n < q1 * n
      /\ v < w => v * r < w * r
  BY <1>1, <1>2, TimesKeepsOrder
<1>6. /\ p1 * m \in Nat /\ p2 * m \in Nat /\ q1 * n \in Nat /\ q2 * n \in Nat
      /\ w * r \in Nat /\ v * r \in Nat
  OBVIOUS
<1>7. b * x < a * y \/ f * l < e * k \/ v < w <=> p2 < p1 \/ q2 < q1 \/ v < w
  BY <1>1
<1> QED
  BY ONLY <1>3, <1>4, <1>5, <1>6, <1>7

\* The cut at 100 points keeps the order, and the strict order below it.
LEMMA CappedOrder ==
  ASSUME NEW a \in Nat, NEW s \in Nat, NEW b \in Nat, NEW t \in Nat, s > 0, t > 0,
         b * s <= a * t, NEW c \in Int, NEW d \in Int,
         c = IF a <= 10000 * s THEN a ELSE 10000 * s,
         d = IF b <= 10000 * t THEN b ELSE 10000 * t
  PROVE  /\ c * t >= d * s
         /\ b * s < a * t => d = 10000 * t \/ ~(d * s >= c * t)
<1>1. PICK m \in Nat, n \in Nat : m = 10000 * s /\ n = 10000 * t
  OBVIOUS
<1>2. m * t = n * s
  BY <1>1
<1>3. b <= n => b * s <= n * s
  BY TimesKeepsOrder
<1>4. b < n => b * s < n * s
  BY TimesKeepsOrder
<1>5. n <= b => n * s <= b * s
  BY TimesKeepsOrder
<1>6. PICK bs \in Nat, at \in Nat, ns \in Nat : bs = b * s /\ at = a * t /\ ns = n * s
  OBVIOUS
<1>7. c * t = (IF a <= m THEN at ELSE ns)
  BY <1>1, <1>2, <1>6
<1>8. d * s = (IF b <= n THEN bs ELSE ns)
  BY <1>1, <1>6
<1>9. (b <= n => bs <= ns) /\ (b < n => bs < ns) /\ (n <= b => ns <= bs) /\ bs <= at
  BY <1>3, <1>4, <1>5, <1>6
<1>10. a <= m => at <= ns
  BY <1>2, <1>6, TimesKeepsOrder
<1>11. d = n \/ b < n
  BY <1>1
<1>12. PICK ct \in Int, ds \in Int : ct = c * t /\ ds = d * s
  OBVIOUS
<1> QED
  BY <1>1, <1>6, <1>7, <1>8, <1>9, <1>10, <1>11, <1>12

\* What an offer earns for its price, for its lead time, and for the rest.
PricePart(o, offers) == IF o.price > 0 THEN 100 * Cheapest(offers) ELSE 100
LeadPart(o, offers) == IF o.lead > 0 THEN 100 * Fastest(offers) ELSE 100
OtherPart(o) == 35 * o.reliability + IF o.preferred THEN 500 ELSE 0

\* Offers for one product.
IsMarket(offers) ==
  \A o \in offers : /\ o.price \in Nat /\ o.lead \in Nat /\ o.reliability \in Nat
                    /\ o.preferred \in BOOLEAN

LEMMA LeastOfNumbers ==
  ASSUME NEW T \in SUBSET Nat, T # {}
  PROVE  Min(T) \in T /\ \A n \in T : Min(T) <= n
<1>1. \E m \in T : \A n \in T : m <= n
  BY LeastNatural
<1> QED
  BY <1>1 DEF Min

LEMMA LeastOffers ==
  ASSUME NEW offers, IsMarket(offers), NEW o \in offers
  PROVE  /\ Cheapest(offers) \in Nat /\ Cheapest(offers) <= o.price
         /\ Fastest(offers) \in Nat /\ Fastest(offers) <= o.lead
<1>1. PICK P, L : P = {q.price : q \in offers} /\ L = {q.lead : q \in offers}
  OBVIOUS
<1>2. P \in SUBSET Nat /\ o.price \in P /\ L \in SUBSET Nat /\ o.lead \in L
  BY <1>1 DEF IsMarket
<1>3. Min(P) \in P /\ Min(P) <= o.price /\ Min(L) \in L /\ Min(L) <= o.lead
  BY <1>2, LeastOfNumbers
<1> QED
  BY <1>1, <1>2, <1>3 DEF Cheapest, Fastest

LEMMA AtLeastOne ==
  ASSUME NEW n \in Nat
  PROVE  Positive(n) = IF n > 0 THEN n ELSE 1
<1>1. \E x \in {n, 1} : \A y \in {n, 1} : x >= y
  OBVIOUS
<1>2. Max({n, 1}) \in {n, 1} /\ \A y \in {n, 1} : Max({n, 1}) >= y
  BY <1>1 DEF Max
<1> QED
  BY <1>2 DEF Positive

LEMMA SmallerOfTwo ==
  ASSUME NEW m \in Int, NEW n \in Int
  PROVE  Min({m, n}) = IF m <= n THEN m ELSE n
<1>1. \E x \in {m, n} : \A y \in {m, n} : x <= y
  OBVIOUS
<1>2. Min({m, n}) \in {m, n} /\ \A y \in {m, n} : Min({m, n}) <= y
  BY <1>1 DEF Min
<1> QED
  BY <1>2

\* The score of an offer, by its parts.
LEMMA ScoreByParts ==
  ASSUME NEW offers, IsMarket(offers), NEW o \in offers,
         NEW a, a = PricePart(o, offers), NEW e, e = LeadPart(o, offers), NEW w, w = OtherPart(o),
         NEW x, x = Positive(o.price), NEW l, l = Positive(o.lead)
  PROVE  /\ a \in Nat /\ e \in Nat /\ w \in Nat /\ x \in Nat /\ x > 0 /\ l \in Nat /\ l > 0
         /\ Scale(o) = x * l
         /\ Score(o, offers) = IF Weighed(a, e, w, x, l) <= 10000 * (x * l)
                               THEN Weighed(a, e, w, x, l) ELSE 10000 * (x * l)
<1>1. /\ o.price \in Nat /\ o.lead \in Nat /\ o.reliability \in Nat /\ o.preferred \in BOOLEAN
      /\ Cheapest(offers) \in Nat /\ Fastest(offers) \in Nat
  BY LeastOffers DEF IsMarket
<1>2. a \in Nat /\ e \in Nat /\ w \in Nat
  BY <1>1 DEF PricePart, LeadPart, OtherPart
<1>3. x \in Nat /\ x > 0 /\ l \in Nat /\ l > 0
  BY <1>1, AtLeastOne
<1>4. Scale(o) = x * l
  BY DEF Scale
<1>5. PriceScore(o, offers) = a * l /\ LeadScore(o, offers) = e * x
  BY DEF PriceScore, LeadScore, PricePart, LeadPart
<1>6. Score(o, offers) = Min({Weighed(a, e, w, x, l), 10000 * (x * l)})
  BY <1>4, <1>5 DEF Score, Weighed, OtherPart
<1>7. Weighed(a, e, w, x, l) \in Int /\ 10000 * (x * l) \in Int
  BY <1>2, <1>3 DEF Weighed
<1> QED
  BY <1>2, <1>3, <1>4, <1>6, <1>7, SmallerOfTwo

\* The parts of an offer's score, and what they make of it.
ScoredAs(o, offers, a, e, w, x, l) ==
  /\ a = PricePart(o, offers) /\ e = LeadPart(o, offers) /\ w = OtherPart(o)
  /\ x = Positive(o.price) /\ l = Positive(o.lead) /\ x > 0 /\ l > 0
  /\ Scale(o) = x * l
  /\ Score(o, offers) = IF Weighed(a, e, w, x, l) <= 10000 * (x * l)
                        THEN Weighed(a, e, w, x, l) ELSE 10000 * (x * l)

LEMMA OfferScored ==
  ASSUME NEW offers, IsMarket(offers), NEW o \in offers
  PROVE  \E a \in Nat, e \in Nat, w \in Nat, x \in Nat, l \in Nat :
           ScoredAs(o, offers, a, e, w, x, l)
<1>1. PICK a, e, w, x, l :
        /\ a = PricePart(o, offers) /\ e = LeadPart(o, offers) /\ w = OtherPart(o)
        /\ x = Positive(o.price) /\ l = Positive(o.lead)
  OBVIOUS
<1>2. a \in Nat /\ e \in Nat /\ w \in Nat /\ x \in Nat /\ l \in Nat
  BY <1>1, ScoreByParts
<1>3. ScoredAs(o, offers, a, e, w, x, l)
  BY <1>1, ScoreByParts DEF ScoredAs
<1> QED
  BY <1>2, <1>3

\* In each part an offer that is no worse earns no less.
LEMMA PartsInOrder ==
  ASSUME NEW offers, IsMarket(offers), NEW o \in offers, NEW p \in offers, NoWorse(o, p)
  PROVE  /\ PricePart(p, offers) * Positive(o.price) <= PricePart(o, offers) * Positive(p.price)
         /\ LeadPart(p, offers) * Positive(o.lead) <= LeadPart(o, offers) * Positive(p.lead)
         /\ OtherPart(p) <= OtherPart(o)
         /\ WorseInSome(p, o, offers) =>
              \/ PricePart(p, offers) * Positive(o.price) < PricePart(o, offers) * Positive(p.price)
              \/ LeadPart(p, offers) * Positive(o.lead) < LeadPart(o, offers) * Positive(p.lead)
              \/ OtherPart(p) < OtherPart(o)
<1> DEFINE Part(n, least) == IF n > 0 THEN 100 * least ELSE 100
<1>1. ASSUME NEW m \in Nat, NEW n \in Nat, NEW least \in Nat, m <= n, least <= m
      PROVE  /\ Part(n, least) * Positive(m) <= Part(m, least) * Positive(n)
             /\ m < n /\ (least > 0 \/ m = 0)
                  => Part(n, least) * Positive(m) < Part(m, least) * Positive(n)
  <2>1. CASE m = 0
    <3>1. Positive(m) = 1 /\ Positive(n) = IF n > 0 THEN n ELSE 1
      BY <2>1, AtLeastOne
    <3>2. Part(m, least) = 100 /\ Part(n, least) = IF n > 0 THEN 0 ELSE 100
      BY <1>1, <2>1
    <3> HIDE DEF Part
    <3> QED
      BY <3>1, <3>2
  <2>2. CASE m > 0
    <3>1. Positive(m) = m /\ Positive(n) = n
      BY <1>1, <2>2, AtLeastOne
    <3>2. PICK c \in Nat : c = 100 * least /\ (least > 0 => c > 0)
      OBVIOUS
    <3>3. Part(m, least) = c /\ Part(n, least) = c
      BY <1>1, <2>2, <3>2
    <3>4. m * c <= n * c /\ (m < n /\ c > 0 => m * c < n * c)
      BY <1>1, TimesKeepsOrder
    <3>5. c * m = m * c /\ c * n = n * c
      OBVIOUS
    <3> HIDE DEF Part
    <3> QED
      BY <2>2, <3>1, <3>2, <3>3, <3>4, <3>5
  <2> QED
    BY <2>1, <2>2
<1>2. /\ o.price \in Nat /\ o.lead \in Nat /\ o.reliability \in Nat /\ o.preferred \in BOOLEAN
      /\ p.price \in Nat /\ p.lead \in Nat /\ p.reliability \in Nat /\ p.preferred \in BOOLEAN
      /\ o.price <= p.price /\ o.lead <= p.lead /\ o.reliability >= p.reliability
      /\ p.preferred => o.preferred
  BY DEF IsMarket, NoWorse
<1>3. PICK C \in Nat, F \in Nat : /\ C = Cheapest(offers) /\ C <= o.price
                                  /\ F = Fastest(offers) /\ F <= o.lead
  BY LeastOffers
<1>4. /\ PricePart(o, offers) = Part(o.price, C) /\ PricePart(p, offers) = Part(p.price, C)
      /\ LeadPart(o, offers) = Part(o.lead, F) /\ LeadPart(p, offers) = Part(p.lead, F)
  BY <1>3 DEF PricePart, LeadPart
<1>5. /\ OtherPart(p) <= OtherPart(o)
      /\ o.reliability > p.reliability \/ (o.preferred /\ ~p.preferred)
           => OtherPart(p) < OtherPart(o)
  BY <1>2 DEF OtherPart
<1> HIDE DEF Part
<1>6. /\ Part(p.price, C) * Positive(o.price) <= Part(o.price, C) * Positive(p.price)
      /\ o.price < p.price /\ (C > 0 \/ o.price = 0)
           => Part(p.price, C) * Positive(o.price) < Part(o.price, C) * Positive(p.price)
  BY <1>1, <1>2, <1>3
<1>7. /\ Part(p.lead, F) * Positive(o.lead) <= Part(o.lead, F) * Positive(p.lead)
      /\ o.lead < p.lead /\ (F > 0 \/ o.lead = 0)
           => Part(p.lead, F) * Positive(o.lead) < Part(o.lead, F) * Positive(p.lead)
  BY <1>1, <1>2, <1>3
<1> QED
  BY <1>3, <1>4, <1>5, <1>6, <1>7 DEF WorseInSome

\* services/procurement.py, score_suppliers: of any offers, one that is no worse than
\* another ranks no lower, and higher below 100 points if it is better in something.
LEMMA BetterRanksHigher ==
  ASSUME NEW offers, IsMarket(offers), NEW o \in offers, NEW p \in offers, NoWorse(o, p)
  PROVE  /\ AtLeastAsGood(o, p, offers)
         /\ WorseInSome(p, o, offers) => ~AtLeastAsGood(p, o, offers) \/ AtCap(p, offers)
<1>1. PICK a \in Nat, e \in Nat, w \in Nat, x \in Nat, l \in Nat :
        ScoredAs(o, offers, a, e, w, x, l)
  BY OfferScored
<1>2. PICK b \in Nat, f \in Nat, v \in Nat, y \in Nat, k \in Nat :
        ScoredAs(p, offers, b, f, v, y, k)
  BY OfferScored
<1>3. /\ b * x <= a * y /\ f * l <= e * k /\ v <= w
      /\ WorseInSome(p, o, offers) => b * x < a * y \/ f * l < e * k \/ v < w
  BY <1>1, <1>2, PartsInOrder DEF ScoredAs
<1>4. PICK A \in Nat, B \in Nat, s \in Nat, t \in Nat :
        /\ A = Weighed(a, e, w, x, l) /\ B = Weighed(b, f, v, y, k)
        /\ s = x * l /\ t = y * k /\ s > 0 /\ t > 0
  <2>1. Weighed(a, e, w, x, l) \in Nat /\ Weighed(b, f, v, y, k) \in Nat
    BY WeighedType
  <2>2. x * l \in Nat /\ x * l > 0 /\ y * k \in Nat /\ y * k > 0
    BY <1>1, <1>2, PositiveProduct DEF ScoredAs
  <2> QED
    BY <2>1, <2>2
<1>5. B * s <= A * t /\ (WorseInSome(p, o, offers) => B * s < A * t)
  <2>1. /\ Weighed(b, f, v, y, k) * (x * l) <= Weighed(a, e, w, x, l) * (y * k)
        /\ b * x < a * y \/ f * l < e * k \/ v < w
             => Weighed(b, f, v, y, k) * (x * l) < Weighed(a, e, w, x, l) * (y * k)
    <3>1. x > 0 /\ l > 0 /\ y > 0 /\ k > 0
      BY <1>1, <1>2 DEF ScoredAs
    <3>2. b * x <= a * y /\ f * l <= e * k /\ v <= w
      BY <1>3
    <3> QED
      BY <3>1, <3>2, WeighedOrder, Zenon
  <2> QED
    BY <1>3, <1>4, <2>1
<1>6. PICK c \in Int, d \in Int :
        /\ c = Score(o, offers) /\ c = IF A <= 10000 * s THEN A ELSE 10000 * s
        /\ d = Score(p, offers) /\ d = IF B <= 10000 * t THEN B ELSE 10000 * t
  BY <1>1, <1>2, <1>4 DEF ScoredAs
<1>7. c * t >= d * s /\ (B * s < A * t => d = 10000 * t \/ ~(d * s >= c * t))
  BY <1>4, <1>5, <1>6, CappedOrder
<1>8. Scale(o) = s /\ Scale(p) = t
  BY <1>1, <1>2, <1>4 DEF ScoredAs
<1> QED
  BY <1>5, <1>6, <1>7, <1>8 DEF AtLeastAsGood, AtCap

LEMMA ChoiceCases == Asked => WorseIsNotBest
<1> SUFFICES ASSUME given \in Markets, NEW o \in given, NEW p \in given, NoWorse(o, p)
             PROVE  /\ AtLeastAsGood(o, p, given)
                    /\ WorseInSome(p, o, given) => p \notin Best(given) \/ AtCap(p, given)
  BY DEF Asked, WorseIsNotBest
<1>1. IsMarket(given)
  BY MarketsAssumption DEF IsMarket
<1>2. /\ AtLeastAsGood(o, p, given)
      /\ WorseInSome(p, o, given) => ~AtLeastAsGood(p, o, given) \/ AtCap(p, given)
  BY <1>1, BetterRanksHigher
<1> QED
  BY <1>2 DEF Best

\* services/procurement.py: for any offers, the best supplier is no worse than another
\* in everything, except where it scores 100.
THEOREM WorseNeverBest == FiguresSpec => []WorseIsNotBest
BY AlwaysAsked, ChoiceCases, PTL-----------------------------------------------------------------------------
\* The quotient is the largest number of times that b fits.
LEMMA DivBounds ==
  ASSUME NEW a \in Int, NEW b \in Nat, b > 0
  PROVE  a \div b \in Int /\ b * (a \div b) <= a /\ a < b * (a \div b) + b
OBVIOUS

\* services/pricing.py, _round_money: rounding moves a fraction by no more than a half.
LEMMA HalfUpBounds ==
  ASSUME NEW num \in Int, NEW den \in Nat, den > 0
  PROVE  /\ HalfUp(num, den) \in Int
         /\ 2 * (den * HalfUp(num, den)) <= 2 * num + den
         /\ 2 * num - den < 2 * (den * HalfUp(num, den))
<1>1. PICK a \in Int, b \in Nat : a = 2 * num + den /\ b = 2 * den /\ b > 0
  OBVIOUS
<1>2. PICK q \in Int : q = a \div b /\ b * q <= a /\ a < b * q + b
  BY <1>1, DivBounds
<1>3. b * q = 2 * (den * q)
  BY <1>1
<1> QED
  BY <1>1, <1>2, <1>3 DEF HalfUp

LEMMA HalfUpNamed ==
  ASSUME NEW num \in Int, NEW den \in Nat, den > 0
  PROVE  \E h \in Int, m \in Int : /\ h = HalfUp(num, den) /\ m = den * h
                                   /\ 2 * m <= 2 * num + den /\ 2 * num - den < 2 * m
<1>1. /\ HalfUp(num, den) \in Int
      /\ 2 * (den * HalfUp(num, den)) <= 2 * num + den
      /\ 2 * num - den < 2 * (den * HalfUp(num, den))
  BY HalfUpBounds
<1>2. den * HalfUp(num, den) \in Int
  BY <1>1
<1> QED
  BY <1>1, <1>2

\* Half to even is half up, or one less at the half.
LEMMA HalfEvenBounds ==
  ASSUME NEW num \in Int, NEW den \in Nat, den > 0
  PROVE  /\ HalfEven(num, den) \in Int
         /\ 2 * (den * HalfEven(num, den)) <= 2 * num + den
         /\ 2 * num - den <= 2 * (den * HalfEven(num, den))
<1>1. PICK h \in Int : /\ h = HalfUp(num, den)
                       /\ 2 * (den * h) <= 2 * num + den /\ 2 * num - den < 2 * (den * h)
  BY HalfUpBounds
<1>2. CASE HalfEven(num, den) = h
  BY <1>1, <1>2
<1>3. CASE HalfEven(num, den) = h - 1 /\ (2 * num + den) % (2 * den) = 0
  <2>1. PICK a \in Int, b \in Nat : a = 2 * num + den /\ b = 2 * den /\ b > 0
    OBVIOUS
  <2>2. h = a \div b /\ a % b = 0
    BY <1>1, <1>3, <2>1 DEF HalfUp
  <2>3. a = (b * (a \div b)) + (a % b)
    BY <2>1
  <2>4. b * h = 2 * (den * h)
    BY <2>1
  <2>5. den * (h - 1) = (den * h) - den
    OBVIOUS
  <2> QED
    BY <1>1, <1>3, <2>1, <2>2, <2>3, <2>4, <2>5
<1> QED
  BY <1>1, <1>2, <1>3 DEF HalfEven

\* Two parts of a whole number, rounded each, come to it or to one more.
LEMMA RoundedParts ==
  ASSUME NEW whole \in Nat, NEW part \in Int, NEW rest \in Int, NEW den \in Nat, den > 0,
         part + rest = whole * den
  PROVE  HalfUp(part, den) + HalfUp(rest, den) \in {whole, whole + 1}
<1>1. PICK x \in Int, dx \in Int : /\ x = HalfUp(part, den) /\ dx = den * x
                                    /\ 2 * dx <= 2 * part + den /\ 2 * part - den < 2 * dx
  BY HalfUpNamed
<1>2. PICK y \in Int, dy \in Int : /\ y = HalfUp(rest, den) /\ dy = den * y
                                    /\ 2 * dy <= 2 * rest + den /\ 2 * rest - den < 2 * dy
  BY HalfUpNamed
<1>3. PICK w \in Int : w = whole * den /\ rest = w - part
  OBVIOUS
<1>4. PICK z \in Int, dz \in Int : z = x + y /\ dz = den * z /\ dz = dx + dy
  <2>1. den * (x + y) = (den * x) + (den * y)
    OBVIOUS
  <2> QED
    BY <1>1, <1>2, <2>1
<1>5. w - den < dz /\ dz <= w + den
  BY <1>1, <1>2, <1>3, <1>4
<1>6. ASSUME z <= whole - 1 \/ z >= whole + 2 PROVE FALSE
  <2>1. z <= whole - 1 => dz <= den * (whole - 1)
    BY <1>4
  <2>2. z >= whole + 2 => den * (whole + 2) <= dz
    BY <1>4
  <2>3. den * (whole - 1) = w - den /\ den * (whole + 2) = w + den + den
    BY <1>3
  <2> QED
    BY <1>5, <1>6, <2>1, <2>2, <2>3
<1>7. z \in {whole, whole + 1}
  BY <1>6
<1> QED
  BY <1>1, <1>2, <1>4, <1>7

\* services/pricing.py: no discount is more than what it is a discount of.
LEMMA DiscountWithin ==
  ASSUME NEW of \in Nat, NEW d \in Rebates
  PROVE  Discount(of, d) \in 0..of
<1>1. PICK p \in Nat, a \in Nat : p = d.percent /\ a = d.amount
  BY DEF Rebates
<1>2. PICK q \in Int : q = (of * p) \div 100 /\ of * p < 100 * q + 100
  BY DivBounds
<1>3. of * p \in Nat
  OBVIOUS
<1>4. q >= 0
  BY <1>2, <1>3
<1>5. Discount(of, d) = IF of <= q + a THEN of ELSE q + a
  BY <1>1, <1>2, SmallerOfTwo DEF Discount
<1> QED
  BY <1>4, <1>5

LEMMA NetWithin ==
  ASSUME NEW line \in QuoteLines
  PROVE  /\ line.gross \in Nat /\ Discount(line.gross, line.discount) \in Nat /\ Net(line) \in Nat
         /\ Net(line) = line.gross - Discount(line.gross, line.discount)
<1>1. line.gross \in Nat /\ line.discount \in Rebates
  BY DEF QuoteLines
<1>2. Discount(line.gross, line.discount) \in 0..line.gross
  BY <1>1, DiscountWithin
<1> QED
  BY <1>1, <1>2 DEF Net
\* The lines of a quote.
LEMMA QuoteRows ==
  ASSUME NEW q \in Quotes
  PROVE  /\ Len(q.lines) \in Nat /\ DOMAIN q.lines = 1..Len(q.lines)
         /\ IsFiniteSet(DOMAIN q.lines) /\ Cardinality(DOMAIN q.lines) = Len(q.lines)
         /\ \A n \in DOMAIN q.lines : q.lines[n] \in QuoteLines
<1>1. q.lines \in Seq(QuoteLines)
  BY QuotesAssumption
<1>2. ASSUME NEW Q, NEW s \in Seq(Q)
      PROVE  /\ Len(s) \in Nat /\ DOMAIN s = 1..Len(s) /\ \A n \in DOMAIN s : s[n] \in Q
  OBVIOUS
<1>3. /\ Len(q.lines) \in Nat /\ DOMAIN q.lines = 1..Len(q.lines)
      /\ \A n \in DOMAIN q.lines : q.lines[n] \in QuoteLines
  BY <1>1, <1>2, Zenon
<1>4. PICK len \in Nat : len = Len(q.lines)
  BY <1>3
<1>5. IsFiniteSet(1..len) /\ Cardinality(1..len) = len
  BY FS_Interval
<1> QED
  BY <1>3, <1>4, <1>5

\* What the lines come to, and what the header takes off.
LEMMA QuoteTotals ==
  ASSUME NEW q \in Quotes, NEW f, f = [n \in DOMAIN q.lines |-> Net(q.lines[n])]
  PROVE  /\ \A n \in DOMAIN q.lines : f[n] \in Nat
         /\ NetSubtotal(q.lines) = Total(f, DOMAIN q.lines) /\ NetSubtotal(q.lines) \in Nat
         /\ HeaderDiscount(q.lines, q.header) \in 0..NetSubtotal(q.lines)
<1>1. \A n \in DOMAIN q.lines : f[n] \in Nat
  BY QuoteRows, NetWithin
<1>2. NetSubtotal(q.lines) = TotalOf(f)
  BY DEF NetSubtotal, SumOver
<1>3. TotalOf(f) = Total(f, DOMAIN q.lines)
  BY TotalOfIsTotal
<1>4. Total(f, DOMAIN q.lines) \in Nat
  <2>1. IsFiniteSet(DOMAIN q.lines)
    BY QuoteRows
  <2> QED
    BY <1>1, <2>1, TotalCovers
<1>5. q.header \in Rebates
  BY QuotesAssumption
<1>6. HeaderDiscount(q.lines, q.header) \in 0..NetSubtotal(q.lines)
  BY <1>2, <1>3, <1>4, <1>5, DiscountWithin DEF HeaderDiscount
<1> QED
  BY <1>1, <1>2, <1>3, <1>4, <1>6

LEMMA LargerOfOne ==
  ASSUME NEW n \in Nat
  PROVE  Max({1, n}) = IF n > 0 THEN n ELSE 1
<1>1. Positive(n) = Max({1, n})
  <2>1. {1, n} = {n, 1}
    OBVIOUS
  <2> QED
    BY <2>1 DEF Positive
<1> QED
  BY <1>1, AtLeastOne

\* services/pricing.py, price_order: a line's columns.  hd is the header's discount, den
\* the amount it is shared over.
LEMMA PricedColumns ==
  ASSUME NEW line \in QuoteLines, NEW lines, NEW header, NEW intra,
         NEW hd \in Nat, hd = HeaderDiscount(lines, header),
         NEW den \in Nat, den = Max({1, NetSubtotal(lines)}), den > 0, hd <= den,
         NEW p, p = PricedLine(line, lines, header, intra)
  PROVE  /\ p.discount \in Int /\ p.taxable \in Int /\ p.tax \in Int
         /\ line.gross - (p.discount + p.taxable) \in {0, -1}
         /\ 2 * (den * p.taxable) <= 2 * (Net(line) * (den - hd)) + den
         /\ 2 * (Net(line) * (den - hd)) - den <= 2 * (den * p.taxable)
<1>1. PICK net \in Nat, off \in Nat, gross \in Nat :
        /\ net = Net(line) /\ off = Discount(line.gross, line.discount) /\ gross = line.gross
        /\ net = gross - off
  BY NetWithin
<1>2. PICK share \in Int, rest \in Int :
        /\ share = hd * net /\ rest = net * (den - hd)
        /\ share + rest = net * den /\ share >= 0 /\ rest >= 0
  <2>1. net * (den - hd) = (net * den) - (hd * net)
    OBVIOUS
  <2>2. hd * net \in Nat /\ net * (den - hd) \in Nat
    OBVIOUS
  <2> QED
    BY <2>1, <2>2
<1>3. HeaderShare(line, lines, header) = [num |-> share, den |-> den]
  BY <1>1, <1>2 DEF HeaderShare
<1>4. Max({0, net * den - share}) = rest
  <2>1. net * den - share = rest
    BY <1>2
  <2>2. Max({0, rest}) = rest
    BY <1>2, AtLeastZero
  <2> QED
    BY <2>1, <2>2
<1>5. /\ p.discount = off + HalfUp(share, den)
      /\ p.taxable = HalfUp(rest, den)
  BY <1>1, <1>3, <1>4 DEF PricedLine
<1>6. PICK x \in Int, y \in Int : /\ x = HalfUp(share, den) /\ y = HalfUp(rest, den)
                                  /\ x + y \in {net, net + 1}
  <2>1. HalfUp(share, den) \in Int /\ HalfUp(rest, den) \in Int
    BY HalfUpBounds
  <2>2. HalfUp(share, den) + HalfUp(rest, den) \in {net, net + 1}
    BY <1>2, RoundedParts
  <2> QED
    BY <2>1, <2>2
<1>7. p.tax \in Int
  <2>1. PICK gst \in Nat, cess \in Nat : gst = line.gst /\ cess = line.cess
    BY DEF QuoteLines
  <2>2. /\ HalfUp(rest * gst, 200 * den) \in Int /\ HalfUp(rest * gst, 100 * den) \in Int
        /\ HalfUp(rest * cess, 100 * den) \in Int
    <3>1. /\ rest * gst \in Int /\ rest * cess \in Int
          /\ 200 * den \in Nat /\ 200 * den > 0 /\ 100 * den \in Nat /\ 100 * den > 0
      OBVIOUS
    <3> QED
      BY <3>1, HalfUpBounds
  <2>3. p.tax = (IF intra THEN 2 * HalfUp(rest * gst, 200 * den) ELSE HalfUp(rest * gst, 100 * den))
                  + HalfUp(rest * cess, 100 * den)
    BY <1>1, <1>3, <1>4, <2>1 DEF PricedLine, Central
  <2> QED
    BY <2>2, <2>3
<1>8. /\ 2 * (den * y) <= 2 * rest + den
      /\ 2 * rest - den < 2 * (den * y)
  BY <1>6, HalfUpBounds
<1>9. p.discount = off + x /\ p.taxable = y
  BY <1>5, <1>6
<1>10. line.gross - (p.discount + p.taxable) \in {0, -1}
  BY <1>1, <1>6, <1>9
<1> QED
  <2>1. den * y \in Int
    OBVIOUS
  <2> QED
    BY <1>1, <1>2, <1>7, <1>8, <1>9, <1>10, <2>1
\* The rows of a priced quote: what PricedColumns says of each.
RowFits(line, p, hd, den) ==
  /\ line.gross \in Nat /\ Net(line) \in Nat
  /\ p.discount \in Int /\ p.taxable \in Int /\ p.tax \in Int
  /\ line.gross - (p.discount + p.taxable) \in {0, -1}
  /\ 2 * (den * p.taxable) <= 2 * (Net(line) * (den - hd)) + den
  /\ 2 * (Net(line) * (den - hd)) - den <= 2 * (den * p.taxable)

LEMMA PricedRows ==
  ASSUME NEW q \in Quotes, NEW priced, priced = PricedOf(q)
  PROVE  \E hd \in Nat, den \in Nat, sum \in Nat :
           /\ hd = HeaderDiscount(q.lines, q.header) /\ sum = NetSubtotal(q.lines) /\ hd <= sum
           /\ den > 0 /\ (sum > 0 => den = sum) /\ DOMAIN priced = DOMAIN q.lines
           /\ \A n \in DOMAIN q.lines : RowFits(q.lines[n], priced[n], hd, den)
<1>1. PICK net \in Nat, hd \in Nat : /\ net = NetSubtotal(q.lines) /\ hd <= net
                                      /\ hd = HeaderDiscount(q.lines, q.header)
  <2>1. PICK f : f = [n \in DOMAIN q.lines |-> Net(q.lines[n])]
    OBVIOUS
  <2>2. /\ NetSubtotal(q.lines) \in Nat
        /\ HeaderDiscount(q.lines, q.header) \in 0..NetSubtotal(q.lines)
    BY <2>1, QuoteTotals
  <2> QED
    BY <2>2
<1>2. PICK den \in Nat : /\ den = Max({1, net}) /\ den > 0 /\ (net > 0 => den = net) /\ hd <= den
  BY <1>1, LargerOfOne
<1>3. DOMAIN priced = DOMAIN q.lines
  BY DEF PricedOf, Priced
<1>4. ASSUME NEW n \in DOMAIN q.lines
      PROVE  RowFits(q.lines[n], priced[n], hd, den)
  <2>1. PICK line \in QuoteLines : line = q.lines[n]
    BY QuoteRows
  <2>2. priced[n] = PricedLine(line, q.lines, q.header, q.intra)
    BY <2>1 DEF PricedOf, Priced
  <2>3. PICK p : p = priced[n] /\ p = PricedLine(line, q.lines, q.header, q.intra)
    BY <2>2
  <2>4. line.gross \in Nat /\ Net(line) \in Nat
    BY NetWithin
  <2>5. /\ p.discount \in Int /\ p.taxable \in Int /\ p.tax \in Int
        /\ line.gross - (p.discount + p.taxable) \in {0, -1}
        /\ 2 * (den * p.taxable) <= 2 * (Net(line) * (den - hd)) + den
        /\ 2 * (Net(line) * (den - hd)) - den <= 2 * (den * p.taxable)
    BY <1>1, <1>2, <2>3, PricedColumns
  <2> QED
    BY <2>1, <2>3, <2>4, <2>5 DEF RowFits
<1> QED
  BY <1>1, <1>2, <1>3, <1>4

\* Gross less discounts is the subtotal, within a paisa a line.
LEMMA GrossAddsUp ==
  ASSUME NEW S, IsFiniteSet(S), NEW gross, NEW discount, NEW taxable,
         \A n \in S : /\ gross[n] \in Int /\ discount[n] \in Int /\ taxable[n] \in Int
                      /\ gross[n] - (discount[n] + taxable[n]) \in {0, -1}
  PROVE  Size(Total(gross, S) - Total(discount, S) - Total(taxable, S)) <= Cardinality(S)
<1>1. PICK sum : sum = [n \in S |-> discount[n] + taxable[n]]
  OBVIOUS
<1>2. PICK none \in Int, one \in Int : none = 0 /\ one = 1
  OBVIOUS
<1>3. Total(sum, S) = Total(discount, S) + Total(taxable, S)
  BY <1>1, TotalPlus
<1>4. PICK size \in Nat : size = Cardinality(S)
  BY FS_CardinalityType
<1>5. Total(gross, S) <= Total(sum, S) + none * Cardinality(S)
  <2>1. \A n \in S : gross[n] \in Int /\ sum[n] \in Int /\ gross[n] <= sum[n] + none
    BY <1>1, <1>2
  <2> QED
    BY <2>1, TotalNear
<1>6. Total(sum, S) <= Total(gross, S) + one * Cardinality(S)
  <2>1. \A n \in S : sum[n] \in Int /\ gross[n] \in Int /\ sum[n] <= gross[n] + one
    BY <1>1, <1>2
  <2> QED
    BY <2>1, TotalNear
<1>7. PICK a \in Int, b \in Int, c \in Int :
        a = Total(gross, S) /\ b = Total(discount, S) /\ c = Total(taxable, S)
  BY TotalType
<1> QED
  BY <1>2, <1>3, <1>4, <1>5, <1>6, <1>7 DEF Size

\* Rounded shares: sums of what is within a half of its part of the net amounts.
LEMMA SharesAddUp ==
  ASSUME NEW S, IsFiniteSet(S), NEW net, NEW taxable, NEW sum \in Nat, NEW hd \in Nat,
         NEW den \in Nat, den > 0, sum > 0 => den = sum, hd <= sum, sum = Total(net, S),
         \A n \in S : /\ net[n] \in Nat /\ taxable[n] \in Int
                      /\ 2 * (den * taxable[n]) <= 2 * (net[n] * (den - hd)) + den
                      /\ 2 * (net[n] * (den - hd)) - den <= 2 * (den * taxable[n])
  PROVE  2 * Size(Total(taxable, S) - (sum - hd)) <= Cardinality(S)
<1>1. PICK k \in Int, two \in Int : k = 2 * (den - hd) /\ two = 2 * den
  OBVIOUS
<1>2. PICK f, h : f = [n \in S |-> two * taxable[n]] /\ h = [n \in S |-> k * net[n]]
  OBVIOUS
<1>3. \A n \in S : /\ f[n] \in Int /\ h[n] \in Int
                    /\ f[n] <= h[n] + den /\ h[n] <= f[n] + den
  <2> TAKE n \in S
  <2>1. PICK x \in Nat, y \in Int : x = net[n] /\ y = taxable[n]
    OBVIOUS
  <2>2. f[n] = two * y /\ h[n] = k * x
    BY <1>2, <2>1
  <2>3. two * y = 2 * (den * y) /\ k * x = 2 * (x * (den - hd))
    BY <1>1
  <2>4. /\ 2 * (den * y) <= 2 * (x * (den - hd)) + den
        /\ 2 * (x * (den - hd)) - den <= 2 * (den * y)
    BY <2>1
  <2>5. PICK dy \in Int, part \in Int : dy = den * y /\ part = x * (den - hd)
    OBVIOUS
  <2>6. 2 * dy <= 2 * part + den /\ 2 * part - den <= 2 * dy
    BY <2>4, <2>5
  <2>7. f[n] = 2 * dy /\ h[n] = 2 * part
    BY <2>2, <2>3, <2>5
  <2> QED
    BY <2>6, <2>7
<1>4. PICK total \in Int, size \in Nat : total = Total(taxable, S) /\ size = Cardinality(S)
  BY TotalType, FS_CardinalityType
<1>5. Total(f, S) = two * total /\ Total(h, S) = k * sum
  <2>1. \A n \in S : net[n] \in Int /\ taxable[n] \in Int
    OBVIOUS
  <2>2. Total([n \in S |-> two * taxable[n]], S) = two * Total(taxable, S)
    BY <2>1, TotalScale
  <2>3. Total([n \in S |-> k * net[n]], S) = k * Total(net, S)
    BY <2>1, TotalScale
  <2> QED
    BY <1>2, <1>4, <2>2, <2>3
<1>6. Total(f, S) <= Total(h, S) + den * Cardinality(S)
  <2>1. \A n \in S : f[n] \in Int /\ h[n] \in Int /\ f[n] <= h[n] + den
    BY <1>3
  <2>2. den \in Int
    OBVIOUS
  <2> QED
    BY <2>1, <2>2, TotalNear
<1>7. Total(h, S) <= Total(f, S) + den * Cardinality(S)
  <2>1. \A n \in S : h[n] \in Int /\ f[n] \in Int /\ h[n] <= f[n] + den
    BY <1>3
  <2>2. den \in Int
    OBVIOUS
  <2> QED
    BY <2>1, <2>2, TotalNear
<1>8. PICK left \in Nat : left = sum - hd
  OBVIOUS
<1>9. k * sum = two * left
  <2>1. CASE sum > 0
    <3>1. den = sum /\ k = 2 * left
      BY <1>1, <1>8, <2>1
    <3>2. (2 * left) * sum = (2 * sum) * left
      OBVIOUS
    <3> QED
      BY <1>1, <3>1, <3>2
  <2>2. CASE sum = 0
    BY <1>1, <1>8, <2>2
  <2> QED
    BY <2>1, <2>2
<1>10. PICK d \in Int : d = total - left
  OBVIOUS
<1>11. den * (2 * d) = (two * total) - (two * left)
  BY <1>1, <1>10
<1>12. PICK e \in Int : e = 2 * d /\ den * e <= den * size /\ den * (-e) <= den * size
  <2>1. PICK e \in Int : e = 2 * d
    OBVIOUS
  <2>2. den * e <= den * size /\ -(den * e) <= den * size
    BY <1>4, <1>5, <1>6, <1>7, <1>9, <1>11, <2>1
  <2>3. den * (-e) = -(den * e)
    OBVIOUS
  <2> QED
    BY <2>1, <2>2, <2>3
<1>13. e <= size /\ -e <= size
  <2>1. \A a \in Int : a > size => den * a > den * size
    <3> SUFFICES ASSUME NEW a \in Int, a > size PROVE den * a > den * size
      OBVIOUS
    <3>1. PICK r \in Nat : a = size + r /\ r > 0
      OBVIOUS
    <3>2. den * (size + r) = (den * size) + (den * r) /\ den * r > 0
      BY <3>1, PositiveProduct
    <3> QED
      BY <3>1, <3>2
  <2> QED
    BY <1>12, <2>1
<1> QED
  BY <1>4, <1>8, <1>10, <1>12, <1>13 DEF Size
\* services/pricing.py, _build_hsn_summary: the groups make up the subtotal.
LEMMA GroupsAddUp ==
  ASSUME NEW lines, NEW priced, DOMAIN priced = DOMAIN lines, IsFiniteSet(DOMAIN lines),
         \A n \in DOMAIN lines : priced[n].taxable \in Int
  PROVE  TotalOf([g \in HsnGroups(lines) |-> HsnTaxable(lines, priced, g)]) = Subtotal(priced)
<1>1. PICK S, f, m : /\ S = DOMAIN lines /\ f = [n \in S |-> priced[n].taxable]
                     /\ m = [n \in S |-> << lines[n].hsn, lines[n].gst >>]
  OBVIOUS
<1>2. PICK G : G = HsnGroups(lines) /\ G = {m[n] : n \in S}
  BY <1>1 DEF HsnGroups
<1>3. /\ IsFiniteSet(S) /\ IsFiniteSet(G)
      /\ m \in [S -> G] /\ \A n \in S : f[n] \in Int
  <2>1. IsFiniteSet({m[n] : n \in S})
    BY <1>1, FiniteValues
  <2> QED
    BY <1>1, <1>2, <2>1
<1>4. \A g \in G : HsnTaxable(lines, priced, g) = Total(f, {n \in S : m[n] = g})
  <2> TAKE g \in G
  <2>1. PICK T \in SUBSET S : T = {n \in S : m[n] = g}
    OBVIOUS
  <2>2. T = {n \in DOMAIN lines : << lines[n].hsn, lines[n].gst >> = g}
    BY <1>1, <2>1
  <2>3. PICK k : k = [n \in T |-> priced[n].taxable]
    OBVIOUS
  <2>4. HsnTaxable(lines, priced, g) = TotalOf(k)
    BY <2>2, <2>3 DEF HsnTaxable
  <2>5. TotalOf(k) = Total(k, T)
    BY <2>3, TotalOfIsTotal
  <2>6. IsFiniteSet(T) /\ \A n \in T : k[n] \in Int /\ k[n] = f[n]
    BY <1>1, <1>3, <2>3, FS_Subset
  <2>7. Total(k, T) = Total(f, T)
    BY <2>6, TotalAgree
  <2> QED
    BY <2>1, <2>4, <2>5, <2>7
<1>5. PICK k : k = [g \in G |-> HsnTaxable(lines, priced, g)]
  OBVIOUS
<1>6. k = [g \in G |-> Total(f, {n \in S : m[n] = g})]
  BY <1>4, <1>5
<1>7. Total(k, G) = Total(f, S)
  BY <1>3, <1>6, TotalByGroups
<1>8. TotalOf(k) = Total(k, G)
  BY <1>5, TotalOfIsTotal
<1>9. Subtotal(priced) = TotalOf(f)
  BY <1>1 DEF Subtotal, SumOver
<1>10. TotalOf(f) = Total(f, S)
  BY <1>1, TotalOfIsTotal
<1> QED
  BY <1>2, <1>5, <1>7, <1>8, <1>9, <1>10

LEMMA ColumnCases == Asked => ColumnsAddUp
<1> SUFFICES ASSUME NEW q \in Quotes, given = q
             PROVE  LET lines == given.lines  priced == PricedOf(given)
                        left == NetSubtotal(lines) - HeaderDiscount(lines, given.header)
                    IN /\ Size(SumOver(lines, LAMBDA l : l.gross)
                                 - SumOver(priced, LAMBDA l : l.discount)
                                 - Subtotal(priced)) <= Len(lines)
                       /\ 2 * Size(Subtotal(priced) - left) <= Len(lines)
                       /\ TotalOf([g \in HsnGroups(lines) |-> HsnTaxable(lines, priced, g)])
                            = Subtotal(priced)
  BY DEF Asked, ColumnsAddUp
<1>1. PICK lines, priced : lines = q.lines /\ priced = PricedOf(q)
  OBVIOUS
<1>2. PICK S : S = DOMAIN lines /\ IsFiniteSet(S) /\ Cardinality(S) = Len(lines)
  BY <1>1, QuoteRows
<1>3. PICK hd \in Nat, den \in Nat, sum \in Nat :
        /\ hd = HeaderDiscount(lines, q.header) /\ sum = NetSubtotal(lines) /\ hd <= sum
        /\ den > 0 /\ (sum > 0 => den = sum) /\ DOMAIN priced = DOMAIN lines
        /\ \A n \in DOMAIN lines : RowFits(lines[n], priced[n], hd, den)
  BY <1>1, PricedRows
<1>4. PICK gross, discount, taxable, net :
        /\ gross = [n \in S |-> lines[n].gross] /\ discount = [n \in S |-> priced[n].discount]
        /\ taxable = [n \in S |-> priced[n].taxable] /\ net = [n \in S |-> Net(lines[n])]
  OBVIOUS
<1>5. /\ SumOver(lines, LAMBDA l : l.gross) = Total(gross, S)
      /\ SumOver(priced, LAMBDA l : l.discount) = Total(discount, S)
      /\ Subtotal(priced) = Total(taxable, S)
      /\ NetSubtotal(lines) = Total(net, S)
  <2>1. /\ SumOver(lines, LAMBDA l : l.gross) = TotalOf(gross)
        /\ NetSubtotal(lines) = TotalOf(net)
    BY <1>2, <1>4 DEF SumOver, NetSubtotal
  <2>2. /\ SumOver(priced, LAMBDA l : l.discount) = TotalOf(discount)
        /\ Subtotal(priced) = TotalOf(taxable)
    BY <1>2, <1>3, <1>4 DEF SumOver, Subtotal
  <2>3. /\ TotalOf(gross) = Total(gross, S) /\ TotalOf(discount) = Total(discount, S)
        /\ TotalOf(taxable) = Total(taxable, S) /\ TotalOf(net) = Total(net, S)
    BY <1>4, TotalOfIsTotal
  <2> QED
    BY <2>1, <2>2, <2>3
<1>6. Size(Total(gross, S) - Total(discount, S) - Total(taxable, S)) <= Cardinality(S)
  <2>1. \A n \in S : /\ gross[n] \in Int /\ discount[n] \in Int /\ taxable[n] \in Int
                      /\ gross[n] - (discount[n] + taxable[n]) \in {0, -1}
    <3> TAKE n \in S
    <3>1. /\ gross[n] = lines[n].gross /\ discount[n] = priced[n].discount
          /\ taxable[n] = priced[n].taxable
      BY <1>4
    <3>2. RowFits(lines[n], priced[n], hd, den)
      BY <1>2, <1>3
    <3>3. PICK g \in Nat, d \in Int, t \in Int :
            /\ g = lines[n].gross /\ d = priced[n].discount /\ t = priced[n].taxable
            /\ g - (d + t) \in {0, -1}
      BY <3>2 DEF RowFits
    <3> QED
      BY <3>1, <3>3
  <2> QED
    BY <1>2, <2>1, GrossAddsUp
<1>7. 2 * Size(Total(taxable, S) - (sum - hd)) <= Cardinality(S)
  <2>1. \A n \in S : /\ net[n] \in Nat /\ taxable[n] \in Int
                      /\ 2 * (den * taxable[n]) <= 2 * (net[n] * (den - hd)) + den
                      /\ 2 * (net[n] * (den - hd)) - den <= 2 * (den * taxable[n])
    <3> TAKE n \in S
    <3>1. net[n] = Net(lines[n]) /\ taxable[n] = priced[n].taxable
      BY <1>4
    <3> QED
      BY <1>2, <1>3, <3>1 DEF RowFits
  <2>2. sum = Total(net, S)
    BY <1>3, <1>5
  <2> QED
    BY <1>2, <1>3, <2>1, <2>2, SharesAddUp
<1>8. TotalOf([g \in HsnGroups(lines) |-> HsnTaxable(lines, priced, g)]) = Subtotal(priced)
  <2>1. \A n \in DOMAIN lines : priced[n].taxable \in Int
    BY <1>3 DEF RowFits
  <2> QED
    BY <1>2, <1>3, <2>1, GroupsAddUp
<1> QED
  BY <1>1, <1>2, <1>3, <1>5, <1>6, <1>7, <1>8

\* Whatever is priced, the columns of its invoice add up.
THEOREM ColumnsAlwaysAddUp == FiguresSpec => []ColumnsAddUp
BY AlwaysAsked, ColumnCases, PTL
\* The parts in which an order is delivered.
LEMMA SplitParts ==
  ASSUME NEW parts \in Splits
  PROVE  /\ IsFiniteSet(DOMAIN parts) /\ Len(parts) \in Nat
         /\ Cardinality(DOMAIN parts) = Len(parts)
         /\ TotalOf(parts) = Total(parts, DOMAIN parts)
         /\ TotalOf(parts) \in Nat /\ TotalOf(parts) > 0
         /\ \A n \in DOMAIN parts : parts[n] \in Nat
<1>1. parts \in Seq(Nat \ {0}) /\ parts # << >>
  BY QuotesAssumption
<1>2. PICK len \in Nat : /\ DOMAIN parts = 1..len /\ len = Len(parts) /\ len > 0
                         /\ \A n \in DOMAIN parts : parts[n] \in Nat \ {0}
  <2>1. Len(parts) \in Nat /\ DOMAIN parts = 1..Len(parts) /\ Len(parts) > 0
    BY <1>1
  <2>2. \A n \in DOMAIN parts : parts[n] \in Nat \ {0}
    BY <1>1
  <2> QED
    BY <2>1, <2>2
<1>3. PICK P : P = DOMAIN parts /\ P = 1..len
  BY <1>2
<1>4. IsFiniteSet(P) /\ Cardinality(P) = len
  <2>1. IsFiniteSet(1..len) /\ Cardinality(1..len) = len
    BY FS_Interval
  <2> QED
    BY <1>3, <2>1
<1>5. TotalOf(parts) = Total(parts, P)
  BY <1>3, TotalOfIsTotal
<1>6. Total(parts, P) \in Nat /\ Total(parts, P) > 0
  <2>1. \A n \in P : parts[n] \in Nat
    BY <1>2, <1>3
  <2>2. Total(parts, P) \in Nat /\ \A n \in P : parts[n] <= Total(parts, P)
    BY <1>4, <2>1, TotalCovers
  <2>3. 1 \in P /\ parts[1] \in Nat /\ parts[1] > 0
    BY <1>2, <1>3
  <2> QED
    BY <2>2, <2>3
<1> QED
  BY <1>2, <1>3, <1>4, <1>5, <1>6

\* A slice of two amounts is within a paisa of its part of both.
LEMMA SliceNear ==
  ASSUME NEW x \in Int, NEW y \in Int, NEW a \in Nat, NEW den \in Nat, den > 0,
         NEW s, s = HalfEven(x * a, den) + HalfEven(y * a, den)
  PROVE  s \in Int /\ den * s <= a * (x + y) + den /\ a * (x + y) <= den * s + den
<1>1. PICK u \in Int, v \in Int : u = x * a /\ v = y * a
  OBVIOUS
<1>2. PICK p \in Int : /\ p = HalfEven(u, den)
                       /\ 2 * (den * p) <= 2 * u + den /\ 2 * u - den <= 2 * (den * p)
  BY HalfEvenBounds
<1>3. PICK q \in Int : /\ q = HalfEven(v, den)
                       /\ 2 * (den * q) <= 2 * v + den /\ 2 * v - den <= 2 * (den * q)
  BY HalfEvenBounds
<1>4. s = p + q
  BY <1>1, <1>2, <1>3
<1>5. den * (p + q) = (den * p) + (den * q) /\ a * (x + y) = u + v
  BY <1>1
<1>6. PICK dp \in Int, dq \in Int : dp = den * p /\ dq = den * q
  OBVIOUS
<1>7. den * s = dp + dq
  BY <1>4, <1>5, <1>6
<1>8. 2 * dp <= 2 * u + den /\ 2 * u - den <= 2 * dp
  BY <1>2, <1>6
<1>9. 2 * dq <= 2 * v + den /\ 2 * v - den <= 2 * dq
  BY <1>3, <1>6
<1> QED
  BY <1>4, <1>5, <1>7, <1>8, <1>9

\* If den times a term is within c of k times another, so are the sums.
LEMMA ScaledNear ==
  ASSUME NEW S, IsFiniteSet(S), NEW f, NEW h, NEW k \in Int, NEW den \in Int, NEW c \in Int,
         \A n \in S : /\ f[n] \in Int /\ h[n] \in Int
                      /\ den * f[n] <= k * h[n] + c /\ k * h[n] <= den * f[n] + c
  PROVE  /\ den * Total(f, S) <= k * Total(h, S) + c * Cardinality(S)
         /\ k * Total(h, S) <= den * Total(f, S) + c * Cardinality(S)
<1>1. PICK left, right : left = [n \in S |-> den * f[n]] /\ right = [n \in S |-> k * h[n]]
  OBVIOUS
<1>2. \A n \in S : f[n] \in Int /\ h[n] \in Int
  OBVIOUS
<1>3. \A n \in S : left[n] = den * f[n] /\ right[n] = k * h[n]
  BY <1>1
<1>4. \A n \in S : left[n] \in Int /\ right[n] \in Int
  BY <1>2, <1>3
<1>5. \A n \in S : left[n] <= right[n] + c /\ right[n] <= left[n] + c
  BY <1>3
<1>6. Total(left, S) = den * Total(f, S)
  BY <1>1, <1>2, TotalScale
<1>7. Total(right, S) = k * Total(h, S)
  BY <1>1, <1>2, TotalScale
<1>8. Total(left, S) <= Total(right, S) + c * Cardinality(S)
  BY <1>4, <1>5, TotalNear
<1>9. Total(right, S) <= Total(left, S) + c * Cardinality(S)
  BY <1>4, <1>5, TotalNear
<1> QED
  BY <1>6, <1>7, <1>8, <1>9

\* The invoice of one delivery is within a paisa a line of its part of the order.
LEMMA InvoiceNear ==
  ASSUME NEW S, IsFiniteSet(S), NEW priced, DOMAIN priced = S,
         \A n \in S : priced[n].taxable \in Int /\ priced[n].tax \in Int,
         NEW parts, NEW m, NEW a \in Nat, a = parts[m],
         NEW den \in Nat, den > 0, den = TotalOf(parts), NEW size \in Nat, size = Cardinality(S),
         NEW total, total = Subtotal(priced) + TaxTotal(priced)
  PROVE  /\ InvoiceTotal(priced, parts, m) \in Int /\ total \in Int
         /\ den * InvoiceTotal(priced, parts, m) <= a * total + den * size
         /\ a * total <= den * InvoiceTotal(priced, parts, m) + den * size
<1>1. PICK x, y, both, s :
        /\ x = [n \in S |-> priced[n].taxable] /\ y = [n \in S |-> priced[n].tax]
        /\ both = [n \in S |-> x[n] + y[n]]
        /\ s = [n \in S |-> Slice(priced[n].taxable, parts, m) + Slice(priced[n].tax, parts, m)]
  OBVIOUS
<1>2. \A n \in S : x[n] \in Int /\ y[n] \in Int
  BY <1>1
<1>3. total = Total(both, S)
  <2>1. Subtotal(priced) = TotalOf(x) /\ TaxTotal(priced) = TotalOf(y)
    BY <1>1 DEF Subtotal, TaxTotal, SumOver
  <2>2. TotalOf(x) = Total(x, S) /\ TotalOf(y) = Total(y, S)
    BY <1>1, TotalOfIsTotal
  <2>3. Total(both, S) = Total(x, S) + Total(y, S)
    BY <1>1, <1>2, TotalPlus
  <2> QED
    BY <2>1, <2>2, <2>3
<1>4. InvoiceTotal(priced, parts, m) = Total(s, S)
  <2>1. InvoiceTotal(priced, parts, m) = TotalOf(s)
    BY <1>1 DEF InvoiceTotal, SumOver
  <2>2. TotalOf(s) = Total(s, S)
    BY <1>1, TotalOfIsTotal
  <2> QED
    BY <2>1, <2>2
<1>5. \A n \in S : /\ s[n] \in Int /\ both[n] \in Int
                    /\ den * s[n] <= a * both[n] + den /\ a * both[n] <= den * s[n] + den
  <2> TAKE n \in S
  <2>1. PICK u \in Int, v \in Int : u = priced[n].taxable /\ v = priced[n].tax
    OBVIOUS
  <2>2. s[n] = HalfEven(u * a, den) + HalfEven(v * a, den)
    BY <1>1, <2>1 DEF Slice
  <2>3. PICK r : r = s[n] /\ r = HalfEven(u * a, den) + HalfEven(v * a, den)
    BY <2>2
  <2>4. r \in Int /\ den * r <= a * (u + v) + den /\ a * (u + v) <= den * r + den
    BY <2>3, SliceNear
  <2>5. both[n] = u + v
    BY <1>1, <2>1
  <2> QED
    BY <2>3, <2>4, <2>5
<1>6. /\ den * Total(s, S) <= a * Total(both, S) + den * Cardinality(S)
      /\ a * Total(both, S) <= den * Total(s, S) + den * Cardinality(S)
  <2>1. a \in Int /\ den \in Int
    OBVIOUS
  <2> QED
    BY <1>5, <2>1, ScaledNear
<1>7. Total(s, S) \in Int /\ Total(both, S) \in Int
  BY <1>5, TotalType
<1> QED
  BY <1>3, <1>4, <1>6, <1>7
\* A multiple of a difference that is within a multiple.
LEMMA Divided ==
  ASSUME NEW den \in Nat, den > 0, NEW a \in Int, NEW b \in Int, NEW c \in Int,
         den * a <= den * b + den * c, den * b <= den * a + den * c
  PROVE  a <= b + c /\ b <= a + c
<1>1. ASSUME NEW x \in Int, NEW y \in Int, den * x <= den * y
      PROVE  x <= y
  <2> SUFFICES ASSUME x > y PROVE FALSE
    OBVIOUS
  <2>1. PICK r \in Nat : x = y + r /\ r > 0
    OBVIOUS
  <2>2. den * (y + r) = (den * y) + (den * r) /\ den * r > 0
    BY <2>1, PositiveProduct
  <2> QED
    BY <1>1, <2>1, <2>2
<1>2. den * (b + c) = (den * b) + (den * c) /\ den * (a + c) = (den * a) + (den * c)
  OBVIOUS
<1>3. PICK x \in Int, y \in Int : x = b + c /\ y = a + c
  OBVIOUS
<1>4. den * a <= den * x /\ den * b <= den * y
  BY <1>2, <1>3
<1>5. a <= x /\ b <= y
  BY <1>1, <1>4
<1> QED
  BY <1>3, <1>5

LEMMA BilledCases == Asked => BilledAsQuoted
<1> SUFFICES ASSUME NEW quote \in Quotes, given = quote, NEW parts \in Splits
             PROVE  LET priced == PricedOf(given)
                        billed == TotalOf([n \in DOMAIN parts |-> InvoiceTotal(priced, parts, n)])
                    IN Size(billed - GrandTotal(priced)) <= 50 + Len(given.lines) * Len(parts)
  BY DEF Asked, BilledAsQuoted
<1>1. PICK S : S = DOMAIN quote.lines /\ IsFiniteSet(S) /\ Cardinality(S) = Len(quote.lines)
  BY QuoteRows
<1>2. PICK size \in Nat : size = Cardinality(S)
  BY <1>1, FS_CardinalityType
<1>3. PICK priced : /\ priced = PricedOf(quote) /\ DOMAIN priced = S
                    /\ \A n \in S : priced[n].taxable \in Int /\ priced[n].tax \in Int
  <2>1. PICK p : p = PricedOf(quote)
    OBVIOUS
  <2>2. PICK hd \in Nat, den \in Nat : /\ DOMAIN p = S
                                       /\ \A n \in S : RowFits(quote.lines[n], p[n], hd, den)
    BY <1>1, <2>1, PricedRows
  <2>3. \A n \in S : p[n].taxable \in Int /\ p[n].tax \in Int
    BY <2>2 DEF RowFits
  <2> QED
    BY <2>1, <2>2, <2>3
<1>4. PICK P : /\ P = DOMAIN parts /\ IsFiniteSet(P) /\ Cardinality(P) = Len(parts)
               /\ TotalOf(parts) = Total(parts, P) /\ \A n \in P : parts[n] \in Nat
  BY SplitParts
<1>5. PICK den \in Nat, count \in Nat : den = TotalOf(parts) /\ den > 0 /\ count = Len(parts)
  BY SplitParts
<1>6. PICK total : total = Subtotal(priced) + TaxTotal(priced)
  OBVIOUS
<1>7. PICK bills : bills = [n \in P |-> InvoiceTotal(priced, parts, n)]
  OBVIOUS
<1>8. ASSUME NEW n \in P
      PROVE  /\ bills[n] \in Int /\ total \in Int
             /\ den * bills[n] <= total * parts[n] + den * size
             /\ total * parts[n] <= den * bills[n] + den * size
  <2>1. PICK a \in Nat : a = parts[n]
    BY <1>4
  <2>2. /\ InvoiceTotal(priced, parts, n) \in Int /\ total \in Int
        /\ den * InvoiceTotal(priced, parts, n) <= a * total + den * size
        /\ a * total <= den * InvoiceTotal(priced, parts, n) + den * size
    BY <1>1, <1>2, <1>3, <1>5, <1>6, <2>1, InvoiceNear
  <2>3. PICK b \in Int : b = bills[n] /\ b = InvoiceTotal(priced, parts, n)
    BY <1>7, <2>2
  <2>4. /\ den * b <= a * total + den * size /\ a * total <= den * b + den * size
        /\ total \in Int
    BY <2>2, <2>3
  <2>5. a * total = total * a
    BY <2>4
  <2> QED
    BY <2>1, <2>3, <2>4, <2>5
<1>9. total \in Int
  <2>1. P # {}
    <3>1. P = {} => Total(parts, P) = 0
      BY TotalEmpty
    <3> QED
      BY <1>4, <1>5, <3>1
  <2> QED
    BY <1>8, <2>1
<1>10. PICK step \in Int : step = den * size
  OBVIOUS
<1>11. /\ den * Total(bills, P) <= total * Total(parts, P) + step * Cardinality(P)
       /\ total * Total(parts, P) <= den * Total(bills, P) + step * Cardinality(P)
  <2>1. PICK unit \in Int, whole \in Int : unit = den /\ whole = total
    BY <1>9
  <2>2. \A n \in P : /\ bills[n] \in Int /\ parts[n] \in Int
                      /\ unit * bills[n] <= whole * parts[n] + step
                      /\ whole * parts[n] <= unit * bills[n] + step
    BY <1>4, <1>8, <1>10, <2>1
  <2>3. /\ unit * Total(bills, P) <= whole * Total(parts, P) + step * Cardinality(P)
        /\ whole * Total(parts, P) <= unit * Total(bills, P) + step * Cardinality(P)
    BY <1>4, <1>10, <2>2, ScaledNear
  <2> QED
    BY <2>1, <2>3
<1>12. PICK billed \in Int : billed = Total(bills, P) /\ billed = TotalOf(bills)
  <2>1. \A n \in P : bills[n] \in Int
    BY <1>8
  <2>2. Total(bills, P) \in Int
    BY <1>4, <2>1, TotalType
  <2>3. TotalOf(bills) = Total(bills, P)
    BY <1>7, TotalOfIsTotal
  <2> QED
    BY <2>2, <2>3
<1>13. PICK all \in Int : all = size * count /\ step * count = den * all
  BY <1>10
<1>14. den * billed <= den * total + den * all /\ den * total <= den * billed + den * all
  <2>1. total * den = den * total
    BY <1>9
  <2> QED
    BY <1>4, <1>5, <1>11, <1>12, <1>13, <2>1
<1>15. billed <= total + all /\ total <= billed + all
  BY <1>5, <1>9, <1>12, <1>13, <1>14, Divided
<1>16. PICK rupees \in Int : /\ rupees = GrandTotal(priced)
                             /\ rupees <= total + 50 /\ total - 50 <= rupees
  <2>1. PICK hundred \in Nat : hundred = 100 /\ hundred > 0
    OBVIOUS
  <2>2. PICK r \in Int, m \in Int : /\ r = HalfUp(total, hundred) /\ m = hundred * r
                                    /\ 2 * m <= 2 * total + hundred /\ 2 * total - hundred < 2 * m
    BY <1>9, <2>1, HalfUpNamed
  <2>3. GrandTotal(priced) = m
    BY <1>6, <2>1, <2>2 DEF GrandTotal
  <2> QED
    BY <1>9, <2>1, <2>2, <2>3
<1>17. Size(billed - rupees) <= 50 + all
  BY <1>9, <1>12, <1>13, <1>15, <1>16 DEF Size
<1> QED
  BY <1>1, <1>2, <1>3, <1>4, <1>5, <1>7, <1>12, <1>13, <1>16, <1>17

\* Whatever is priced and however it is delivered, the deliveries' invoices come to
\* the quoted total, to half a rupee and a paisa a line of each.
THEOREM BilledAlwaysAsQuoted == FiguresSpec => []BilledAsQuoted
BY AlwaysAsked, BilledCases, PTL
=============================================================================
