---------------------------- MODULE MCSettlement ----------------------------
(***************************************************************************)
(* Instances of Settlement for TLC: a customer with a small and a large    *)
(* sale, and a supplier with two bills of one total.                       *)
(***************************************************************************)
EXTENDS Settlement, TLC

CONSTANTS a, b, c, d, small, large, bill, twin

Deal(side, total, due) == [side |-> side, total |-> total, due |-> due]
MCTerms == (small :> Deal("customer", 2, 1)) @@ (large :> Deal("customer", 3, 2))
           @@ (bill :> Deal("supplier", 2, 1)) @@ (twin :> Deal("supplier", 2, 1))

\* A bill has one line, a piece for two rupees.  The order may agree with it or
\* name half the price, and the receipt may lack it.
Line(on, agreed) == [on |-> on, agreed |-> agreed, accepted |-> 1, quantity |-> 1, price |-> 2,
                     total |-> 2]
Agrees == {Line({"po", "grn", "inv"}, 2)}
Dearer == {Line({"po", "grn", "inv"}, 1)}
Unmet == {Line({"po", "inv"}, 2)}

MCMenu ==
  {[op |-> op, inv |-> i] : op \in {"SELL", "ORDER"}, i \in {small, large}}
  \cup {[op |-> "BILL"]} \cup {[op |-> "ENTER", inv |-> i] : i \in {bill, twin}}
  \cup {[op |-> "MATCH", inv |-> i, lines |-> l] : i \in {bill, twin}, l \in {Agrees, Dearer, Unmet}}
  \cup {[op |-> "PAY", side |-> s, amount |-> n, plan |-> << >>] :
          s \in {"customer", "supplier"}, n \in {1, 4}}
  \cup {[op |-> "PAY", side |-> "customer", amount |-> 2, plan |-> (large :> 1) @@ (small :> 1)],
        [op |-> "PAY", side |-> "supplier", amount |-> 1, plan |-> (bill :> 1)]}

Opening(statuses, sold) ==
  [inv |-> [i \in Invoices |-> New(IF i \in DOMAIN statuses THEN statuses[i] ELSE "ABSENT")],
   ordered |-> sold]
MCOpenings == {Opening(<< >>, {}), Opening(small :> "ISSUED", {small, large}),
               Opening((small :> "ISSUED") @@ (large :> "ISSUED"), {small, large}),
               Opening((bill :> "RECEIVED"), {}),
               Opening((bill :> "RECEIVED") @@ (twin :> "RECEIVED"), {})}

Symmetry == Permutations(Requests)
=============================================================================
