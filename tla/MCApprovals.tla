---------------------------- MODULE MCApprovals -----------------------------
(***************************************************************************)
(* Instances of Approvals for TLC.                                         *)
(***************************************************************************)
EXTENDS Approvals, TLC

CONSTANTS a, b, c, d, e, f

Ask(op, id) == [op |-> op, id |-> id, on |-> <<>>]
Create(on) == [op |-> "CREATE", id |-> 0, on |-> on]

\* One subject for each plan the engine can make, every decision, and a sweep.
MCAsks ==
  {Create([amount |-> 500, capital |-> FALSE, risk |-> -1]),
   Create([amount |-> 50000, capital |-> FALSE, risk |-> 30]),
   Create([amount |-> 500, capital |-> TRUE, risk |-> 20]),
   Create([amount |-> 500, capital |-> FALSE, risk |-> 60])}
  \cup {Ask(op, id) : op \in {"APPROVE", "REJECT", "DELEGATE"}, id \in 1..3}
  \cup {Ask("ESCALATE", 0)}

TwoLevels == Create([amount |-> 200000, capital |-> FALSE, risk |-> -1])
DelegateAndApprove == {TwoLevels, Ask("DELEGATE", 1), Ask("APPROVE", 3)}

Symmetry == Permutations(Requests)
=============================================================================
