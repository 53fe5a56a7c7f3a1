----------------------------- MODULE Approvals ------------------------------
(***************************************************************************)
(* services/approvals.py: the approval chain of one entity, and the        *)
(* requests that create it, decide, delegate and escalate its levels.      *)
(* Every request is one transaction at READ COMMITTED; it reads rows that  *)
(* nobody locks, and its flush (with the endpoint's commit right after it) *)
(* writes them by id, whatever they have become in the meantime.           *)
(***************************************************************************)
EXTENDS Integers, Sequences, FiniteSets

CONSTANTS
  Requests,  \* the requests, each at most one transaction
  Asks,      \* what a request may ask for: [op, id, on]
  MaxOpen,   \* bound: transactions open at a time
  MaxRows    \* bound: rows of the chain, delegations included

Ops == {"CREATE", "APPROVE", "REJECT", "DELEGATE", "ESCALATE"}

ASSUME ApprovalsAssumption ==
  /\ IsFiniteSet(Requests) /\ MaxOpen \in Nat
  /\ \A ask \in Asks : ask.op \in Ops

Open == {"PENDING", "ESCALATED"}
Decided == {"APPROVED", "REJECTED", "DELEGATED"}

\* The role is no column: create_approval_chain returns it, and writes it into
\* the comment.
ApprovalRow == [level: Nat, role: {"Manager", "Owner"}, status: Open \cup Decided]

VARIABLES
  rows,     \* the committed approvals of the entity, in the order of their creation
  overdue,  \* the ids of the rows whose sla_due_at has passed
  pc,       \* where each request is
  work      \* what it was asked, and what it has read

vars == << rows, overdue, pc, work >>

NoWork == [op |-> "NONE", id |-> 0, on |-> <<>>, read |-> {}]

Init ==
  /\ rows = <<>>
  /\ overdue = {}
  /\ pc = [t \in Requests |-> "idle"]
  /\ work = [t \in Requests |-> NoWork]
-----------------------------------------------------------------------------
\* determine_approval_chain.  The subject of a chain: its amount in rupees,
\* whether its category is capital, and the supplier's risk score, -1 if none
\* is known.
RequiresManager(on) == on.amount > 10000 \/ on.risk \in 20..59
RequiresOwner(on) == on.amount > 100000 \/ on.capital \/ on.risk >= 60

Plan(on) ==
  LET first == IF RequiresManager(on) THEN << [level |-> 1, role |-> "Manager"] >> ELSE <<>>
  IN  first \o (IF RequiresOwner(on)
                THEN << [level |-> Len(first) + 1, role |-> "Owner"] >> ELSE <<>>)

\* The rows create_approval_chain inserts for it; none is auto-approval.
Inserted(on) ==
  [k \in DOMAIN Plan(on) |->
     [level |-> Plan(on)[k].level, role |-> Plan(on)[k].role, status |-> "PENDING"]]
-----------------------------------------------------------------------------
Ended == {"done", "rejected"}
IsOpen(t) == pc[t] \notin Ended \cup {"idle"}

End(t, how) == /\ pc' = [pc EXCEPT ![t] = how]
               /\ work' = [work EXCEPT ![t] = NoWork]

\* t has read what `seen` says and goes on.
Read(t, where, seen) == /\ pc' = [pc EXCEPT ![t] = where]
                        /\ work' = [work EXCEPT ![t].read = seen]
                        /\ UNCHANGED << rows, overdue >>

Refuse(t) == End(t, "rejected") /\ UNCHANGED << rows, overdue >>

\* The rows in `ids` get status s.
Marked(ids, s) == [k \in DOMAIN rows |-> IF k \in ids THEN [rows[k] EXCEPT !.status = s]
                                         ELSE rows[k]]

\* A request arrives; the id it names is that of a row.
Begin(t, ask) ==
  /\ pc[t] = "idle"
  /\ Cardinality({u \in Requests : IsOpen(u)}) < MaxOpen
  /\ ask.op \in {"APPROVE", "REJECT", "DELEGATE"} => ask.id \in DOMAIN rows
  /\ pc' = [pc EXCEPT ![t] = "load"]
  /\ work' = [work EXCEPT ![t] = [NoWork EXCEPT !.op = ask.op, !.id = ask.id, !.on = ask.on]]
  /\ UNCHANGED << rows, overdue >>

\* create_approval_chain: SELECT whether the entity has a chain.
CheckNoChain(t) ==
  /\ pc[t] = "load" /\ work[t].op = "CREATE"
  /\ IF rows = <<>> THEN Read(t, "write", {}) ELSE Refuse(t)

\* The rows of the plan are inserted.  Bound: MaxRows.
InsertChain(t) ==
  /\ pc[t] = "write" /\ work[t].op = "CREATE"
  /\ Len(rows) + Len(Plan(work[t].on)) <= MaxRows
  /\ rows' = rows \o Inserted(work[t].on)
  /\ End(t, "done")
  /\ UNCHANGED overdue

\* decide_approval and delegate_approval load the row and refuse it unless it
\* is open.
LoadRow(t) ==
  /\ pc[t] = "load" /\ work[t].op \in {"APPROVE", "REJECT", "DELEGATE"}
  /\ IF rows[work[t].id].status \in Open
     THEN Read(t, CASE work[t].op = "APPROVE" -> "prior"
                    [] work[t].op = "REJECT"  -> "others"
                    [] OTHER -> "write", {work[t].id})
     ELSE Refuse(t)

\* A fault: an escalated level does not block the ones above it.
BlockingPending(id) ==
  {k \in DOMAIN rows : rows[k].level < rows[id].level /\ rows[k].status = "PENDING"}

\* The rows of lower levels that keep a row from being approved: every one that
\* is not APPROVED, a delegated one included.
Blocking(id) ==
  {k \in DOMAIN rows : rows[k].level < rows[id].level /\ rows[k].status # "APPROVED"}

\* approve: SELECT the lower levels.
ReadPrior(t) ==
  /\ pc[t] = "prior"
  /\ IF Blocking(work[t].id) = {} THEN Read(t, "write", {work[t].id}) ELSE Refuse(t)

\* A fault: the rejection misses the levels that were escalated.
ReadOthersPending(t) ==
  /\ pc[t] = "others"
  /\ Read(t, "write", {work[t].id} \cup {k \in DOMAIN rows : rows[k].status = "PENDING"})

\* reject: SELECT the other open rows; they are rejected with it.
ReadOthers(t) ==
  /\ pc[t] = "others"
  /\ Read(t, "write", {work[t].id} \cup {k \in DOMAIN rows : rows[k].status \in Open})

WriteDecision(t) ==
  /\ pc[t] = "write" /\ work[t].op \in {"APPROVE", "REJECT"}
  /\ rows' = Marked(work[t].read, IF work[t].op = "APPROVE" THEN "APPROVED" ELSE "REJECTED")
  /\ End(t, "done")
  /\ UNCHANGED overdue

\* A fault: the delegated row stays as it is.
WriteDelegationKeeping(t) ==
  /\ pc[t] = "write" /\ work[t].op = "DELEGATE"
  /\ Len(rows) < MaxRows
  /\ rows' = Append(rows, [rows[work[t].id] EXCEPT !.status = "PENDING"])
  /\ End(t, "done")
  /\ UNCHANGED overdue

\* delegate_approval: the row is DELEGATED and a PENDING row of the same level,
\* with an SLA of its own, takes its place.  Bound: MaxRows.
WriteDelegation(t) ==
  /\ pc[t] = "write" /\ work[t].op = "DELEGATE"
  /\ Len(rows) < MaxRows
  /\ rows' = Append(Marked(work[t].read, "DELEGATED"),
                    [rows[work[t].id] EXCEPT !.status = "PENDING"])
  /\ End(t, "done")
  /\ UNCHANGED overdue

\* A fault: the sweep takes every row that is overdue.
ReadOverdueAll(t) ==
  /\ pc[t] = "load" /\ work[t].op = "ESCALATE"
  /\ Read(t, "write", overdue)

\* escalate_overdue_approvals: SELECT the PENDING rows that are overdue.
ReadOverdue(t) ==
  /\ pc[t] = "load" /\ work[t].op = "ESCALATE"
  /\ Read(t, "write", {k \in overdue : rows[k].status = "PENDING"})

WriteEscalation(t) ==
  /\ pc[t] = "write" /\ work[t].op = "ESCALATE"
  /\ rows' = Marked(work[t].read, "ESCALATED")
  /\ End(t, "done")
  /\ UNCHANGED overdue

\* Time passes a row's sla_due_at; the levels above have a later one.
Expire(k) ==
  /\ k \in DOMAIN rows \ overdue
  /\ overdue' = overdue \cup {k}
  /\ UNCHANGED << rows, pc, work >>

\* The process or its connection dies inside the transaction.
Lose(t) == IsOpen(t) /\ Refuse(t)

Step(t) ==
  \/ \E ask \in Asks : Begin(t, ask)
  \/ CheckNoChain(t) \/ InsertChain(t)
  \/ LoadRow(t) \/ ReadPrior(t) \/ ReadOthers(t) \/ WriteDecision(t)
  \/ WriteDelegation(t)
  \/ ReadOverdue(t) \/ WriteEscalation(t)

\* All requests have been answered, or there is nothing left to name.
Finished == (\A t \in Requests : ~IsOpen(t)) /\ UNCHANGED vars

Next == \/ \E t \in Requests : Step(t) \/ Lose(t)
        \/ \E k \in DOMAIN rows : Expire(k)
        \/ Finished

Spec == Init /\ [][Next]_vars
-----------------------------------------------------------------------------
\* get_approval_chain_status: the rows it looks at, and its verdict.
Live == {k \in DOMAIN rows : rows[k].status # "DELEGATED"}
OverallStatus ==
  CASE Live = {} -> "no_chain"
    [] \E k \in Live : rows[k].status = "REJECTED" -> "rejected"
    [] Live # {} /\ \A k \in Live : rows[k].status = "APPROVED" -> "approved"
    [] OTHER -> "pending"

TypeOK ==
  /\ rows \in Seq(ApprovalRow)
  /\ overdue \subseteq DOMAIN rows
  /\ \A t \in Requests : /\ work[t].read \subseteq DOMAIN rows
                         /\ IsOpen(t) <=> work[t].op # "NONE"

\* The chain is the plan's: its live rows are levels 1, 2, ... without a gap,
\* one row each, the Owner's last (determine_approval_chain,
\* create_approval_chain, and delegate_approval keeping the level).
OneLiveRowPerLevel ==
  /\ \A j, k \in Live : rows[j].level = rows[k].level => j = k
  /\ {rows[k].level : k \in Live} = 1..Cardinality(Live)
  /\ \A j, k \in Live : rows[j].role = "Owner" => rows[k].level <= rows[j].level

\* "Approving level N is blocked until every level below it is APPROVED"
\* (api/v1/approvals.py): no row is approved above one that is not.
ApprovedBottomUp ==
  \A j, k \in DOMAIN rows :
    rows[k].status = "APPROVED" /\ rows[j].level < rows[k].level => rows[j].status = "APPROVED"

\* A rejection kills the whole chain: no level is left open beside it, and no
\* later request opens one.
RejectionCascades ==
  OverallStatus = "rejected" => \A k \in DOMAIN rows : rows[k].status \notin Open

\* A row that was decided, or delegated, keeps its status, and a row never
\* disappears ("cannot be decided again", decide_approval; "terminal,
\* permanent audit record", module docstring).
DecisionsAreFinal ==
  [][\A k \in DOMAIN rows : /\ k \in DOMAIN rows'
                            /\ rows[k].status \in Decided => rows'[k] = rows[k]]_vars

\* A level can be approved once every live row below it is: what the status
\* endpoint counts is what a decision counts.
ApprovableWhenLowerApproved ==
  \A k \in Live :
    (\A j \in Live : rows[j].level < rows[k].level => rows[j].status = "APPROVED")
    => Blocking(k) = {}
=============================================================================
