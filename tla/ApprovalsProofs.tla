-------------------------- MODULE ApprovalsProofs ---------------------------
(***************************************************************************)
(* Theorems of Approvals, for any requests, what they ask for, and length  *)
(* of a chain: the types whatever overlaps, and, for requests that come    *)
(* one at a time, one live row per level, approval from the bottom up, the *)
(* cascade of a rejection and finality.                                    *)
(***************************************************************************)
EXTENDS Approvals, SequenceTheorems, FiniteSetTheorems, TLAPS

Naming == {"APPROVE", "REJECT", "DELEGATE"}
Places == {"idle", "load", "prior", "others", "write", "done", "rejected"}
Work == [op: Ops \cup {"NONE"}, id: {ask.id : ask \in Asks} \cup {0},
         on: {ask.on : ask \in Asks} \cup {<<>>}, read: SUBSET Nat]

\* TypeOK with the types of a request: who names a row names one that is there.
Types ==
  /\ TypeOK
  /\ pc \in [Requests -> Places]
  /\ work \in [Requests -> Work]
  /\ \A t \in Requests :
       /\ pc[t] \in {"prior", "others"} => work[t].op \in Naming
       /\ work[t].op \in Naming => work[t].id \in DOMAIN rows

\* One request at a time.
Alone == \A t, u \in Requests : IsOpen(t) /\ IsOpen(u) => t = u

OpenRows == {k \in DOMAIN rows : rows[k].status \in Open}

\* What a request has read is still so when nobody overlaps with it.
WorkFresh ==
  \A t \in Requests :
    /\ pc[t] = "prior" => /\ work[t].op = "APPROVE"
                          /\ work[t].read = {work[t].id} /\ work[t].id \in OpenRows
    /\ pc[t] = "others" => work[t].op = "REJECT" /\ work[t].id \in OpenRows
                           /\ work[t].read = {work[t].id}
    /\ pc[t] = "write" =>
         /\ work[t].op = "CREATE" => rows = <<>>
         /\ work[t].op = "APPROVE" => /\ work[t].read = {work[t].id} /\ work[t].id \in OpenRows
                                      /\ Blocking(work[t].id) = {}
         /\ work[t].op = "REJECT" => work[t].read = OpenRows
         /\ work[t].op = "DELEGATE" => work[t].read = {work[t].id} /\ work[t].id \in OpenRows
         /\ work[t].op = "ESCALATE" => work[t].read \subseteq OpenRows

\* The inductive invariant of requests that come one at a time.
IInv == MaxOpen = 1 /\ Types /\ Alone /\ WorkFresh /\ ApprovedBottomUp /\ RejectionCascades
-----------------------------------------------------------------------------
\* The plan of a chain becomes rows of the table, all of them PENDING.
LEMMA InsertedRows ==
  ASSUME NEW on
  PROVE  /\ Inserted(on) \in Seq(ApprovalRow)
         /\ \A k \in DOMAIN Inserted(on) : Inserted(on)[k].status = "PENDING"
<1> DEFINE planned == [level: Nat, role: {"Manager", "Owner"}]
           first == IF RequiresManager(on) THEN << [level |-> 1, role |-> "Manager"] >> ELSE <<>>
           owner == << [level |-> Len(first) + 1, role |-> "Owner"] >>
<1>1. first \in Seq(planned)
  <2>1. << [level |-> 1, role |-> "Manager"] >> \in Seq(planned)
    OBVIOUS
  <2>2. <<>> \in Seq(planned)
    OBVIOUS
  <2> HIDE DEF planned
  <2>3. QED
    BY <2>1, <2>2, Zenon
<1>2. owner \in Seq(planned)
  BY <1>1
<1>3. Plan(on) \in Seq(planned)
  <2>1. Plan(on) = first \o (IF RequiresOwner(on) THEN owner ELSE <<>>)
    BY DEF Plan
  <2> HIDE DEF first, owner
  <2>2. QED
    BY <1>1, <1>2, <2>1
<1> HIDE DEF first, owner
<1>4. QED
  <2> DEFINE n == Len(Plan(on))
             p == Plan(on)
  <2>0. p \in Seq(planned)
    BY <1>3
  <2> HIDE DEF p, planned
  <2>0a. Len(p) \in Nat /\ DOMAIN p = 1..Len(p) /\ \A k \in 1..Len(p) : p[k] \in planned
    BY <2>0
  <2> USE DEF planned
  <2>1. n \in Nat /\ DOMAIN Plan(on) = 1..n /\ \A k \in 1..n : Plan(on)[k] \in planned
    BY <2>0a DEF p
  <2>2. \A k \in 1..n : [level |-> Plan(on)[k].level, role |-> Plan(on)[k].role,
                         status |-> "PENDING"] \in ApprovalRow
    <3> SUFFICES ASSUME NEW k \in 1..n
                 PROVE  [level |-> Plan(on)[k].level, role |-> Plan(on)[k].role,
                         status |-> "PENDING"] \in ApprovalRow
      OBVIOUS
    <3>1. Plan(on)[k].level \in Nat /\ Plan(on)[k].role \in {"Manager", "Owner"}
      BY <2>1
    <3>2. QED
      BY <3>1 DEF ApprovalRow, Open
  <2> HIDE DEF n
  <2>3. QED
    BY <2>1, <2>2, IsASeq DEF Inserted

\* A flush by id changes the status of the rows it names, and nothing else.
LEMMA MarkedRows ==
  ASSUME rows \in Seq(ApprovalRow), NEW ids, NEW s \in Open \cup Decided
  PROVE  /\ Marked(ids, s) \in Seq(ApprovalRow)
         /\ Len(Marked(ids, s)) = Len(rows) /\ DOMAIN Marked(ids, s) = DOMAIN rows
         /\ \A k \in DOMAIN rows :
              /\ Marked(ids, s)[k].level = rows[k].level
              /\ Marked(ids, s)[k].status = IF k \in ids THEN s ELSE rows[k].status
              /\ k \notin ids => Marked(ids, s)[k] = rows[k]
<1>1. Len(rows) \in Nat /\ DOMAIN rows = 1..Len(rows) /\ \A k \in 1..Len(rows) : rows[k] \in ApprovalRow
  OBVIOUS
<1>2. \A k \in 1..Len(rows) : [rows[k] EXCEPT !.status = s] \in ApprovalRow
  BY <1>1 DEF ApprovalRow
<1>3. Marked(ids, s) = [k \in 1..Len(rows) |-> IF k \in ids THEN [rows[k] EXCEPT !.status = s]
                                               ELSE rows[k]]
  BY <1>1 DEF Marked
<1>4. Marked(ids, s) \in Seq(ApprovalRow) /\ Len(Marked(ids, s)) = Len(rows)
  BY <1>1, <1>2, <1>3, IsASeq
<1>5. QED
  BY <1>1, <1>3, <1>4 DEF ApprovalRow
-----------------------------------------------------------------------------
\* Nobody has asked for anything and no row is there.
LEMMA InitTypes == Init => Types
BY DEF Init, Types, TypeOK, NoWork, Work, Naming, Places, IsOpen, Ended

\* A request that arrives is one of those on the menu.
LEMMA BeginTypes ==
  ASSUME Types, NEW t \in Requests, NEW ask \in Asks, Begin(t, ask)
  PROVE  Types'
<1>1. ask.op \in Ops /\ ask.op # "NONE"
  BY ApprovalsAssumption DEF Ops
<1>2. /\ work' = [work EXCEPT ![t] = [NoWork EXCEPT !.op = ask.op, !.id = ask.id, !.on = ask.on]]
      /\ DOMAIN work = Requests /\ DOMAIN work' = Requests
  BY DEF Begin, Types
<1>2a. [NoWork EXCEPT !.op = ask.op, !.id = ask.id, !.on = ask.on] \in Work
  BY <1>1 DEF NoWork, Work, Ops
<1>2b. /\ work'[t].op = ask.op /\ work'[t].id = ask.id /\ work'[t].read = {}
       /\ \A u \in Requests \ {t} : work'[u] = work[u]
  BY <1>2 DEF NoWork
<1>3. work' \in [Requests -> Work]
  BY <1>2, <1>2a DEF Types
<1>4. QED
  BY <1>1, <1>2b, <1>3 DEF Begin, Types, TypeOK, Naming, Places, IsOpen, Ended, Ops

\* A request that reads goes on with ids of rows.
LEMMA ReadTypes ==
  ASSUME Types, NEW t \in Requests, NEW where \in {"prior", "others", "write"},
         NEW seen \in SUBSET DOMAIN rows, IsOpen(t), Read(t, where, seen),
         where \in {"prior", "others"} => work[t].op \in Naming
  PROVE  Types'
<1>1. DOMAIN rows \subseteq Nat
  BY DEF Types, TypeOK
<1>2. work[t] \in Work /\ [work[t] EXCEPT !.read = seen] \in Work
  BY <1>1 DEF Types, Work
<1>3. work' \in [Requests -> Work]
  BY <1>2 DEF Read, Types
<1>4. \A u \in Requests : /\ work'[u].op = work[u].op /\ work'[u].id = work[u].id
                          /\ work'[u].read \subseteq DOMAIN rows
  BY <1>2 DEF Read, Types, TypeOK, Work
<1>5. QED
  BY <1>3, <1>4 DEF Read, Types, TypeOK, Places, IsOpen, Ended

\* A request ends, and the table is what it was or longer.
LEMMA EndTypes ==
  ASSUME Types, NEW t \in Requests, NEW how \in {"done", "rejected"}, End(t, how),
         UNCHANGED overdue, rows' \in Seq(ApprovalRow), Len(rows) <= Len(rows')
  PROVE  Types'
<1>1. DOMAIN rows \subseteq DOMAIN rows'
  BY DEF Types, TypeOK
<1>2. NoWork \in Work /\ NoWork.op = "NONE" /\ NoWork.read = {}
  BY DEF NoWork, Work
<1>3. QED
  BY <1>1, <1>2 DEF End, Types, TypeOK, Places, Naming, IsOpen, Ended

\* Every step keeps the types, whatever overlaps.
LEMMA NextTypes == Types /\ [Next]_vars => Types'
<1> SUFFICES ASSUME Types, [Next]_vars PROVE Types'
  OBVIOUS
<1>0. rows \in Seq(ApprovalRow) /\ Len(rows) \in Nat /\ DOMAIN rows = 1..Len(rows)
  BY DEF Types, TypeOK
<1>1. ASSUME NEW t \in Requests, Refuse(t) PROVE Types'
  BY <1>0, <1>1, EndTypes DEF Refuse
<1>2. ASSUME NEW t \in Requests, NEW ask \in Asks, Begin(t, ask) PROVE Types'
  BY <1>2, BeginTypes
<1>3. ASSUME NEW t \in Requests, CheckNoChain(t) PROVE Types'
  <2>1. IsOpen(t) /\ {} \in SUBSET DOMAIN rows
    BY <1>3 DEF CheckNoChain, IsOpen, Ended
  <2>2. QED
    BY <1>1, <1>3, <2>1, ReadTypes DEF CheckNoChain
<1>4. ASSUME NEW t \in Requests, InsertChain(t) PROVE Types'
  <2> DEFINE new == Inserted(work[t].on)
  <2>1. new \in Seq(ApprovalRow)
    BY InsertedRows
  <2> HIDE DEF new
  <2>2. rows \o new \in Seq(ApprovalRow) /\ Len(rows \o new) >= Len(rows)
    BY <1>0, <2>1
  <2>3. QED
    BY <1>4, <2>2, EndTypes DEF InsertChain, new
<1>5. ASSUME NEW t \in Requests, LoadRow(t) PROVE Types'
  <2>1. IsOpen(t) /\ work[t].op \in Naming /\ {work[t].id} \in SUBSET DOMAIN rows
    BY <1>5 DEF LoadRow, IsOpen, Ended, Types, Naming
  <2>2. CASE Refuse(t)
    BY <1>1, <2>2
  <2>3. CASE Read(t, "prior", {work[t].id})
    BY <2>1, <2>3, ReadTypes
  <2>4. CASE Read(t, "others", {work[t].id})
    BY <2>1, <2>4, ReadTypes
  <2>5. CASE Read(t, "write", {work[t].id})
    BY <2>1, <2>5, ReadTypes
  <2>6. QED
    BY <1>5, <2>2, <2>3, <2>4, <2>5 DEF LoadRow
<1>6. ASSUME NEW t \in Requests, ReadPrior(t) PROVE Types'
  <2>1. IsOpen(t) /\ {work[t].id} \in SUBSET DOMAIN rows
    BY <1>6 DEF ReadPrior, IsOpen, Ended, Types
  <2>2. QED
    BY <1>1, <1>6, <2>1, ReadTypes DEF ReadPrior
<1>7. ASSUME NEW t \in Requests, ReadOthers(t) PROVE Types'
  <2>1. /\ IsOpen(t)
        /\ {work[t].id} \cup {k \in DOMAIN rows : rows[k].status \in Open} \in SUBSET DOMAIN rows
    BY <1>7 DEF ReadOthers, IsOpen, Ended, Types
  <2>2. QED
    BY <1>7, <2>1, ReadTypes DEF ReadOthers
<1>8. ASSUME NEW t \in Requests, ReadOverdue(t) PROVE Types'
  <2>1. /\ IsOpen(t)
        /\ {k \in overdue : rows[k].status = "PENDING"} \in SUBSET DOMAIN rows
    BY <1>8 DEF ReadOverdue, IsOpen, Ended, Types, TypeOK
  <2>2. QED
    BY <1>8, <2>1, ReadTypes DEF ReadOverdue
<1>9. ASSUME NEW t \in Requests, WriteDecision(t) \/ WriteEscalation(t) PROVE Types'
  <2>1. PICK s \in Open \cup Decided : rows' = Marked(work[t].read, s) /\ End(t, "done")
    BY <1>9 DEF WriteDecision, WriteEscalation, Open, Decided
  <2>2. QED
    BY <1>0, <1>9, <2>1, MarkedRows, EndTypes DEF WriteDecision, WriteEscalation
<1>10. ASSUME NEW t \in Requests, WriteDelegation(t) PROVE Types'
  <2> DEFINE old == Marked(work[t].read, "DELEGATED")
             new == [rows[work[t].id] EXCEPT !.status = "PENDING"]
  <2>1. old \in Seq(ApprovalRow) /\ Len(old) = Len(rows)
    BY <1>0, MarkedRows DEF Decided
  <2>2. new \in ApprovalRow
    <3>1. work[t].id \in DOMAIN rows
      BY <1>10 DEF WriteDelegation, Types, Naming
    <3>2. rows[work[t].id] \in ApprovalRow
      BY <1>0, <3>1
    <3>3. QED
      BY <3>2 DEF ApprovalRow, Open
  <2> HIDE DEF old, new
  <2>3. Append(old, new) \in Seq(ApprovalRow) /\ Len(Append(old, new)) >= Len(rows)
    BY <1>0, <2>1, <2>2
  <2>4. QED
    BY <1>10, <2>3, EndTypes DEF WriteDelegation, old, new
<1>11. ASSUME NEW k \in DOMAIN rows, Expire(k) PROVE Types'
  BY <1>11 DEF Expire, Types, TypeOK, IsOpen
<1>12. CASE UNCHANGED vars
  BY <1>12 DEF vars, Types, TypeOK, IsOpen
<1>13. QED
  BY <1>1, <1>2, <1>3, <1>4, <1>5, <1>6, <1>7, <1>8, <1>9, <1>10, <1>11, <1>12
     DEF Next, Step, Lose, Finished
-----------------------------------------------------------------------------
\* Approvals keeps its types whatever overlaps: every id that a request has read
\* is that of a row, and every row a level of a chain.
THEOREM TypeCorrect == Spec => []TypeOK
<1>1. Types => TypeOK
  BY DEF Types
<1>2. QED
  BY InitTypes, NextTypes, <1>1, PTL DEF Spec
-----------------------------------------------------------------------------
\* With one request at a time, one that begins finds nobody else.
LEMMA NobodyElse ==
  ASSUME MaxOpen = 1, Cardinality({u \in Requests : IsOpen(u)}) < MaxOpen
  PROVE  \A u \in Requests : ~IsOpen(u)
<1> DEFINE busy == {u \in Requests : IsOpen(u)}
<1>1. IsFiniteSet(busy)
  BY ApprovalsAssumption, FS_Subset
<1>2. Cardinality(busy) \in Nat /\ Cardinality(busy) < 1
  BY <1>1, FS_CardinalityType
<1>3. busy = {}
  BY <1>1, <1>2, FS_EmptySet
<1>4. QED
  BY <1>3

\* A chain is rejected when one of its rows is.
LEMMA RejectedTold == OverallStatus = "rejected" <=> \E k \in DOMAIN rows : rows[k].status = "REJECTED"
<1>1. CASE \E k \in DOMAIN rows : rows[k].status = "REJECTED"
  BY <1>1 DEF OverallStatus, Live
<1>2. CASE ~ \E k \in DOMAIN rows : rows[k].status = "REJECTED"
  BY <1>2 DEF OverallStatus, Live
<1>3. QED
  BY <1>1, <1>2

\* Nobody has asked, nothing is decided.
LEMMA InitIInv == MaxOpen = 1 /\ Init => IInv
<1> SUFFICES ASSUME MaxOpen = 1, Init PROVE IInv
  OBVIOUS
<1>1. Types
  BY InitTypes
<1>2. DOMAIN rows = {} /\ \A t \in Requests : pc[t] = "idle"
  BY DEF Init
<1>3. QED
  BY <1>1, <1>2, RejectedTold
     DEF IInv, Alone, IsOpen, Ended, WorkFresh, ApprovedBottomUp, RejectionCascades

\* A request ends: nobody is open, and nobody has read anything.
LEMMA EndAlone ==
  ASSUME IInv, NEW t \in Requests, IsOpen(t), NEW how \in {"done", "rejected"}, End(t, how)
  PROVE  Alone' /\ WorkFresh'
<1>1. \A u \in Requests : pc'[u] \in {"idle", "done", "rejected"}
  BY DEF IInv, Types, Alone, IsOpen, Ended, End, Places
<1>2. QED
  BY <1>1 DEF Alone, IsOpen, Ended, WorkFresh

\* A flush that names open rows leaves the decided ones as they are.
LEMMA MarkedKeepsDecided ==
  ASSUME IInv, NEW ids \in SUBSET OpenRows, NEW s \in {"ESCALATED", "REJECTED", "DELEGATED"},
         rows' = Marked(ids, s)
  PROVE  ApprovedBottomUp'
<1>1. rows \in Seq(ApprovalRow)
  BY DEF IInv, Types, TypeOK
<1>2. /\ DOMAIN rows' = DOMAIN rows
      /\ \A k \in DOMAIN rows : /\ rows'[k].level = rows[k].level
                                /\ rows'[k].status = IF k \in ids THEN s ELSE rows[k].status
  BY <1>1, MarkedRows DEF Open, Decided
<1>3. \A k \in ids : rows[k].status # "APPROVED"
  BY DEF OpenRows, Open
<1>4. QED
  BY <1>2, <1>3 DEF IInv, ApprovedBottomUp

\* What a request reads is fresh when it is the only one.
LEMMA ReadFresh ==
  ASSUME IInv, NEW t \in Requests, IsOpen(t), NEW where \in {"prior", "others", "write"},
         NEW seen \in SUBSET DOMAIN rows, Read(t, where, seen),
         where = "prior" => work[t].op = "APPROVE" /\ seen = {work[t].id} /\ work[t].id \in OpenRows,
         where = "others" => work[t].op = "REJECT" /\ seen = {work[t].id} /\ work[t].id \in OpenRows,
         where = "write" =>
           /\ work[t].op = "CREATE" => rows = <<>>
           /\ work[t].op = "APPROVE" => /\ seen = {work[t].id} /\ work[t].id \in OpenRows
                                        /\ Blocking(work[t].id) = {}
           /\ work[t].op = "REJECT" => seen = OpenRows
           /\ work[t].op = "DELEGATE" => seen = {work[t].id} /\ work[t].id \in OpenRows
           /\ work[t].op = "ESCALATE" => seen \subseteq OpenRows
  PROVE  IInv'
<1>1. /\ rows' = rows /\ pc' = [pc EXCEPT ![t] = where]
      /\ work' = [work EXCEPT ![t].read = seen]
  BY DEF Read
<1>2. Types'
  BY ReadTypes DEF IInv, Naming
<1>3. /\ \A u \in Requests : work'[u].op = work[u].op /\ work'[u].id = work[u].id
      /\ work'[t].read = seen
  BY <1>1 DEF IInv, Types, Work
<1>4. \A u \in Requests \ {t} : pc'[u] = pc[u] /\ pc[u] \in {"idle", "done", "rejected"}
  BY <1>1 DEF IInv, Types, Alone, IsOpen, Ended
<1>5. Alone'
  BY <1>4 DEF Alone, IsOpen, Ended
<1>6. pc'[t] = where
  BY <1>1 DEF IInv, Types
<1>7. OpenRows' = OpenRows /\ \A i \in DOMAIN rows : Blocking(i)' = Blocking(i)
  BY <1>1 DEF OpenRows, Blocking
<1>8. WorkFresh'
  <2> SUFFICES ASSUME NEW u \in Requests, pc'[u] \in {"prior", "others", "write"}
               PROVE  WorkFresh!(u)'
    BY DEF WorkFresh
  <2>1. u = t
    BY <1>4
  <2>2. QED
    BY <1>1, <1>3, <1>6, <1>7, <2>1 DEF OpenRows
<1>9. QED
  BY <1>1, <1>2, <1>5, <1>8 DEF IInv, ApprovedBottomUp, RejectionCascades, OverallStatus, Live
-----------------------------------------------------------------------------
\* Every step of a system that serves one request at a time keeps the invariant.
LEMMA NextIInv == IInv /\ [Next]_vars => IInv'
<1> SUFFICES ASSUME IInv, [Next]_vars PROVE IInv'
  OBVIOUS
<1>0. /\ MaxOpen = 1 /\ Types /\ Types' /\ Alone /\ WorkFresh
      /\ ApprovedBottomUp /\ RejectionCascades
      /\ rows \in Seq(ApprovalRow) /\ Len(rows) \in Nat /\ DOMAIN rows = 1..Len(rows)
  BY NextTypes DEF IInv, Types, TypeOK
<1>1. ASSUME rows' = rows PROVE ApprovedBottomUp' /\ RejectionCascades'
  BY <1>0, <1>1 DEF ApprovedBottomUp, RejectionCascades, OverallStatus, Live
<1>2. ASSUME NEW t \in Requests, IsOpen(t), Refuse(t) PROVE IInv'
  BY <1>0, <1>1, <1>2, EndAlone DEF Refuse, IInv
<1>3. ASSUME NEW t \in Requests, NEW ask \in Asks, Begin(t, ask) PROVE IInv'
  <2>1. \A u \in Requests : ~IsOpen(u)
    BY <1>0, <1>3, NobodyElse DEF Begin
  <2>2. pc'[t] = "load" /\ \A u \in Requests \ {t} : pc'[u] \in {"idle", "done", "rejected"}
    BY <1>0, <1>3, <2>1 DEF Begin, Types, IsOpen, Ended
  <2>3. QED
    BY <1>0, <1>1, <1>3, <2>2 DEF Begin, IInv, Alone, IsOpen, Ended, WorkFresh
<1>4. ASSUME NEW t \in Requests, CheckNoChain(t) PROVE IInv'
  <2>1. IsOpen(t) /\ {} \in SUBSET DOMAIN rows /\ work[t].op = "CREATE"
    BY <1>4 DEF CheckNoChain, IsOpen, Ended
  <2>2. CASE Refuse(t)
    BY <1>2, <2>1, <2>2
  <2>3. CASE rows = <<>> /\ Read(t, "write", {})
    BY <2>1, <2>3, ReadFresh
  <2>4. QED
    BY <1>4, <2>2, <2>3 DEF CheckNoChain
<1>5. ASSUME NEW t \in Requests, InsertChain(t) PROVE IInv'
  <2> DEFINE new == Inserted(work[t].on)
  <2>1. /\ new \in Seq(ApprovalRow)
        /\ \A k \in DOMAIN new : new[k].status = "PENDING"
    BY InsertedRows
  <2>2. rows = <<>> /\ IsOpen(t) /\ End(t, "done")
    BY <1>0, <1>5 DEF InsertChain, WorkFresh, IsOpen, Ended
  <2>3. rows' = rows \o new
    BY <1>5 DEF InsertChain
  <2> HIDE DEF new
  <2>4. rows' = new
    BY <2>1, <2>2, <2>3
  <2>5. ApprovedBottomUp' /\ ~ \E k \in DOMAIN rows' : rows'[k].status = "REJECTED"
    BY <2>1, <2>4 DEF ApprovedBottomUp
  <2>6. RejectionCascades'
    <3>1. (OverallStatus = "rejected" <=> \E k \in DOMAIN rows : rows[k].status = "REJECTED")'
      BY RejectedTold, PTL
    <3>2. QED
      BY <2>5, <3>1 DEF RejectionCascades
  <2>7. QED
    BY <1>0, <2>2, <2>5, <2>6, EndAlone DEF IInv
<1>6. ASSUME NEW t \in Requests, LoadRow(t) PROVE IInv'
  <2>1. IsOpen(t) /\ work[t].op \in Naming /\ {work[t].id} \in SUBSET DOMAIN rows
    BY <1>0, <1>6 DEF LoadRow, IsOpen, Ended, Types, Naming
  <2>2. CASE Refuse(t)
    BY <1>2, <2>1, <2>2
  <2>3. CASE rows[work[t].id].status \in Open
    <3>1. work[t].id \in OpenRows
      BY <2>1, <2>3 DEF OpenRows
    <3>2. CASE work[t].op = "APPROVE" /\ Read(t, "prior", {work[t].id})
      BY <2>1, <3>1, <3>2, ReadFresh
    <3>3. CASE work[t].op = "REJECT" /\ Read(t, "others", {work[t].id})
      BY <2>1, <3>1, <3>3, ReadFresh
    <3>4. CASE work[t].op = "DELEGATE" /\ Read(t, "write", {work[t].id})
      BY <2>1, <3>1, <3>4, ReadFresh
    <3>5. QED
      BY <1>6, <2>1, <2>3, <3>2, <3>3, <3>4 DEF LoadRow, Naming
  <2>4. QED
    BY <1>6, <2>2, <2>3 DEF LoadRow
<1>7. ASSUME NEW t \in Requests, ReadPrior(t) PROVE IInv'
  <2>1. /\ IsOpen(t) /\ {work[t].id} \in SUBSET DOMAIN rows
        /\ work[t].op = "APPROVE" /\ work[t].id \in OpenRows
    BY <1>0, <1>7 DEF ReadPrior, IsOpen, Ended, WorkFresh, OpenRows
  <2>2. CASE Refuse(t)
    BY <1>2, <2>1, <2>2
  <2>3. CASE Blocking(work[t].id) = {} /\ Read(t, "write", {work[t].id})
    BY <2>1, <2>3, ReadFresh
  <2>4. QED
    BY <1>7, <2>2, <2>3 DEF ReadPrior
<1>8. ASSUME NEW t \in Requests, ReadOthers(t) PROVE IInv'
  <2>1. /\ IsOpen(t) /\ work[t].op = "REJECT"
        /\ {work[t].id} \cup {k \in DOMAIN rows : rows[k].status \in Open} = OpenRows
        /\ OpenRows \in SUBSET DOMAIN rows
    BY <1>0, <1>8 DEF ReadOthers, IsOpen, Ended, WorkFresh, OpenRows
  <2>2. QED
    BY <1>8, <2>1, ReadFresh DEF ReadOthers
<1>9. ASSUME NEW t \in Requests, ReadOverdue(t) PROVE IInv'
  <2> DEFINE late == {k \in overdue : rows[k].status = "PENDING"}
  <2>1. /\ IsOpen(t) /\ work[t].op = "ESCALATE" /\ late \in SUBSET DOMAIN rows
        /\ late \subseteq OpenRows
    BY <1>0, <1>9 DEF ReadOverdue, IsOpen, Ended, Types, TypeOK, OpenRows, Open
  <2>2. Read(t, "write", late)
    BY <1>9 DEF ReadOverdue
  <2> HIDE DEF late
  <2>3. QED
    BY <2>1, <2>2, ReadFresh
<1>10. ASSUME NEW t \in Requests, WriteDecision(t) PROVE IInv'
  <2> DEFINE i == work[t].id
  <2>1. IsOpen(t) /\ End(t, "done") /\ pc[t] = "write" /\ work[t].op \in {"APPROVE", "REJECT"}
    BY <1>10 DEF WriteDecision, IsOpen, Ended
  <2>2. CASE work[t].op = "APPROVE"
    <3>1. rows' = Marked({i}, "APPROVED") /\ i \in OpenRows /\ Blocking(i) = {}
      BY <1>0, <1>10, <2>1, <2>2 DEF WriteDecision, WorkFresh
    <3>2. /\ DOMAIN rows' = DOMAIN rows
          /\ \A k \in DOMAIN rows :
               /\ rows'[k].level = rows[k].level
               /\ rows'[k].status = IF k = i THEN "APPROVED" ELSE rows[k].status
      BY <1>0, <3>1, MarkedRows DEF Decided
    <3>3. \A j \in DOMAIN rows : rows[j].level < rows[i].level => rows[j].status = "APPROVED"
      BY <3>1 DEF Blocking
    <3>4. ApprovedBottomUp'
      BY <1>0, <3>2, <3>3 DEF ApprovedBottomUp
    <3>5. ~ \E k \in DOMAIN rows : rows[k].status = "REJECTED"
      BY <1>0, <3>1, RejectedTold DEF RejectionCascades, OpenRows
    <3>6. RejectionCascades'
      <4>1. (OverallStatus = "rejected" <=> \E k \in DOMAIN rows : rows[k].status = "REJECTED")'
        BY RejectedTold, PTL
      <4>2. QED
        BY <3>2, <3>5, <4>1 DEF RejectionCascades
    <3>7. QED
      BY <1>0, <2>1, <3>4, <3>6, EndAlone DEF IInv
  <2>3. CASE work[t].op = "REJECT"
    <3>1. rows' = Marked(OpenRows, "REJECTED")
      BY <1>0, <1>10, <2>1, <2>3 DEF WriteDecision, WorkFresh
    <3>2. ApprovedBottomUp'
      BY <3>1, MarkedKeepsDecided
    <3>3. \A k \in DOMAIN rows' : rows'[k].status \notin Open
      <4>1. /\ DOMAIN rows' = DOMAIN rows
            /\ \A k \in DOMAIN rows :
                 rows'[k].status = IF k \in OpenRows THEN "REJECTED" ELSE rows[k].status
        BY <1>0, <3>1, MarkedRows DEF Decided
      <4>2. QED
        BY <4>1 DEF OpenRows, Open
    <3>4. QED
      BY <1>0, <2>1, <3>2, <3>3, EndAlone DEF IInv, RejectionCascades
  <2>4. QED
    BY <2>1, <2>2, <2>3
<1>11. ASSUME NEW t \in Requests, WriteEscalation(t) PROVE IInv'
  <2> DEFINE ids == work[t].read
  <2>1. /\ IsOpen(t) /\ End(t, "done") /\ ids \subseteq OpenRows
        /\ rows' = Marked(ids, "ESCALATED")
    BY <1>0, <1>11 DEF WriteEscalation, IsOpen, Ended, WorkFresh
  <2> HIDE DEF ids
  <2>2. ApprovedBottomUp'
    BY <2>1, MarkedKeepsDecided
  <2>3. /\ DOMAIN rows' = DOMAIN rows
        /\ \A k \in DOMAIN rows :
             rows'[k].status = IF k \in ids THEN "ESCALATED" ELSE rows[k].status
    BY <1>0, <2>1, MarkedRows DEF Open
  <2>4. RejectionCascades'
    <3>1. (OverallStatus = "rejected" <=> \E k \in DOMAIN rows : rows[k].status = "REJECTED")'
      BY RejectedTold, PTL
    <3>2. ASSUME NEW k \in DOMAIN rows, rows[k].status = "REJECTED" PROVE OpenRows = {}
      BY <1>0, <3>2, RejectedTold DEF RejectionCascades, OpenRows
    <3>3. ASSUME NEW k \in DOMAIN rows', rows'[k].status = "REJECTED"
          PROVE  \A j \in DOMAIN rows' : rows'[j].status \notin Open
      BY <2>1, <2>3, <3>2, <3>3 DEF OpenRows
    <3>4. QED
      BY <3>1, <3>3 DEF RejectionCascades
  <2>5. QED
    BY <1>0, <2>1, <2>2, <2>4, EndAlone DEF IInv
<1>12. ASSUME NEW t \in Requests, WriteDelegation(t) PROVE IInv'
  <2> DEFINE i == work[t].id
             old == Marked({i}, "DELEGATED")
             new == [rows[i] EXCEPT !.status = "PENDING"]
  <2>1. /\ IsOpen(t) /\ End(t, "done") /\ i \in OpenRows
        /\ rows' = Append(old, new)
    BY <1>0, <1>12 DEF WriteDelegation, IsOpen, Ended, WorkFresh
  <2>2. /\ old \in Seq(ApprovalRow) /\ Len(old) = Len(rows) /\ DOMAIN old = DOMAIN rows
        /\ \A k \in DOMAIN rows :
             /\ old[k].level = rows[k].level
             /\ old[k].status = IF k = i THEN "DELEGATED" ELSE rows[k].status
    BY <1>0, MarkedRows DEF Decided
  <2>3. i \in DOMAIN rows /\ rows[i].status \in Open /\ new.level = rows[i].level
        /\ new.status = "PENDING"
    BY <1>0, <2>1 DEF OpenRows, ApprovalRow
  <2> HIDE DEF old, new
  <2>4. /\ DOMAIN rows' = 1 .. Len(rows) + 1 /\ rows'[Len(rows) + 1] = new
        /\ \A k \in DOMAIN rows : rows'[k] = old[k]
    BY <1>0, <2>1, <2>2
  <2>5. \A k \in DOMAIN rows' :
          \/ /\ k \in DOMAIN rows /\ rows'[k].level = rows[k].level
             /\ rows'[k].status = IF k = i THEN "DELEGATED" ELSE rows[k].status
          \/ rows'[k].level = rows[i].level /\ rows'[k].status = "PENDING"
    BY <1>0, <2>2, <2>3, <2>4
  <2>6. ApprovedBottomUp'
    BY <1>0, <2>3, <2>5 DEF ApprovedBottomUp, Open
  <2>7. ~ \E k \in DOMAIN rows : rows[k].status = "REJECTED"
    BY <1>0, <2>3, RejectedTold DEF RejectionCascades
  <2>8. RejectionCascades'
    <3>1. (OverallStatus = "rejected" <=> \E k \in DOMAIN rows : rows[k].status = "REJECTED")'
      BY RejectedTold, PTL
    <3>2. QED
      BY <2>5, <2>7, <3>1 DEF RejectionCascades
  <2>9. QED
    BY <1>0, <2>1, <2>6, <2>8, EndAlone DEF IInv
<1>13. ASSUME NEW k \in DOMAIN rows, Expire(k) PROVE IInv'
  BY <1>0, <1>1, <1>13 DEF Expire, IInv, Alone, IsOpen, WorkFresh, OpenRows, Blocking
<1>14. CASE UNCHANGED vars
  BY <1>0, <1>1, <1>14 DEF vars, IInv, Alone, IsOpen, WorkFresh, OpenRows, Blocking
<1>15. QED
  BY <1>2, <1>3, <1>4, <1>5, <1>6, <1>7, <1>8, <1>9, <1>10, <1>11, <1>12, <1>13, <1>14
     DEF Next, Step, Lose, Finished
-----------------------------------------------------------------------------
\* With one request at a time no row is ever approved above one that is not,
\* through delegations, sweeps and requests that die.
THEOREM ApprovedFromBelow == MaxOpen = 1 /\ Spec => []ApprovedBottomUp
<1>1. IInv => ApprovedBottomUp
  BY DEF IInv
<1>2. QED
  BY InitIInv, NextIInv, <1>1, PTL DEF Spec

\* With one request at a time a rejection leaves no level open, for good.
THEOREM RejectionCloses == MaxOpen = 1 /\ Spec => []RejectionCascades
<1>1. IInv => RejectionCascades
  BY DEF IInv
<1>2. QED
  BY InitIInv, NextIInv, <1>1, PTL DEF Spec

\* With one request at a time what was decided stays so, and no row disappears.
THEOREM DecidedForGood == MaxOpen = 1 /\ Spec => DecisionsAreFinal
<1>1. IInv /\ [Next]_vars =>
        [\A k \in DOMAIN rows : /\ k \in DOMAIN rows'
                                /\ rows[k].status \in Decided => rows'[k] = rows[k]]_vars
  <2> SUFFICES ASSUME IInv, Next, NEW k \in DOMAIN rows
               PROVE  k \in DOMAIN rows' /\ (rows[k].status \in Decided => rows'[k] = rows[k])
    OBVIOUS
  <2>0. /\ rows \in Seq(ApprovalRow) /\ Len(rows) \in Nat /\ DOMAIN rows = 1..Len(rows)
        /\ WorkFresh
    BY DEF IInv, Types, TypeOK
  <2>1. ASSUME NEW ids \in SUBSET OpenRows, NEW s \in Open \cup Decided
        PROVE  /\ Marked(ids, s) \in Seq(ApprovalRow) /\ DOMAIN Marked(ids, s) = DOMAIN rows
               /\ rows[k].status \in Decided => Marked(ids, s)[k] = rows[k]
    BY <2>0, <2>1, MarkedRows DEF OpenRows, Open, Decided
  <2>2. ASSUME NEW t \in Requests, WriteDecision(t) \/ WriteEscalation(t)
        PROVE  k \in DOMAIN rows' /\ (rows[k].status \in Decided => rows'[k] = rows[k])
    <3>1. work[t].read \subseteq OpenRows
      BY <2>0, <2>2 DEF WriteDecision, WriteEscalation, WorkFresh
    <3>2. QED
      BY <2>1, <2>2, <3>1 DEF WriteDecision, WriteEscalation, Open, Decided
  <2>3. ASSUME NEW t \in Requests, WriteDelegation(t)
        PROVE  k \in DOMAIN rows' /\ (rows[k].status \in Decided => rows'[k] = rows[k])
    <3> DEFINE old == Marked(work[t].read, "DELEGATED")
    <3>1. work[t].read \subseteq OpenRows
      BY <2>0, <2>3 DEF WriteDelegation, WorkFresh
    <3>2. /\ old \in Seq(ApprovalRow) /\ DOMAIN old = DOMAIN rows
          /\ rows[k].status \in Decided => old[k] = rows[k]
      BY <2>1, <3>1 DEF Decided
    <3>3. rows' = Append(old, [rows[work[t].id] EXCEPT !.status = "PENDING"])
      BY <2>3 DEF WriteDelegation
    <3> HIDE DEF old
    <3>4. k \in 1..Len(old) /\ Len(old) \in Nat
      BY <2>0, <3>2
    <3>5. QED
      BY <3>2, <3>3, <3>4
  <2>4. ASSUME NEW t \in Requests, InsertChain(t)
        PROVE  k \in DOMAIN rows' /\ (rows[k].status \in Decided => rows'[k] = rows[k])
    BY <2>0, <2>4 DEF InsertChain, WorkFresh
  <2>5. QED
    BY <2>2, <2>3, <2>4 DEF Next, Step, Lose, Finished, vars, Begin, CheckNoChain, LoadRow,
       ReadPrior, ReadOthers, ReadOverdue, Read, Refuse, Expire
<1>2. QED
  BY InitIInv, NextIInv, <1>1, PTL DEF Spec, DecisionsAreFinal
-----------------------------------------------------------------------------
\* The plan of a chain is one row a level, without a gap, the Owner's last.
LEMMA PlanShape ==
  ASSUME NEW on
  PROVE  \E n \in Nat :
           /\ DOMAIN Inserted(on) = 1..n
           /\ \A k \in 1..n : /\ Inserted(on)[k].level = k
                              /\ Inserted(on)[k].role = "Owner" => k = n
                              /\ Inserted(on)[k].status = "PENDING"
<1> DEFINE planned == [level: Nat, role: {"Manager", "Owner"}]
           manager == [level |-> 1, role |-> "Manager"]
           Owner(k) == [level |-> k, role |-> "Owner"]
           M == RequiresManager(on)
           O == RequiresOwner(on)
           first == IF M THEN << manager >> ELSE <<>>
           last == IF O THEN << Owner(Len(first) + 1) >> ELSE <<>>
           p == Plan(on)
<1>1. p = first \o last
  BY DEF Plan
<1>2. \E n \in Nat : /\ DOMAIN p = 1..n
                     /\ \A k \in 1..n : /\ p[k].level = k
                                        /\ p[k].role = "Owner" => k = n
  <2>1. manager \in planned /\ \A k \in Nat : Owner(k) \in planned
    OBVIOUS
  <2>2. /\ manager.level = 1 /\ manager.role = "Manager"
        /\ \A k \in Nat : Owner(k).level = k /\ Owner(k).role = "Owner"
    OBVIOUS
  <2> HIDE DEF planned, manager, Owner, M, O, p
  <2>3. /\ first \in Seq(planned) /\ last \in Seq(planned)
        /\ Len(first) = IF M THEN 1 ELSE 0
        /\ Len(last) = IF O THEN 1 ELSE 0
        /\ M => first[1] = manager
        /\ O => last[1] = Owner(Len(first) + 1)
    <3>1. first \in Seq(planned) /\ Len(first) = (IF M THEN 1 ELSE 0) /\ (M => first[1] = manager)
      BY <2>1
    <3>2. Len(first) \in Nat
      BY <3>1
    <3> HIDE DEF first
    <3>3. last \in Seq(planned) /\ Len(last) = (IF O THEN 1 ELSE 0)
          /\ (O => last[1] = Owner(Len(first) + 1))
      BY <2>1, <3>2
    <3>4. QED
      BY <3>1, <3>3
  <2> HIDE DEF first, last
  <2>4. /\ p \in Seq(planned) /\ Len(p) = Len(first) + Len(last)
        /\ \A k \in 1..(Len(first) + Len(last)) :
             p[k] = IF k <= Len(first) THEN first[k] ELSE last[k - Len(first)]
    BY <1>1, <2>3, ConcatProperties
  <2>5. Len(p) \in 0..2 /\ DOMAIN p = 1..Len(p)
    BY <2>3, <2>4
  <2>6. ASSUME NEW k \in 1..Len(p)
        PROVE  p[k].level = k /\ (p[k].role = "Owner" => k = Len(p))
    <3>1. CASE k <= Len(first)
      <4>1. M /\ k = 1 /\ p[k] = manager
        BY <2>3, <2>4, <3>1
      <4>2. QED
        BY <2>2, <4>1
    <3>2. CASE ~(k <= Len(first))
      <4>1. O /\ k = Len(first) + 1 /\ p[k] = Owner(k) /\ k = Len(p) /\ k \in Nat
        BY <2>3, <2>4, <3>2
      <4>2. QED
        BY <2>2, <4>1
    <3>3. QED
      BY <3>1, <3>2
  <2>7. Len(p) \in Nat
    BY <2>5
  <2> WITNESS Len(p) \in Nat
  <2>8. QED
    BY <2>5, <2>6
<1>3. QED
  BY <1>2 DEF Inserted

\* A flush that neither delegates a row nor writes a delegated one.
LEMMA MarkedKeepsChain ==
  ASSUME IInv, OneLiveRowPerLevel, NEW ids \in SUBSET OpenRows,
         NEW s \in {"APPROVED", "REJECTED", "ESCALATED"}, rows' = Marked(ids, s)
  PROVE  OneLiveRowPerLevel'
<1>1. rows \in Seq(ApprovalRow)
  BY DEF IInv, Types, TypeOK
<1>2. /\ DOMAIN rows' = DOMAIN rows
      /\ \A k \in DOMAIN rows : /\ rows'[k].level = rows[k].level
                                /\ rows'[k].status = IF k \in ids THEN s ELSE rows[k].status
  BY <1>1, MarkedRows DEF Open, Decided
<1>3. \A k \in DOMAIN rows : rows'[k].role = rows[k].role
  <2> SUFFICES ASSUME NEW k \in DOMAIN rows PROVE Marked(ids, s)[k].role = rows[k].role
    OBVIOUS
  <2>1. rows[k] \in ApprovalRow
    BY <1>1
  <2>2. QED
    BY <2>1 DEF Marked, ApprovalRow
<1>4. Live' = Live
  BY <1>2 DEF Live, OpenRows, Open
<1>5. Live \subseteq DOMAIN rows
  BY DEF Live
<1>6. {rows'[k].level : k \in Live'} = {rows[k].level : k \in Live}
  BY <1>2, <1>4, <1>5
<1>7. QED
  BY <1>2, <1>3, <1>4, <1>5, <1>6 DEF OneLiveRowPerLevel

\* A delegation puts a row of the same level and role in the place of another.
LEMMA DelegationKeepsChain ==
  ASSUME IInv, OneLiveRowPerLevel, NEW t \in Requests, WriteDelegation(t)
  PROVE  OneLiveRowPerLevel'
<1> DEFINE n == Len(rows)
           i == work[t].id
           old == Marked({i}, "DELEGATED")
           new == [rows[i] EXCEPT !.status = "PENDING"]
<1>0. i \in OpenRows /\ rows' = Append(old, new)
  BY DEF WriteDelegation, IInv, WorkFresh
<1>1. rows \in Seq(ApprovalRow) /\ n \in Nat /\ DOMAIN rows = 1..n
  BY DEF IInv, Types, TypeOK
<1>2. /\ old \in Seq(ApprovalRow) /\ Len(old) = n /\ DOMAIN old = 1..n
      /\ \A k \in 1..n : /\ old[k].level = rows[k].level
                         /\ old[k].status = IF k = i THEN "DELEGATED" ELSE rows[k].status
                         /\ k # i => old[k] = rows[k]
  BY <1>1, MarkedRows DEF Decided
<1>3. /\ i \in 1..n /\ rows[i].status \in Open /\ rows[i] \in ApprovalRow
      /\ new.level = rows[i].level /\ new.role = rows[i].role /\ new.status = "PENDING"
      /\ new \in ApprovalRow
  <2>1. i \in 1..n /\ rows[i].status \in Open
    BY <1>0, <1>1 DEF OpenRows
  <2>2. rows[i] \in ApprovalRow
    BY <1>1, <2>1
  <2>3. QED
    BY <2>1, <2>2 DEF ApprovalRow, Open
<1> HIDE DEF i, old, new
<1>4. /\ DOMAIN rows' = 1..(n + 1) /\ rows'[n + 1] = new
      /\ \A k \in 1..n : rows'[k] = old[k]
  BY <1>0, <1>1, <1>2, <1>3, SMTT(30)
<1>5. Live' = (Live \ {i}) \cup {n + 1} /\ i \in Live /\ n + 1 \notin Live /\ Live \in SUBSET (1..n)
  <2>1. \A k : k \in Live <=> k \in 1..n /\ rows[k].status # "DELEGATED"
    BY <1>1 DEF Live
  <2>2. \A k : k \in Live' <=> k \in 1..(n + 1) /\ rows'[k].status # "DELEGATED"
    BY <1>4 DEF Live
  <2>3. i \in Live /\ n + 1 \notin Live /\ Live \in SUBSET (1..n)
    BY <1>1, <1>3, <2>1 DEF Open
  <2>4. n + 1 \in Live'
    BY <1>1, <1>3, <1>4, <2>2
  <2>5. \A k \in 1..n : k \in Live' <=> k \in Live /\ k # i
    BY <1>2, <1>3, <1>4, <2>1, <2>2
  <2>6. \A k : k \in 1..(n + 1) <=> k \in 1..n \/ k = n + 1
    BY <1>1
  <2>7. QED
    BY <2>1, <2>2, <2>3, <2>4, <2>5, <2>6
<1>6. \A k \in Live \ {i} : rows'[k] = rows[k]
  BY <1>2, <1>4, <1>5
<1>7. Cardinality(Live') = Cardinality(Live)
  <2>1. IsFiniteSet(Live)
    <3>1. IsFiniteSet(1..n)
      BY <1>1, FS_Interval
    <3>2. QED
      BY <1>5, <3>1, FS_Subset
  <2>2. IsFiniteSet(Live \ {i}) /\ Cardinality(Live \ {i}) = Cardinality(Live) - 1
    BY <1>5, <2>1, FS_RemoveElement
  <2>3. Cardinality((Live \ {i}) \cup {n + 1}) = Cardinality(Live \ {i}) + 1
    BY <1>5, <2>2, FS_AddElement
  <2>4. Cardinality(Live) \in Nat
    BY <2>1, FS_CardinalityType
  <2>5. QED
    BY <1>5, <2>2, <2>3, <2>4
<1>8. {rows'[k].level : k \in Live'} = {rows[k].level : k \in Live}
  <2>1. \A k \in Live' : \E j \in Live : rows'[k].level = rows[j].level
    BY <1>3, <1>4, <1>5, <1>6
  <2>2. \A j \in Live : \E k \in Live' : rows'[k].level = rows[j].level
    <3> SUFFICES ASSUME NEW j \in Live PROVE \E k \in Live' : rows'[k].level = rows[j].level
      OBVIOUS
    <3>1. CASE j = i
      BY <1>3, <1>4, <1>5, <3>1
    <3>2. CASE j # i
      BY <1>5, <1>6, <3>2
    <3>3. QED
      BY <3>1, <3>2
  <2>3. QED
    BY <2>1, <2>2
<1>9. ASSUME NEW j \in Live', NEW k \in Live'
      PROVE  /\ rows'[j].level = rows'[k].level => j = k
             /\ rows'[j].role = "Owner" => rows'[k].level <= rows'[j].level
  <2> DEFINE Was(m) == IF m = n + 1 THEN i ELSE m
  <2>1. \A m \in Live' : /\ Was(m) \in Live /\ rows'[m].level = rows[Was(m)].level
                         /\ rows'[m].role = rows[Was(m)].role
    BY <1>3, <1>4, <1>5, <1>6
  <2>2. Was(j) = Was(k) => j = k
    BY <1>5
  <2> HIDE DEF Was
  <2>3. /\ Was(j) \in Live /\ rows'[j].level = rows[Was(j)].level
        /\ rows'[j].role = rows[Was(j)].role
        /\ Was(k) \in Live /\ rows'[k].level = rows[Was(k)].level
    BY <2>1
  <2>4. /\ rows[Was(j)].level = rows[Was(k)].level => Was(j) = Was(k)
        /\ rows[Was(j)].role = "Owner" => rows[Was(k)].level <= rows[Was(j)].level
    BY <2>3 DEF OneLiveRowPerLevel
  <2>5. QED
    BY <2>2, <2>3, <2>4
<1>10. QED
  BY <1>7, <1>8, <1>9 DEF OneLiveRowPerLevel

\* Every step of a system that serves one request at a time keeps the chain in
\* the shape of its plan.
LEMMA NextOneRow == IInv /\ OneLiveRowPerLevel /\ [Next]_vars => OneLiveRowPerLevel'
<1> SUFFICES ASSUME IInv, OneLiveRowPerLevel, [Next]_vars PROVE OneLiveRowPerLevel'
  OBVIOUS
<1>0. WorkFresh
  BY DEF IInv
<1>1. CASE rows' = rows
  BY <1>1 DEF OneLiveRowPerLevel, Live
<1>2. ASSUME NEW t \in Requests, InsertChain(t) PROVE OneLiveRowPerLevel'
  <2> DEFINE new == Inserted(work[t].on)
  <2>1. new \in Seq(ApprovalRow)
    BY InsertedRows
  <2>2. rows = <<>> /\ rows' = rows \o new
    BY <1>0, <1>2 DEF InsertChain, WorkFresh
  <2>3. PICK n \in Nat : /\ DOMAIN new = 1..n
                         /\ \A k \in 1..n : /\ new[k].level = k
                                            /\ new[k].role = "Owner" => k = n
                                            /\ new[k].status = "PENDING"
    BY PlanShape
  <2> HIDE DEF new
  <2>4. rows' = new
    BY <2>1, <2>2
  <2>5. Live' = 1..n
    BY <2>3, <2>4 DEF Live
  <2>6. Cardinality(1..n) = n
    BY FS_Interval
  <2>7. {rows[k].level : k \in Live}' = 1..n
    BY <2>3, <2>4, <2>5
  <2>8. QED
    BY <2>3, <2>4, <2>5, <2>6, <2>7 DEF OneLiveRowPerLevel
<1>3. ASSUME NEW t \in Requests, WriteDecision(t) \/ WriteEscalation(t)
      PROVE  OneLiveRowPerLevel'
  <2> DEFINE ids == work[t].read
  <2>1. ids \in SUBSET OpenRows
    BY <1>0, <1>3 DEF WriteDecision, WriteEscalation, WorkFresh
  <2>2. \E s \in {"APPROVED", "REJECTED", "ESCALATED"} : rows' = Marked(ids, s)
    BY <1>3 DEF WriteDecision, WriteEscalation
  <2> HIDE DEF ids
  <2>3. QED
    BY <2>1, <2>2, MarkedKeepsChain
<1>4. ASSUME NEW t \in Requests, WriteDelegation(t) PROVE OneLiveRowPerLevel'
  BY <1>4, DelegationKeepsChain
<1>5. QED
  BY <1>1, <1>2, <1>3, <1>4
     DEF Next, Step, Begin, CheckNoChain, LoadRow, ReadPrior, ReadOthers, ReadOverdue, Read,
         Refuse, Expire, Lose, Finished, vars

\* With one request at a time the live rows of a chain are always its plan: one
\* row a level, no level missing, the Owner's last, however often levels are
\* delegated (create_approval_chain, delegate_approval).
THEOREM OneRowPerLevel == MaxOpen = 1 /\ Spec => []OneLiveRowPerLevel
<1>1. Init => OneLiveRowPerLevel
  <2> SUFFICES ASSUME Init PROVE OneLiveRowPerLevel
    OBVIOUS
  <2>1. Live = {}
    BY DEF Init, Live
  <2>2. {rows[k].level : k \in Live} = 1..Cardinality(Live)
    <3>1. Cardinality({}) = 0 /\ 1..0 = {}
      BY FS_EmptySet
    <3>2. QED
      BY <2>1, <3>1
  <2>3. QED
    BY <2>1, <2>2 DEF OneLiveRowPerLevel
<1>2. QED
  BY <1>1, InitIInv, NextIInv, NextOneRow, PTL DEF Spec
=============================================================================
