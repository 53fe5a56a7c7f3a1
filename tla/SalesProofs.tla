---------------------------- MODULE SalesProofs -----------------------------
(***************************************************************************)
(* Theorems of SalesOrders, for any items, warehouses, requests, menu and  *)
(* openings.  Whatever overlaps: the types, reserved_qty never promises    *)
(* more than the order's reservations took out of the stock, and no unit   *)
(* of stock appears or disappears.  For requests that come one at a time:  *)
(* nothing that is reserved is forgotten, the order's status tells what is *)
(* reserved, shipped, billed and reported, and no delivery takes what      *)
(* another order has reserved.                                             *)
(***************************************************************************)
EXTENDS SalesOrders, FoldFacts, FiniteSetTheorems, TLAPS

Places == {"idle", "reserve", "avail", "rest", "finish", "items", "prior", "number", "issue",
           "insert", "all", "done", "rejected"}
Reserving == {"reserve", "avail", "rest"}
Units2 == [onHand: Nat, reserved: Nat]
Line == [item: Items, qty: Nat \ {0}]
Work == [op: Ops \cup {"NONE"}, wh: Warehouses \cup {Nobody}, lines: Seq(Line),
         of: Requests \cup {Nobody}, seen: Statuses, loaded: [Items -> Nat],
         got: [Items -> Nat], left: SUBSET Nat, avail: Int, all: SUBSET Requests]

\* TypeOK with the types of a request, and no version oversold.
Types ==
  /\ TypeOK
  /\ \A r \in Rows : cur[r].reserved <= cur[r].onHand
  /\ pc \in [Requests -> Places]
  /\ work \in [Requests -> Work]

\* A row nobody holds has no uncommitted version, and only open requests hold rows.
Quiet == \A r \in Rows : lock[r] = Nobody => cur[r] = com[r]
HoldersOpen == \A r \in Rows : lock[r] # Nobody => IsOpen(lock[r])

\* While t reserves, what it got for an item is what it has put on the item's
\* row; it has not touched the rows it has still to visit, and what it adds to
\* was claimed before.
ReservingOK(t) ==
  /\ work[t].op \in {"CREATE", "CONFIRM", "RETRY"}
  /\ pc[t] = "rest" => work[t].avail > 0
  /\ \A i \in Items :
       /\ Put(t, Row(t, i)) = work[t].got[i]
       /\ i \in work[t].left => lock[Row(t, i)] # t /\ Want(t, i) > 0
       /\ work[t].op = "RETRY" => work[t].loaded[i] <= claimed[i]

RequestOK(t) ==
  /\ IsOpen(t) => work[t].wh \in Warehouses
  /\ work[t].op \in {"DELIVER", "SELL"} => work[t].left \subseteq DOMAIN work[t].lines
  /\ work[t].op = "INVOICE" => work[t].of \in deliveries
  /\ pc[t] = "items" => /\ work[t].op \in {"CONFIRM", "RETRY", "DELIVER"}
                        /\ work[t].got = [i \in Items |-> 0]
                        /\ \A r \in Rows : lock[r] # t
  /\ pc[t] \in Reserving => ReservingOK(t)
  /\ pc[t] = "prior" => work[t].op = "DELIVER"
  /\ pc[t] = "number" => work[t].op \in {"DELIVER", "SELL", "INVOICE"}
  /\ pc[t] = "issue" => work[t].op \in {"DELIVER", "SELL"}

\* The inductive invariant.
IInv == Types /\ Quiet /\ HoldersOpen /\ ClaimBacked /\ \A t \in Requests : RequestOK(t)
-----------------------------------------------------------------------------
\* A request that has ended, or not begun, has nothing to keep.
LEMMA NoWorkIsWork == NoWork \in Work /\ NoWork.op = "NONE"
BY DEF NoWork, Work, Ops, Statuses

\* A guarded movement of a sound version gives a sound one: a reservation, or an
\* issue that the CHECK constraints let pass.
LEMMA ShiftIsSound ==
  ASSUME NEW v \in Units2, v.reserved <= v.onHand, NEW q \in Nat \ {0}
  PROVE  /\ Guard(v, "RESERVE", q) =>
              /\ Shift(v, "RESERVE", q) \in Units2
              /\ Shift(v, "RESERVE", q).reserved = v.reserved + q
              /\ Shift(v, "RESERVE", q).reserved <= Shift(v, "RESERVE", q).onHand
         /\ \A kind \in {"ISSUE", "DIRECT_ISSUE"} :
              Check(Shift(v, kind, q)) =>
                /\ Shift(v, kind, q) \in Units2
                /\ Shift(v, kind, q).reserved <= Shift(v, kind, q).onHand
BY DEF Units2, Guard, Shift, Check, Available, OnHandDelta, ReservedDelta, QtyDelta, ReservedMovements

\* The requests that are not in a step keep what they rely on: their rows are
\* locked, and claims and deliveries only grow.
LEMMA OthersKeep ==
  ASSUME IInv, NEW t,
         \A u \in Requests \ {t} : pc'[u] = pc[u] /\ work'[u] = work[u],
         \A u \in Requests \ {t}, r \in Rows :
           /\ lock'[r] = u <=> lock[r] = u
           /\ lock[r] = u => cur'[r] = cur[r] /\ com'[r] = com[r],
         claimed' \in [Items -> Nat],
         \A i \in Items : claimed[i] <= claimed'[i],
         deliveries \subseteq deliveries'
  PROVE  \A u \in Requests \ {t} : RequestOK(u)'
<1> SUFFICES ASSUME NEW u \in Requests \ {t} PROVE RequestOK(u)'
  OBVIOUS
<1>1. RequestOK(u) /\ pc'[u] = pc[u] /\ work'[u] = work[u]
  BY DEF IInv
<1>2. \A r \in Rows : /\ lock'[r] = u <=> lock[r] = u
                      /\ Put(u, r)' = Put(u, r)
  BY DEF Put
<1>3. ASSUME pc[u] \in Reserving PROVE ReservingOK(u)'
  <2>1. ReservingOK(u) /\ work[u].wh \in Warehouses
    BY <1>1, <1>3 DEF RequestOK, IsOpen, Ended, Reserving
  <2>2. ASSUME NEW i \in Items
        PROVE  /\ Row(u, i) \in Rows /\ Row(u, i)' = Row(u, i) /\ Want(u, i)' = Want(u, i)
    BY <1>1, <2>1 DEF Row, Rows, Want
  <2>3. \A i \in Items : work[u].loaded[i] \in Nat /\ claimed[i] \in Nat /\ claimed'[i] \in Nat
    BY DEF IInv, Types, TypeOK, Work
  <2>4. ASSUME NEW i \in Items
        PROVE  /\ Put(u, Row(u, i))' = work'[u].got[i]
               /\ i \in work'[u].left => lock'[Row(u, i)'] # u /\ Want(u, i)' > 0
               /\ work'[u].op = "RETRY" => work'[u].loaded[i] <= claimed'[i]
    <3>1. Put(u, Row(u, i))' = Put(u, Row(u, i))
      BY <1>2, <2>2 DEF Put
    <3>2. QED
      BY <1>1, <1>2, <2>1, <2>2, <2>3, <3>1 DEF ReservingOK
  <2>5. QED
    BY <1>1, <2>1, <2>4 DEF ReservingOK
<1>4. QED
  BY <1>1, <1>2, <1>3 DEF RequestOK, IsOpen
-----------------------------------------------------------------------------
\* A request that goes on without touching the stock.
LEMMA LocalStep ==
  ASSUME IInv, NEW t \in Requests, NEW where \in Places \ {"idle", "done", "rejected"},
         UNCHANGED << orderVars, stockVars, history >>,
         Goto(t, where), NEW w \in Work, w.op # "NONE", work' = [work EXCEPT ![t] = w],
         RequestOK(t)'
  PROVE  IInv'
<1>1. /\ UNCHANGED << order, delivered, deliveries, invoiced, alerted, com, cur, lock, seq, held,
                      claimed, sold, restock >>
      /\ pc' = [pc EXCEPT ![t] = where]
  BY DEF orderVars, stockVars, history, Goto
<1>2. \A u \in Requests \ {t} : pc'[u] = pc[u] /\ work'[u] = work[u]
  BY <1>1 DEF IInv, Types
<1>3. \A u \in Requests : RequestOK(u)'
  <2>1. \A i \in Items : claimed[i] <= claimed'[i] /\ claimed' \in [Items -> Nat]
    BY <1>1 DEF IInv, Types, TypeOK
  <2>2. \A u \in Requests \ {t} : RequestOK(u)'
    BY <1>1, <1>2, <2>1, OthersKeep DEF IInv, Types, TypeOK
  <2>3. QED
    BY <2>2
<1>4. Types' /\ HoldersOpen'
  BY <1>1 DEF IInv, Types, TypeOK, HoldersOpen, IsOpen, Ended, Places
<1>5. QED
  BY <1>1, <1>3, <1>4 DEF IInv, Quiet, ClaimBacked

\* A request that takes a row to a sound version.
LEMMA WriteStep ==
  ASSUME IInv, NEW t \in Requests, IsOpen(t), NEW r \in Rows, NEW v \in Units2,
         v.reserved <= v.onHand, Write(t, r, v), UNCHANGED << orderVars, history >>,
         NEW where \in Places \ {"idle", "done", "rejected"}, Goto(t, where),
         NEW w \in Work, w.op # "NONE", work' = [work EXCEPT ![t] = w], RequestOK(t)'
  PROVE  IInv'
<1>1. /\ UNCHANGED << order, delivered, deliveries, invoiced, alerted, com, seq, held, claimed, sold,
                      restock >>
      /\ cur' = [cur EXCEPT ![r] = v] /\ lock' = [lock EXCEPT ![r] = t]
      /\ lock[r] \in {Nobody, t} /\ pc' = [pc EXCEPT ![t] = where]
  BY DEF orderVars, history, Write, Free, Goto
<1>2. \A u \in Requests \ {t} : pc'[u] = pc[u] /\ work'[u] = work[u]
  BY <1>1 DEF IInv, Types
<1>3. \A u \in Requests : RequestOK(u)'
  <2>1. \A i \in Items : claimed[i] <= claimed'[i] /\ claimed' \in [Items -> Nat]
    BY <1>1 DEF IInv, Types, TypeOK
  <2>2. \A u \in Requests \ {t}, s \in Rows :
           /\ lock'[s] = u <=> lock[s] = u
           /\ lock[s] = u => cur'[s] = cur[s] /\ com'[s] = com[s]
    BY <1>1, RequestsAssumption DEF IInv, Types, TypeOK
  <2>3. \A u \in Requests \ {t} : RequestOK(u)'
    BY <1>1, <1>2, <2>1, <2>2, OthersKeep DEF IInv, Types, TypeOK
  <2>4. QED
    BY <2>3
<1>4. Types'
  BY <1>1 DEF IInv, Types, TypeOK, Units2, IsOpen, Ended, Places
<1>5. Quiet' /\ HoldersOpen'
  BY <1>1, RequestsAssumption DEF IInv, Types, TypeOK, Quiet, HoldersOpen, IsOpen, Ended, Places
<1>6. QED
  BY <1>1, <1>3, <1>4, <1>5 DEF IInv, ClaimBacked
-----------------------------------------------------------------------------
\* A request that rolls back.
LEMMA RejectKeeps ==
  ASSUME IInv, NEW t \in Requests, IsOpen(t), Reject(t)
  PROVE  IInv'
<1>1. /\ UNCHANGED << order, delivered, deliveries, invoiced, alerted, com, held, claimed, sold,
                      restock >>
      /\ cur' = [r \in Rows |-> IF lock[r] = t THEN com[r] ELSE cur[r]]
      /\ lock' = [r \in Rows |-> IF lock[r] = t THEN Nobody ELSE lock[r]]
      /\ seq' = [s \in DocTypes |-> IF seq[s] = t THEN Nobody ELSE seq[s]]
      /\ pc' = [pc EXCEPT ![t] = "rejected"] /\ work' = [work EXCEPT ![t] = NoWork]
  BY DEF orderVars, history, Reject, Goto, Unlocked, Unheld
<1>2. pc'[t] = "rejected" /\ work'[t] = NoWork
  BY <1>1 DEF IInv, Types
<1>3. \A u \in Requests \ {t} : pc'[u] = pc[u] /\ work'[u] = work[u]
  BY <1>1 DEF IInv, Types
<1>4. \A u \in Requests : RequestOK(u)'
  <2>1. \A i \in Items : claimed[i] <= claimed'[i] /\ claimed' \in [Items -> Nat]
    BY <1>1 DEF IInv, Types, TypeOK
  <2>2. \A u \in Requests \ {t}, s \in Rows :
           /\ lock'[s] = u <=> lock[s] = u
           /\ lock[s] = u => cur'[s] = cur[s] /\ com'[s] = com[s]
    BY <1>1, RequestsAssumption DEF IInv, Types, TypeOK
  <2>3. \A u \in Requests \ {t} : RequestOK(u)'
    BY <1>1, <1>3, <2>1, <2>2, OthersKeep DEF IInv, Types, TypeOK
  <2>4. RequestOK(t)'
    BY <1>2 DEF RequestOK, NoWork, IsOpen, Ended, Reserving
  <2>5. QED
    BY <2>3, <2>4
<1>5. Types'
  <2>1. pc' \in [Requests -> Places] /\ work' \in [Requests -> Work]
    BY <1>1, NoWorkIsWork DEF IInv, Types, Places
  <2>2. \A u \in Requests : IsOpen(u)' <=> work'[u].op # "NONE"
    BY <1>2, <1>3, NoWorkIsWork DEF IInv, Types, TypeOK, IsOpen, Ended
  <2>3. cur' \in [Rows -> Units2] /\ \A r \in Rows : cur'[r].reserved <= cur'[r].onHand
    BY <1>1 DEF IInv, Types, TypeOK, Units2
  <2>4. lock' \in [Rows -> Requests \cup {Nobody}] /\ seq' \in [DocTypes -> Requests \cup {Nobody}]
    BY <1>1 DEF IInv, Types, TypeOK
  <2>5. QED
    BY <1>1, <2>1, <2>2, <2>3, <2>4 DEF IInv, Types, TypeOK, Units2
<1>6. Quiet' /\ HoldersOpen'
  BY <1>1, <1>3, RequestsAssumption DEF IInv, Types, TypeOK, Quiet, HoldersOpen, IsOpen
<1>7. QED
  BY <1>1, <1>4, <1>5, <1>6 DEF IInv, ClaimBacked

\* A request that commits an order which promises no more than is claimed by then.
LEMMA CommitKeeps ==
  ASSUME IInv, NEW t \in Requests, IsOpen(t), CommitStock(t), Goto(t, "done"),
         work' = [work EXCEPT ![t] = NoWork],
         order' \in [status: Statuses, reserved: [Items -> Nat]],
         deliveries \subseteq deliveries', deliveries' \subseteq Requests,
         invoiced' \subseteq deliveries', alerted' \in BOOLEAN,
         held' \in [Rows -> Int], claimed' \in [Items -> Nat], restock' = restock,
         \A i \in Items : claimed[i] <= claimed'[i] /\ order'.reserved[i] <= claimed'[i]
  PROVE  IInv'
<1>1. /\ com' = [r \in Rows |-> IF lock[r] = t THEN cur[r] ELSE com[r]] /\ cur' = cur
      /\ lock' = [r \in Rows |-> IF lock[r] = t THEN Nobody ELSE lock[r]]
      /\ seq' = [s \in DocTypes |-> IF seq[s] = t THEN Nobody ELSE seq[s]]
      /\ pc' = [pc EXCEPT ![t] = "done"]
  BY DEF CommitStock, Goto, Unlocked, Unheld
<1>2. pc'[t] = "done" /\ work'[t] = NoWork
  BY <1>1 DEF IInv, Types
<1>3. \A u \in Requests \ {t} : pc'[u] = pc[u] /\ work'[u] = work[u]
  BY <1>1 DEF IInv, Types
<1>4. \A u \in Requests : RequestOK(u)'
  <2>1. \A u \in Requests \ {t}, s \in Rows :
           /\ lock'[s] = u <=> lock[s] = u
           /\ lock[s] = u => cur'[s] = cur[s] /\ com'[s] = com[s]
    BY <1>1, RequestsAssumption DEF IInv, Types, TypeOK
  <2>2. \A u \in Requests \ {t} : RequestOK(u)'
    BY <1>1, <1>3, <2>1, OthersKeep
  <2>3. RequestOK(t)'
    BY <1>2 DEF RequestOK, NoWork, IsOpen, Ended, Reserving
  <2>4. QED
    BY <2>2, <2>3
<1>5. Types'
  <2>1. pc' \in [Requests -> Places] /\ work' \in [Requests -> Work]
    BY <1>1, NoWorkIsWork DEF IInv, Types, Places
  <2>2. \A u \in Requests : IsOpen(u)' <=> work'[u].op # "NONE"
    BY <1>2, <1>3, NoWorkIsWork DEF IInv, Types, TypeOK, IsOpen, Ended
  <2>3. /\ com' \in [Rows -> Units2] /\ \A r \in Rows : com'[r].reserved <= com'[r].onHand
        /\ cur' \in [Rows -> Units2] /\ \A r \in Rows : cur'[r].reserved <= cur'[r].onHand
    BY <1>1 DEF IInv, Types, TypeOK, Units2
  <2>4. lock' \in [Rows -> Requests \cup {Nobody}] /\ seq' \in [DocTypes -> Requests \cup {Nobody}]
    BY <1>1 DEF IInv, Types, TypeOK
  <2>5. QED
    BY <1>1, <2>1, <2>2, <2>3, <2>4 DEF IInv, Types, TypeOK, Units2
<1>6. Quiet' /\ HoldersOpen'
  BY <1>1, <1>3, RequestsAssumption DEF IInv, Types, TypeOK, Quiet, HoldersOpen, IsOpen
<1>7. QED
  BY <1>4, <1>5, <1>6 DEF IInv, ClaimBacked

\* A goods receipt on a row nobody holds.
LEMMA RestockKeeps ==
  ASSUME IInv, NEW r \in Rows, Restock(r)
  PROVE  IInv'
<1>1. /\ UNCHANGED << order, delivered, deliveries, invoiced, alerted, lock, seq, pc, work, held,
                      claimed, sold >>
      /\ lock[r] = Nobody /\ restock' = restock + 1
      /\ com' = [com EXCEPT ![r].onHand = com[r].onHand + 1]
      /\ cur' = [cur EXCEPT ![r].onHand = cur[r].onHand + 1]
  BY DEF orderVars, Restock, IInv, Types, TypeOK
<1>2. \A u \in Requests : RequestOK(u)'
  <2>1. \A i \in Items : claimed[i] <= claimed'[i] /\ claimed' \in [Items -> Nat]
    BY <1>1 DEF IInv, Types, TypeOK
  <2>2. \A u \in Requests \ {Nobody}, s \in Rows :
           /\ lock'[s] = u <=> lock[s] = u
           /\ lock[s] = u => cur'[s] = cur[s] /\ com'[s] = com[s]
    BY <1>1, RequestsAssumption DEF IInv, Types, TypeOK
  <2>3. \A u \in Requests \ {Nobody} : RequestOK(u)'
    BY <1>1, <2>1, <2>2, OthersKeep DEF IInv, Types, TypeOK
  <2>4. QED
    BY <2>3, RequestsAssumption
<1>3. com' \in [Rows -> Units2] /\ cur' \in [Rows -> Units2]
  <2>1. \A s \in Rows : com[s] \in Units2 /\ cur[s] \in Units2
    BY DEF IInv, Types, TypeOK, Units2
  <2>2. ASSUME NEW v \in Units2 PROVE [v EXCEPT !.onHand = v.onHand + 1] \in Units2
    BY DEF Units2
  <2>3. \A s \in Rows : com'[s] \in Units2 /\ cur'[s] \in Units2
    BY <1>1, <2>1, <2>2 DEF IInv, Types, TypeOK
  <2>4. QED
    BY <1>1, <2>3 DEF IInv, Types, TypeOK
<1>4. \A s \in Rows : com'[s].reserved <= com'[s].onHand /\ cur'[s].reserved <= cur'[s].onHand
  BY <1>1 DEF IInv, Types, TypeOK
<1>5. Types'
  BY <1>1, <1>3, <1>4 DEF IInv, Types, TypeOK, Units2, IsOpen
<1>6. Quiet' /\ HoldersOpen'
  BY <1>1 DEF IInv, Types, TypeOK, Quiet, HoldersOpen, IsOpen
<1>7. QED
  BY <1>1, <1>2, <1>5, <1>6 DEF IInv, ClaimBacked

\* Fewer lines to visit, or what a read has found, is still a request's work.
LEMMA WorkUpdates ==
  ASSUME NEW w \in Work
  PROVE  /\ \A x : [w EXCEPT !.left = w.left \ {x}] \in Work
         /\ \A n \in Int : [w EXCEPT !.avail = n] \in Work
         /\ \A x : \A i \in Items, q \in Nat :
              [w EXCEPT !.got[i] = q, !.left = w.left \ {x}] \in Work
         /\ \A f \in [Items -> Nat], s \in SUBSET Nat :
              [w EXCEPT !.loaded = f, !.left = s] \in Work
         /\ \A s \in SUBSET Requests : [w EXCEPT !.all = s] \in Work
<1>1. \A i \in Items, q \in Nat : [w.got EXCEPT ![i] = q] \in [Items -> Nat]
  BY DEF Work
<1>2. QED
  BY <1>1 DEF Work
-----------------------------------------------------------------------------
\* What the actions below use of the invariant.
LEMMA Facts ==
  ASSUME IInv
  PROVE  /\ order \in [status: Statuses, reserved: [Items -> Nat]]
         /\ claimed \in [Items -> Nat] /\ held \in [Rows -> Int]
         /\ \A i \in Items : order.reserved[i] <= claimed[i]
         /\ \A t \in Requests : /\ work[t] \in Work /\ pc[t] \in Places /\ RequestOK(t)
                                /\ IsOpen(t) <=> work[t].op # "NONE"
         /\ \A t \in Requests, r \in Rows :
              /\ Seen(t, r) \in Units2 /\ Seen(t, r).reserved <= Seen(t, r).onHand
              /\ lock[r] # t => Seen(t, r) = com[r]
              /\ lock[r] = Nobody => cur[r] = com[r]
BY DEF IInv, Types, TypeOK, ClaimBacked, Seen, Units2, Quiet

\* A request that is let in holds no row yet; one that is refused does nothing.
LEMMA OpenKeeps ==
  ASSUME IInv, NEW t \in Requests, NEW m \in Menu, NEW of \in Requests \cup {Nobody}, Open(t, m, of)
  PROVE  IInv'
<1> DEFINE left == IF m.op = "CREATE" THEN Items
                   ELSE IF m.op = "SELL" THEN DOMAIN m.lines ELSE {}
           Asked(x) == [x EXCEPT !.op = m.op, !.wh = m.wh, !.lines = m.lines, !.of = of,
                                 !.seen = order.status, !.left = left]
           w == Asked(NoWork)
<1>1. /\ pc[t] = "idle" /\ ~IsOpen(t) /\ \A r \in Rows : lock[r] # t
      /\ UNCHANGED << order, delivered, deliveries, invoiced, alerted, com, cur, lock, seq, held,
                      claimed, sold, restock >>
      /\ m.op = "INVOICE" => of \in deliveries
  <2>1. pc[t] = "idle" /\ ~IsOpen(t)
    BY DEF Open, IsOpen
  <2>2. \A r \in Rows : lock[r] # t
    BY <2>1, RequestsAssumption DEF IInv, HoldersOpen
  <2>3. QED
    BY <2>1, <2>2 DEF Open, orderVars, stockVars, history
<1>2. CASE Admits(m.op, order.status)
  <2>1. m.op \in Ops /\ m.wh \in Warehouses /\ m.lines \in Seq(Line)
    BY MenuAssumption DEF Line
  <2>2. w \in Work /\ w.op = m.op /\ w.wh = m.wh /\ w.lines = m.lines /\ w.of = of
        /\ w.got = [i \in Items |-> 0] /\ w.loaded = [i \in Items |-> 0]
        /\ w.left = left
    <3>1. left \in SUBSET Nat
      <4>1. DOMAIN m.lines \subseteq Nat
        BY <2>1
      <4>2. QED
        BY <4>1, ItemsAssumption
    <3>2. order.status \in Statuses
      BY DEF IInv, Types, TypeOK
    <3> HIDE DEF left
    <3>3. NoWork.got = [i \in Items |-> 0] /\ NoWork.loaded = [i \in Items |-> 0]
      BY DEF NoWork
    <3>4. ASSUME NEW x \in Work
          PROVE  /\ Asked(x) \in Work /\ Asked(x).op = m.op /\ Asked(x).wh = m.wh
                 /\ Asked(x).lines = m.lines /\ Asked(x).of = of /\ Asked(x).left = left
                 /\ Asked(x).got = x.got /\ Asked(x).loaded = x.loaded
      BY <2>1, <3>1, <3>2 DEF Work
    <3> HIDE DEF Asked
    <3>5. QED
      BY <3>3, <3>4, NoWorkIsWork
  <2>3. Goto(t, FirstStep(m.op)) /\ work' = [work EXCEPT ![t] = w]
    BY <1>2 DEF Open
  <2>4. pc'[t] = FirstStep(m.op) /\ work'[t] = w
    BY <2>3 DEF Goto, IInv, Types
  <2>5. FirstStep(m.op) \in Places \ {"idle", "done", "rejected"} /\ w.op # "NONE"
    BY <2>1, <2>2 DEF FirstStep, Places, Ops, Creating
  <2> HIDE DEF w
  <2>6. RequestOK(t)'
    <3>1. CASE m.op = "CREATE"
      <4>1. pc'[t] = "reserve"
        BY <2>4, <3>1 DEF FirstStep
      <4>2. \A i \in Items : /\ Row(t, i)' \in Rows /\ lock'[Row(t, i)'] # t
                             /\ Want(t, i)' = Quantity[i]
        BY <1>1, <2>1, <2>2, <2>4, <3>1, ItemsAssumption DEF Row, Rows, Want
      <4>3. \A i \in Items : Put(t, Row(t, i))' = 0
        BY <4>2 DEF Put
      <4>4. ReservingOK(t)'
        BY <2>2, <2>4, <3>1, <4>1, <4>2, <4>3, ItemsAssumption DEF ReservingOK
      <4>5. QED
        BY <2>1, <2>2, <2>4, <3>1, <4>1, <4>4 DEF RequestOK
    <3>2. CASE m.op # "CREATE"
      <4>1. pc'[t] \in {"finish", "items", "number"}
            /\ (pc'[t] = "items" => m.op \in {"CONFIRM", "RETRY", "DELIVER"})
            /\ (pc'[t] = "number" => m.op \in {"SELL", "INVOICE"})
        BY <2>1, <2>4, <3>2 DEF FirstStep, Ops, Creating
      <4>2. QED
        BY <1>1, <2>1, <2>2, <2>4, <3>2, <4>1 DEF RequestOK, Reserving
    <3>3. QED
      BY <3>1, <3>2
  <2>7. UNCHANGED << orderVars, stockVars, history >>
    BY DEF Open
  <2>8. QED
    BY <2>2, <2>3, <2>5, <2>6, <2>7, LocalStep
<1>3. CASE ~Admits(m.op, order.status)
  <2>1. pc' = [pc EXCEPT ![t] = "rejected"] /\ work' = work
    BY <1>3 DEF Open, Goto
  <2>2. \A u \in Requests \ {t} : pc'[u] = pc[u] /\ work'[u] = work[u]
    BY <2>1 DEF IInv, Types
  <2>3. \A u \in Requests \ {t} : RequestOK(u)'
    <3>1. \A i \in Items : claimed[i] <= claimed'[i] /\ claimed' \in [Items -> Nat]
      BY <1>1 DEF IInv, Types, TypeOK
    <3>2. QED
      BY <1>1, <2>2, <3>1, OthersKeep DEF IInv, Types, TypeOK
  <2>4. pc'[t] = "rejected" /\ work'[t].op = "NONE"
    BY <1>1, <2>1, Facts DEF IInv, Types
  <2>5. RequestOK(t)'
    BY <2>4 DEF RequestOK, IsOpen, Ended, Reserving
  <2>6. Types' /\ HoldersOpen'
    BY <1>1, <2>1, <2>2, <2>4 DEF IInv, Types, TypeOK, HoldersOpen, IsOpen, Ended, Places
  <2>7. QED
    BY <1>1, <2>3, <2>5, <2>6 DEF IInv, Quiet, ClaimBacked
<1>4. QED
  BY <1>2, <1>3

\* What a request loads of the order is claimed.
LEMMA LoadItemsKeeps ==
  ASSUME IInv, NEW t \in Requests, LoadItems(t)
  PROVE  IInv'
<1> DEFINE short == {i \in Items : order.reserved[i] < Quantity[i]}
           left == CASE work[t].op = "CONFIRM" -> Items
                     [] work[t].op = "RETRY"   -> short
                     [] OTHER -> DOMAIN work[t].lines
           w == [work[t] EXCEPT !.loaded = order.reserved, !.left = left]
           where == IF work[t].op = "DELIVER" THEN "prior" ELSE "reserve"
<1>1. /\ pc[t] = "items" /\ work[t] \in Work /\ RequestOK(t)
      /\ work[t].op \in {"CONFIRM", "RETRY", "DELIVER"} /\ work[t].wh \in Warehouses
      /\ work[t].got = [i \in Items |-> 0] /\ \A r \in Rows : lock[r] # t
  BY Facts DEF LoadItems, RequestOK, IsOpen, Ended
<1>2. left \in SUBSET Nat /\ order.reserved \in [Items -> Nat]
  <2>1. DOMAIN work[t].lines \subseteq Nat
    BY <1>1 DEF Work
  <2>2. QED
    BY <1>1, <2>1, Facts, ItemsAssumption
<1>3. w \in Work /\ w.op = work[t].op /\ w.wh = work[t].wh /\ w.lines = work[t].lines
      /\ w.got = work[t].got /\ w.loaded = order.reserved /\ w.left = left /\ w.of = work[t].of
  <2> HIDE DEF left
  <2>1. QED
    BY <1>1, <1>2, WorkUpdates DEF Work
<1>4. work' = [work EXCEPT ![t] = w] /\ Goto(t, where) /\ UNCHANGED << orderVars, stockVars, history >>
  BY DEF LoadItems, IInv, Types
<1>5. pc'[t] = where /\ work'[t] = w /\ where \in Places \ {"idle", "done", "rejected"}
      /\ w.op # "NONE"
  BY <1>1, <1>3, <1>4 DEF Goto, IInv, Types, Places
<1>6. UNCHANGED << order, lock, cur, com, claimed, deliveries >>
  BY <1>4 DEF orderVars, stockVars, history
<1>7. RequestOK(t)'
  <2>1. CASE work[t].op = "DELIVER"
    <3>1. left = DOMAIN work[t].lines /\ where = "prior"
      BY <2>1
    <3> HIDE DEF w, left, where
    <3>2. QED
      BY <1>1, <1>3, <1>5, <2>1, <3>1 DEF RequestOK, Reserving
  <2>2. CASE work[t].op \in {"CONFIRM", "RETRY"}
    <3>1. where = "reserve"
      BY <2>2
    <3>2. \A i \in left : i \in Items /\ (work[t].op = "RETRY" => order.reserved[i] < Quantity[i])
      BY <2>2
    <3> HIDE DEF w, left, where
    <3>3. \A i \in Items : Row(t, i)' \in Rows /\ lock'[Row(t, i)'] # t
      BY <1>1, <1>3, <1>5, <1>6 DEF Row, Rows
    <3>4. \A i \in Items : Put(t, Row(t, i))' = 0
      BY <3>3 DEF Put
    <3>5. \A i \in left : Want(t, i)' > 0
      <4>1. \A i \in Items : Quantity[i] \in Nat \ {0}
        BY ItemsAssumption
      <4>2. work'[t].op = work[t].op /\ work'[t].loaded = order.reserved
        BY <1>3, <1>5
      <4>3. QED
        BY <1>2, <3>2, <4>1, <4>2 DEF Want
    <3>6. \A i \in Items : work'[t].loaded[i] <= claimed'[i]
      BY <1>3, <1>5, <1>6, Facts
    <3>7. ReservingOK(t)'
      BY <1>1, <1>3, <1>5, <2>2, <3>1, <3>3, <3>4, <3>5, <3>6 DEF ReservingOK
    <3>8. QED
      BY <1>1, <1>3, <1>5, <2>2, <3>1, <3>7 DEF RequestOK
  <2>3. QED
    BY <1>1, <2>1, <2>2
<1> HIDE DEF w, where
<1>8. QED
  BY <1>3, <1>4, <1>5, <1>7, LocalStep

\* What t wants for its next item is still to be had, and its row is not its own.
LEMMA NextItem ==
  ASSUME IInv, NEW t \in Requests, NEW i \in Items, pc[t] \in Reserving, IsNextItem(t, i)
  PROVE  /\ IsOpen(t) /\ work[t] \in Work /\ work[t].op # "NONE" /\ ReservingOK(t) /\ RequestOK(t)
         /\ Row(t, i) \in Rows /\ lock[Row(t, i)] # t /\ Seen(t, Row(t, i)) = com[Row(t, i)]
         /\ Want(t, i) \in Nat \ {0}
         /\ Seen(t, Row(t, i)) \in Units2
         /\ Seen(t, Row(t, i)).reserved <= Seen(t, Row(t, i)).onHand
<1>1. IsOpen(t) /\ work[t] \in Work /\ RequestOK(t) /\ ReservingOK(t) /\ work[t].wh \in Warehouses
      /\ work[t].op # "NONE"
  BY Facts DEF Reserving, IsOpen, Ended, RequestOK
<1>2. Row(t, i) \in Rows
  BY <1>1 DEF Row, Rows
<1>3. lock[Row(t, i)] # t /\ Want(t, i) > 0
  BY <1>1 DEF ReservingOK, IsNextItem
<1>4. Want(t, i) \in Int
  BY <1>1, ItemsAssumption DEF Want, Work
<1>5. QED
  BY <1>1, <1>2, <1>3, <1>4, Facts

\* A reservation that succeeds is what t got for the item.
LEMMA ReserveKeeps ==
  ASSUME IInv, NEW t \in Requests, NEW i \in Items, pc[t] \in Reserving, IsNextItem(t, i),
         NEW q \in Nat \ {0}, Guard(Seen(t, Row(t, i)), "RESERVE", q), Reserve(t, i, q),
         UNCHANGED << orderVars, history >>
  PROVE  IInv'
<1> DEFINE r == Row(t, i)
           v == Shift(Seen(t, r), "RESERVE", q)
           w == [work[t] EXCEPT !.got[i] = q, !.left = work[t].left \ {i}]
<1>1. /\ IsOpen(t) /\ work[t] \in Work /\ ReservingOK(t) /\ RequestOK(t) /\ r \in Rows
      /\ lock[r] # t /\ Seen(t, r) = com[r] /\ Seen(t, r) \in Units2
      /\ Seen(t, r).reserved <= Seen(t, r).onHand /\ work[t].op # "NONE"
  BY NextItem
<1>2. v \in Units2 /\ v.reserved = com[r].reserved + q /\ v.reserved <= v.onHand
  BY <1>1, ShiftIsSound
<1>3. w \in Work /\ w.op = work[t].op /\ w.wh = work[t].wh /\ w.lines = work[t].lines
      /\ w.got = [work[t].got EXCEPT ![i] = q] /\ w.loaded = work[t].loaded
      /\ w.left = work[t].left \ {i} /\ w.of = work[t].of
  BY <1>1, WorkUpdates DEF Work
<1>4. Write(t, r, v) /\ Goto(t, "reserve")
  BY DEF Reserve
<1>5. work' = [work EXCEPT ![t] = w]
  BY DEF Reserve, IInv, Types
<1> HIDE DEF w, v
<1>6. pc'[t] = "reserve" /\ work'[t] = w /\ cur' = [cur EXCEPT ![r] = v]
      /\ lock' = [lock EXCEPT ![r] = t] /\ com' = com
  BY <1>4, <1>5 DEF Write, Goto, IInv, Types
<1>7. UNCHANGED << claimed, deliveries >>
  BY DEF orderVars, history
<1>8. ASSUME NEW j \in Items
      PROVE  /\ Row(t, j) \in Rows /\ Row(t, j)' = Row(t, j) /\ Want(t, j)' = Want(t, j)
             /\ j # i => Row(t, j) # r
  BY <1>1, <1>3, <1>6 DEF Row, Rows, Want, RequestOK
<1>9. ReservingOK(t)'
  <2>1. w.op \in {"CREATE", "CONFIRM", "RETRY"}
    BY <1>1, <1>3 DEF ReservingOK
  <2>2. ASSUME NEW j \in Items
        PROVE  /\ Put(t, Row(t, j))' = w.got[j]
               /\ j \in w.left => lock'[Row(t, j)'] # t /\ Want(t, j)' > 0
               /\ w.op = "RETRY" => w.loaded[j] <= claimed'[j]
    <3>1. com[r].reserved \in Nat /\ q \in Nat /\ w.got \in [Items -> Nat]
          /\ work[t].got \in [Items -> Nat]
      BY <1>1, <1>3 DEF IInv, Types, TypeOK, Work, Units2
    <3>2. CASE j = i
      <4>1. Row(t, j)' = r /\ lock'[r] = t /\ cur'[r] = v
        BY <1>6, <1>8, <1>1, <3>2 DEF IInv, Types, TypeOK
      <4>2. Put(t, Row(t, j))' = v.reserved - com[r].reserved
        BY <1>6, <4>1 DEF Put
      <4>3. w.got[j] = q /\ j \notin w.left
        BY <1>1, <1>3, <3>2 DEF Work
      <4>4. QED
        BY <1>1, <1>2, <1>3, <1>7, <3>1, <4>2, <4>3 DEF ReservingOK
    <3>3. CASE j # i
      <4>1. lock'[Row(t, j)] = lock[Row(t, j)] /\ cur'[Row(t, j)] = cur[Row(t, j)]
        BY <1>6, <1>8, <3>3 DEF IInv, Types, TypeOK
      <4>2. Put(t, Row(t, j))' = Put(t, Row(t, j))
        BY <1>6, <1>8, <4>1 DEF Put
      <4>3. w.got[j] = work[t].got[j] /\ (j \in w.left => j \in work[t].left)
        BY <1>1, <1>3, <3>3 DEF Work
      <4>4. QED
        BY <1>1, <1>3, <1>7, <1>8, <4>1, <4>2, <4>3 DEF ReservingOK
    <3>4. QED
      BY <3>2, <3>3
  <2>3. QED
    BY <1>6, <2>1, <2>2 DEF ReservingOK
<1>10. RequestOK(t)'
  BY <1>1, <1>3, <1>6, <1>7, <1>9 DEF RequestOK, ReservingOK
<1>11. QED
  <2>1. "reserve" \in Places \ {"idle", "done", "rejected"}
    BY DEF Places
  <2>2. w.op # "NONE"
    BY <1>1, <1>3
  <2>3. QED
    BY <1>1, <1>2, <1>3, <1>4, <1>5, <1>10, <2>1, <2>2, WriteStep

\* An item is left out, or what is available of it is noted.
LEMMA ReservingGoesOn ==
  ASSUME IInv, NEW t \in Requests, pc[t] \in Reserving, NEW where \in Reserving,
         NEW w \in Work, w.op = work[t].op, w.wh = work[t].wh, w.lines = work[t].lines,
         w.got = work[t].got, w.loaded = work[t].loaded, w.left \subseteq work[t].left,
         where = "rest" => w.avail > 0,
         Goto(t, where), work' = [work EXCEPT ![t] = w],
         UNCHANGED << orderVars, stockVars, history >>
  PROVE  IInv'
<1>1. IsOpen(t) /\ work[t] \in Work /\ RequestOK(t) /\ ReservingOK(t) /\ work[t].op # "NONE"
      /\ work[t].wh \in Warehouses
  BY Facts DEF Reserving, IsOpen, Ended, RequestOK
<1>2. pc'[t] = where /\ work'[t] = w /\ UNCHANGED << lock, cur, com, claimed, deliveries >>
  BY DEF Goto, IInv, Types, orderVars, stockVars, history
<1>3. \A i \in Items : Row(t, i)' = Row(t, i) /\ Want(t, i)' = Want(t, i)
  BY <1>2 DEF Row, Want
<1>4. \A i \in Items : Put(t, Row(t, i))' = Put(t, Row(t, i))
  BY <1>2, <1>3 DEF Put
<1>5. ReservingOK(t)'
  BY <1>1, <1>2, <1>3, <1>4 DEF ReservingOK
<1>6. RequestOK(t)'
  BY <1>1, <1>2, <1>5 DEF RequestOK, Reserving, ReservingOK
<1>7. where \in Places \ {"idle", "done", "rejected"}
  BY DEF Reserving, Places
<1>8. QED
  BY <1>1, <1>6, <1>7, LocalStep
-----------------------------------------------------------------------------
\* What is stored is what was loaded and is claimed, or what was put in the stock,
\* on top of it in a retry.
LEMMA FinishReservationKeeps ==
  ASSUME IInv, NEW t \in Requests, FinishReservation(t)
  PROVE  IInv'
<1>1. /\ pc[t] = "reserve" /\ IsOpen(t) /\ work[t] \in Work /\ ReservingOK(t)
      /\ work[t].wh \in Warehouses
  BY Facts DEF FinishReservation, Reserving, IsOpen, Ended, RequestOK
<1>2. /\ order' = [status   |-> FlushStatus(t, NewStatus(t)),
                   reserved |-> [i \in Items |-> IF NewReserved(t, i) = work[t].loaded[i]
                                                 THEN order.reserved[i] ELSE NewReserved(t, i)]]
      /\ alerted' = (alerted \/ ReportsShortage(t))
      /\ held' = [r \in Rows |-> held[r] + Put(t, r)]
      /\ claimed' = [i \in Items |-> claimed[i] + Put(t, Row(t, i))]
      /\ UNCHANGED << deliveries, invoiced, restock >>
      /\ CommitStock(t) /\ Goto(t, "done") /\ work' = [work EXCEPT ![t] = NoWork]
  BY DEF FinishReservation
<1>3. \A i \in Items : /\ Put(t, Row(t, i)) = work[t].got[i] /\ work[t].got[i] \in Nat
                       /\ work[t].loaded[i] \in Nat /\ claimed[i] \in Nat
                       /\ order.reserved[i] \in Nat /\ order.reserved[i] <= claimed[i]
  BY <1>1, Facts DEF ReservingOK, Work
<1>4. \A i \in Items : /\ NewReserved(t, i) \in Nat
                       /\ NewReserved(t, i) <= claimed[i] + Put(t, Row(t, i))
  BY <1>1, <1>3 DEF NewReserved, ReservingOK
<1>5. FlushStatus(t, NewStatus(t)) \in Statuses
  BY Facts DEF FlushStatus, NewStatus, Statuses
<1>6. order' \in [status: Statuses, reserved: [Items -> Nat]]
  <2>1. [i \in Items |-> IF NewReserved(t, i) = work[t].loaded[i]
                         THEN order.reserved[i] ELSE NewReserved(t, i)] \in [Items -> Nat]
    BY <1>3, <1>4
  <2>2. QED
    BY <1>2, <1>5, <2>1
<1>7. claimed' \in [Items -> Nat]
  BY <1>2, <1>3
<1>8. \A i \in Items : claimed[i] <= claimed'[i] /\ order'.reserved[i] <= claimed'[i]
  BY <1>2, <1>3, <1>4
<1>9. held' \in [Rows -> Int]
  <2>1. \A r \in Rows : Put(t, r) \in Int
    BY DEF Put, IInv, Types, TypeOK
  <2>2. QED
    BY <1>2, <2>1, Facts
<1>10. alerted' \in BOOLEAN /\ deliveries' = deliveries /\ deliveries' \subseteq Requests
       /\ invoiced' \subseteq deliveries'
  BY <1>2 DEF IInv, Types, TypeOK
<1>11. QED
  BY <1>1, <1>2, <1>6, <1>7, <1>8, <1>9, <1>10, CommitKeeps

\* A line that leaves the stock keeps the row sound, or the request rolls back.
LEMMA IssueLineKeeps ==
  ASSUME IInv, NEW t \in Requests, NEW k \in work[t].left, IssueLine(t, k)
  PROVE  IInv'
<1> DEFINE l == work[t].lines[k]
           kind == IF work[t].op = "DELIVER" THEN "ISSUE" ELSE "DIRECT_ISSUE"
           r == Row(t, l.item)
           v == Shift(Seen(t, r), kind, l.qty)
           w == [work[t] EXCEPT !.left = work[t].left \ {k}]
<1>1. /\ pc[t] = "issue" /\ IsOpen(t) /\ work[t] \in Work /\ RequestOK(t)
      /\ work[t].wh \in Warehouses /\ work[t].op \in {"DELIVER", "SELL"}
  BY Facts DEF IssueLine, IsOpen, Ended, RequestOK
<1>2. CASE Reject(t)
  BY <1>1, <1>2, RejectKeeps
<1>3. CASE Check(v) /\ Write(t, r, v) /\ work' = [work EXCEPT ![t].left = @ \ {k}]
           /\ UNCHANGED << orderVars, pc, history >>
  <2>1. l \in Line
    <3>1. k \in DOMAIN work[t].lines /\ work[t].lines \in Seq(Line)
      BY <1>1 DEF RequestOK, Work
    <3>2. QED
      BY <3>1
  <2>2. r \in Rows
    BY <1>1, <2>1 DEF Row, Rows, Line
  <2>3. v \in Units2 /\ v.reserved <= v.onHand
    <3>1. l.qty \in Nat \ {0} /\ kind \in {"ISSUE", "DIRECT_ISSUE"}
      BY <2>1 DEF Line
    <3>2. Seen(t, r) \in Units2 /\ Seen(t, r).reserved <= Seen(t, r).onHand
      BY <2>2, Facts
    <3>3. QED
      BY <1>3, <3>1, <3>2, ShiftIsSound
  <2>4. w \in Work /\ w.op = work[t].op /\ w.wh = work[t].wh /\ w.lines = work[t].lines
        /\ w.left \subseteq work[t].left /\ w.of = work[t].of
    BY <1>1, WorkUpdates DEF Work
  <2>5. work' = [work EXCEPT ![t] = w] /\ work'[t] = w
    BY <1>3 DEF IInv, Types
  <2>6. pc' = pc /\ Goto(t, "issue")
    BY <1>1, <1>3 DEF Goto, IInv, Types
  <2>7. RequestOK(t)'
    <3> HIDE DEF w
    <3>1. QED
      BY <1>1, <2>4, <2>5, <2>6 DEF RequestOK, IsOpen, Reserving
  <2>8. "issue" \in Places \ {"idle", "done", "rejected"} /\ w.op # "NONE"
    BY <1>1, <2>4 DEF Places
  <2>9. Write(t, r, v) /\ UNCHANGED << orderVars, history >>
    BY <1>3
  <2> HIDE DEF w, v, r, l, kind
  <2>10. QED
    BY <1>1, <2>2, <2>3, <2>4, <2>5, <2>6, <2>7, <2>8, <2>9, WriteStep
<1>4. QED
  BY <1>2, <1>3 DEF IssueLine

\* The sequence row is no stock row.
LEMMA TakeNumberKeeps ==
  ASSUME IInv, NEW t \in Requests, TakeNumber(t)
  PROVE  IInv'
<1>1. /\ pc[t] = "number" /\ IsOpen(t) /\ work[t] \in Work /\ RequestOK(t)
      /\ work[t].op \in {"DELIVER", "SELL", "INVOICE"}
  BY Facts DEF TakeNumber, IsOpen, Ended, RequestOK
<1>2. /\ UNCHANGED << order, delivered, deliveries, invoiced, alerted, com, cur, lock, work, held,
                      claimed, sold, restock >>
      /\ pc' = [pc EXCEPT ![t] = IF work[t].op = "INVOICE" THEN "insert" ELSE "issue"]
      /\ seq' = [seq EXCEPT ![IF work[t].op = "DELIVER" THEN "delivery" ELSE "customer_invoice"] = t]
  BY DEF TakeNumber, Goto, orderVars, history
<1>3. \A u \in Requests \ {t} : pc'[u] = pc[u] /\ work'[u] = work[u]
  BY <1>2 DEF IInv, Types
<1>4. \A u \in Requests \ {t} : RequestOK(u)'
  <2>1. \A i \in Items : claimed[i] <= claimed'[i] /\ claimed' \in [Items -> Nat]
    BY <1>2 DEF IInv, Types, TypeOK
  <2>2. QED
    BY <1>2, <1>3, <2>1, OthersKeep DEF IInv, Types, TypeOK
<1>5. pc'[t] = IF work[t].op = "INVOICE" THEN "insert" ELSE "issue"
  BY <1>2 DEF IInv, Types
<1>6. RequestOK(t)'
  BY <1>1, <1>2, <1>5 DEF RequestOK, IsOpen, Ended, Reserving
<1>7. seq' \in [DocTypes -> Requests \cup {Nobody}]
  BY <1>2 DEF IInv, Types, TypeOK, DocTypes
<1>8. Types' /\ HoldersOpen'
  BY <1>1, <1>2, <1>3, <1>5, <1>7 DEF IInv, Types, TypeOK, HoldersOpen, IsOpen, Ended, Places
<1>9. QED
  BY <1>2, <1>4, <1>6, <1>8 DEF IInv, Quiet, ClaimBacked

\* A step of a request that is neither creating, confirming nor retrying, in
\* which at most what it knows of the deliveries changes.
LEMMA ReadKeeps ==
  ASSUME IInv, NEW t \in Requests, pc[t] \in {"prior", "insert", "all"},
         NEW where \in {"number", "all", "finish"},
         where = "number" => work[t].op = "DELIVER",
         NEW w \in Work, \/ w = work[t]
                         \/ \E s : w = [work[t] EXCEPT !.all = s],
         Goto(t, where), work' = [work EXCEPT ![t] = w],
         UNCHANGED << orderVars, stockVars, history >>
  PROVE  IInv'
<1>1. IsOpen(t) /\ work[t] \in Work /\ RequestOK(t) /\ work[t].op # "NONE"
  BY Facts DEF IsOpen, Ended
<1>2. w.op = work[t].op /\ w.wh = work[t].wh /\ w.lines = work[t].lines /\ w.left = work[t].left
      /\ w.of = work[t].of
  BY <1>1 DEF Work
<1>3. pc'[t] = where /\ work'[t] = w /\ deliveries' = deliveries
  BY DEF Goto, IInv, Types, orderVars
<1>4. RequestOK(t)'
  BY <1>1, <1>2, <1>3 DEF RequestOK, Reserving
<1>5. where \in Places \ {"idle", "done", "rejected"}
  BY DEF Places
<1>6. QED
  BY <1>1, <1>2, <1>4, <1>5, LocalStep
-----------------------------------------------------------------------------
LEMMA InitIInv == Init => IInv
<1> SUFFICES ASSUME Init PROVE IInv
  OBVIOUS
<1>1. PICK o \in Openings : order = o.order /\ com = o.stock /\ held = o.held
                            /\ claimed = o.order.reserved /\ alerted = o.alerted
  BY DEF Init
<1>2. /\ order \in [status: Statuses, reserved: [Items -> Nat]]
      /\ com \in [Rows -> [onHand: Nat, reserved: Nat]]
      /\ \A r \in Rows : com[r].reserved <= com[r].onHand
      /\ held \in [Rows -> Int] /\ alerted \in BOOLEAN
      /\ claimed = order.reserved
  BY <1>1, OpeningsAssumption
<1>3. /\ deliveries = {} /\ invoiced = {} /\ cur = com /\ lock = [r \in Rows |-> Nobody]
      /\ seq = [s \in DocTypes |-> Nobody] /\ pc = [t \in Requests |-> "idle"]
      /\ work = [t \in Requests |-> NoWork] /\ restock = 0
  BY DEF Init
<1>4. Types /\ Quiet /\ HoldersOpen /\ ClaimBacked
  <2>1. \A t \in Requests : ~IsOpen(t) /\ work[t].op = "NONE"
    BY <1>3, NoWorkIsWork DEF IsOpen, Ended
  <2>2. work \in [Requests -> Work] /\ pc \in [Requests -> Places]
    BY <1>3, NoWorkIsWork DEF Places
  <2>3. TypeOK
    BY <1>2, <1>3, <2>1 DEF TypeOK
  <2>4. QED
    BY <1>2, <1>3, <2>2, <2>3 DEF Types, Quiet, HoldersOpen, ClaimBacked
<1>5. \A t \in Requests : RequestOK(t)
  BY <1>3, NoWorkIsWork DEF RequestOK, IsOpen, Ended, Reserving
<1>6. QED
  BY <1>4, <1>5 DEF IInv

LEMMA NextIInv == IInv /\ [Next]_vars => IInv'
<1> SUFFICES ASSUME IInv, [Next]_vars PROVE IInv'
  OBVIOUS
<1>1. ASSUME NEW t \in Requests, NEW m \in Menu, NEW of \in Requests \cup {Nobody}, Open(t, m, of)
      PROVE  IInv'
  BY <1>1, OpenKeeps
<1>2. ASSUME NEW t \in Requests, LoadItems(t) PROVE IInv'
  BY <1>2, LoadItemsKeeps
<1>3. ASSUME NEW t \in Requests, NEW i \in Items, ReserveFull(t, i) PROVE IInv'
  <2>1. pc[t] \in Reserving /\ IsNextItem(t, i) /\ UNCHANGED << orderVars, history >>
    BY <1>3 DEF ReserveFull, Reserving
  <2>2. CASE Guard(Seen(t, Row(t, i)), "RESERVE", Want(t, i)) /\ Reserve(t, i, Want(t, i))
    <3>1. Want(t, i) \in Nat \ {0}
      BY <2>1, NextItem
    <3>2. QED
      BY <2>1, <2>2, <3>1, ReserveKeeps
  <2>3. CASE Goto(t, "avail") /\ UNCHANGED << stockVars, work >>
    <3>1. work' = [work EXCEPT ![t] = work[t]] /\ work[t] \in Work
      BY <2>3 DEF IInv, Types
    <3>2. "avail" \in Reserving /\ UNCHANGED << orderVars, stockVars, history >>
      BY <2>1, <2>3 DEF Reserving
    <3>3. QED
      BY <2>1, <2>3, <3>1, <3>2, ReservingGoesOn
  <2>4. QED
    BY <1>3, <2>2, <2>3 DEF ReserveFull
<1>4. ASSUME NEW t \in Requests, NEW i \in Items, ReadAvailable(t, i) PROVE IInv'
  <2>1. pc[t] \in Reserving /\ IsNextItem(t, i) /\ UNCHANGED << orderVars, stockVars, history >>
    BY <1>4 DEF ReadAvailable, Reserving
  <2> DEFINE n == Available(Seen(t, Row(t, i)))
             w == [work[t] EXCEPT !.left = work[t].left \ {i}]
             x == [work[t] EXCEPT !.avail = n]
  <2>2. n \in Int /\ work[t] \in Work
    BY <2>1, NextItem DEF Available, Units2
  <2>3. w \in Work /\ x \in Work
    BY <2>2, WorkUpdates
  <2>4. /\ w.op = work[t].op /\ w.wh = work[t].wh /\ w.lines = work[t].lines /\ w.got = work[t].got
        /\ w.loaded = work[t].loaded /\ w.left \subseteq work[t].left
        /\ x.op = work[t].op /\ x.wh = work[t].wh /\ x.lines = work[t].lines /\ x.got = work[t].got
        /\ x.loaded = work[t].loaded /\ x.left \subseteq work[t].left /\ x.avail = n
    BY <2>2 DEF Work
  <2>5. \/ work' = [work EXCEPT ![t] = w] /\ Goto(t, "reserve")
        \/ work' = [work EXCEPT ![t] = x] /\ Goto(t, "rest") /\ n > 0
    BY <1>4, <2>2 DEF ReadAvailable, IInv, Types
  <2>6. "reserve" \in Reserving /\ "rest" \in Reserving
    BY DEF Reserving
  <2> HIDE DEF w, x, n
  <2>7. QED
    BY <2>1, <2>2, <2>3, <2>4, <2>5, <2>6, ReservingGoesOn
<1>5. ASSUME NEW t \in Requests, NEW i \in Items, ReserveRest(t, i) PROVE IInv'
  <2>1. pc[t] \in Reserving /\ pc[t] = "rest" /\ IsNextItem(t, i)
        /\ UNCHANGED << orderVars, history >>
    BY <1>5 DEF ReserveRest, Reserving
  <2>2. ReservingOK(t) /\ work[t] \in Work
    BY <2>1, NextItem
  <2>3. CASE Guard(Seen(t, Row(t, i)), "RESERVE", work[t].avail) /\ Reserve(t, i, work[t].avail)
    <3>1. work[t].avail \in Nat \ {0}
      BY <2>1, <2>2 DEF ReservingOK, Work
    <3>2. QED
      BY <2>1, <2>3, <3>1, ReserveKeeps
  <2>4. CASE /\ work' = [work EXCEPT ![t].left = @ \ {i}] /\ Goto(t, "reserve")
             /\ UNCHANGED stockVars
    <3> DEFINE w == [work[t] EXCEPT !.left = work[t].left \ {i}]
    <3>1. w \in Work
      BY <2>2, WorkUpdates
    <3>2. /\ w.op = work[t].op /\ w.wh = work[t].wh /\ w.lines = work[t].lines
          /\ w.got = work[t].got /\ w.loaded = work[t].loaded /\ w.left \subseteq work[t].left
      BY <2>2 DEF Work
    <3>3. work' = [work EXCEPT ![t] = w]
      BY <2>4 DEF IInv, Types
    <3>4. "reserve" \in Reserving /\ UNCHANGED << orderVars, stockVars, history >>
      BY <2>1, <2>4 DEF Reserving
    <3> HIDE DEF w
    <3>5. QED
      BY <2>1, <2>4, <3>1, <3>2, <3>3, <3>4, ReservingGoesOn
  <2>5. QED
    BY <1>5, <2>3, <2>4 DEF ReserveRest
<1>6. ASSUME NEW t \in Requests, FinishReservation(t) PROVE IInv'
  BY <1>6, FinishReservationKeeps
<1>7. ASSUME NEW t \in Requests, FailReservation(t) PROVE IInv'
  BY <1>7, RejectKeeps DEF FailReservation, IsOpen, Ended
<1>8. ASSUME NEW t \in Requests, FinishQuote(t) PROVE IInv'
  <2>1. IsOpen(t) /\ order' = [status |-> "DRAFT", reserved |-> [i \in Items |-> 0]]
        /\ CommitStock(t) /\ Goto(t, "done") /\ work' = [work EXCEPT ![t] = NoWork]
        /\ UNCHANGED << deliveries, invoiced, alerted, held, claimed, restock >>
    BY <1>8 DEF FinishQuote, IsOpen, Ended, history
  <2>2. order' \in [status: Statuses, reserved: [Items -> Nat]]
    BY <2>1 DEF Statuses
  <2>3. \A i \in Items : claimed[i] <= claimed'[i] /\ order'.reserved[i] <= claimed'[i]
    BY <2>1 DEF IInv, Types, TypeOK
  <2>4. QED
    BY <2>1, <2>2, <2>3, CommitKeeps DEF IInv, Types, TypeOK
<1>9. ASSUME NEW t \in Requests, LoadPrior(t) PROVE IInv'
  <2>1. pc[t] = "prior" /\ IsOpen(t) /\ work[t].op = "DELIVER" /\ work[t] \in Work
    BY <1>9, Facts DEF LoadPrior, IsOpen, Ended, RequestOK
  <2>2. CASE Goto(t, "number") /\ UNCHANGED << orderVars, stockVars, work, history >>
    <3>1. work' = [work EXCEPT ![t] = work[t]]
      BY <2>2 DEF IInv, Types
    <3>2. QED
      BY <2>1, <2>2, <3>1, ReadKeeps
  <2>3. CASE Reject(t)
    BY <2>1, <2>3, RejectKeeps
  <2>4. QED
    BY <1>9, <2>2, <2>3 DEF LoadPrior
<1>10. ASSUME NEW t \in Requests, TakeNumber(t) PROVE IInv'
  BY <1>10, TakeNumberKeeps
<1>11. ASSUME NEW t \in Requests, NEW k \in work[t].left, IssueLine(t, k) PROVE IInv'
  BY <1>11, IssueLineKeeps
<1>12. ASSUME NEW t \in Requests, FinishDelivery(t) PROVE IInv'
  <2>1. IsOpen(t) /\ order' = [order EXCEPT !.status = FlushStatus(t, "DISPATCHED")]
        /\ deliveries' = deliveries \cup {t} /\ held' = [r \in Rows |-> held[r] + Put(t, r)]
        /\ CommitStock(t) /\ Goto(t, "done") /\ work' = [work EXCEPT ![t] = NoWork]
        /\ UNCHANGED << invoiced, alerted, claimed, restock >>
    BY <1>12 DEF FinishDelivery, IsOpen, Ended
  <2>2. FlushStatus(t, "DISPATCHED") \in Statuses
    BY Facts DEF FlushStatus, Statuses
  <2>3. order' \in [status: Statuses, reserved: [Items -> Nat]] /\ order'.reserved = order.reserved
    BY <2>1, <2>2, Facts
  <2>4. held' \in [Rows -> Int]
    <3>1. \A r \in Rows : Put(t, r) \in Int
      BY DEF Put, IInv, Types, TypeOK
    <3>2. QED
      BY <2>1, <3>1, Facts
  <2>5. \A i \in Items : claimed[i] <= claimed'[i] /\ order'.reserved[i] <= claimed'[i]
    BY <2>1, <2>3, Facts
  <2>6. QED
    BY <2>1, <2>3, <2>4, <2>5, CommitKeeps DEF IInv, Types, TypeOK
<1>13. ASSUME NEW t \in Requests, FinishSale(t) PROVE IInv'
  <2>1. IsOpen(t) /\ CommitStock(t) /\ Goto(t, "done") /\ work' = [work EXCEPT ![t] = NoWork]
        /\ UNCHANGED << order, deliveries, invoiced, alerted, held, claimed, restock >>
    BY <1>13 DEF FinishSale, IsOpen, Ended, orderVars
  <2>2. \A i \in Items : claimed[i] <= claimed'[i] /\ order'.reserved[i] <= claimed'[i]
    BY <2>1, Facts
  <2>3. QED
    BY <2>1, <2>2, CommitKeeps DEF IInv, Types, TypeOK
<1>14. ASSUME NEW t \in Requests, InsertInvoice(t) PROVE IInv'
  <2>1. pc[t] = "insert" /\ IsOpen(t) /\ work[t] \in Work
    BY <1>14, Facts DEF InsertInvoice, IsOpen, Ended
  <2>2. CASE Goto(t, "all") /\ UNCHANGED << orderVars, stockVars, work, history >>
    <3>1. work' = [work EXCEPT ![t] = work[t]]
      BY <2>2 DEF IInv, Types
    <3>2. QED
      BY <2>1, <2>2, <3>1, ReadKeeps
  <2>3. CASE Reject(t)
    BY <2>1, <2>3, RejectKeeps
  <2>4. QED
    BY <1>14, <2>2, <2>3 DEF InsertInvoice
<1>15. ASSUME NEW t \in Requests, ReadDeliveries(t) PROVE IInv'
  <2> DEFINE w == [work[t] EXCEPT !.all = deliveries]
  <2>1. pc[t] = "all" /\ Goto(t, "finish") /\ UNCHANGED << orderVars, stockVars, history >>
    BY <1>15 DEF ReadDeliveries
  <2>2. w \in Work
    BY Facts, WorkUpdates DEF IInv, Types, TypeOK
  <2>3. work' = [work EXCEPT ![t] = w]
    BY <1>15 DEF ReadDeliveries, IInv, Types
  <2>4. \E s : w = [work[t] EXCEPT !.all = s]
    OBVIOUS
  <2> HIDE DEF w
  <2>5. QED
    BY <2>1, <2>2, <2>3, <2>4, ReadKeeps
<1>16. ASSUME NEW t \in Requests, FinishInvoice(t) PROVE IInv'
  <2>1. IsOpen(t) /\ work[t].of \in deliveries /\ invoiced' = invoiced \cup {work[t].of}
        /\ \/ order' = [order EXCEPT !.status = FlushStatus(t, "INVOICED")]
           \/ order' = order
        /\ CommitStock(t) /\ Goto(t, "done") /\ work' = [work EXCEPT ![t] = NoWork]
        /\ UNCHANGED << deliveries, alerted, held, claimed, restock >>
    BY <1>16, Facts DEF FinishInvoice, IsOpen, Ended, history, RequestOK
  <2>2. FlushStatus(t, "INVOICED") \in Statuses
    BY Facts DEF FlushStatus, Statuses
  <2>3. order' \in [status: Statuses, reserved: [Items -> Nat]] /\ order'.reserved = order.reserved
    BY <2>1, <2>2, Facts
  <2>4. \A i \in Items : claimed[i] <= claimed'[i] /\ order'.reserved[i] <= claimed'[i]
    BY <2>1, <2>3, Facts
  <2>5. QED
    BY <2>1, <2>3, <2>4, CommitKeeps DEF IInv, Types, TypeOK
<1>17. ASSUME NEW t \in Requests, Lose(t) PROVE IInv'
  BY <1>17, RejectKeeps DEF Lose
<1>18. ASSUME NEW r \in Rows, Restock(r) PROVE IInv'
  BY <1>18, RestockKeeps
<1>19. CASE UNCHANGED vars
  <2>1. UNCHANGED << order, delivered, deliveries, invoiced, alerted, com, cur, lock, seq, pc, work,
                     held, claimed, sold, restock >>
    BY <1>19 DEF vars, orderVars, stockVars, history
  <2>2. \A t \in Requests : RequestOK(t)'
    <3>1. \A i \in Items : claimed[i] <= claimed'[i] /\ claimed' \in [Items -> Nat]
      BY <2>1 DEF IInv, Types, TypeOK
    <3>2. \A t \in Requests \ {Nobody} : RequestOK(t)'
      BY <2>1, <3>1, OthersKeep DEF IInv, Types, TypeOK
    <3>3. QED
      BY <3>2, RequestsAssumption
  <2>3. QED
    BY <2>1, <2>2 DEF IInv, Types, TypeOK, Quiet, HoldersOpen, ClaimBacked, IsOpen
<1>20. QED
  BY <1>1, <1>2, <1>3, <1>4, <1>5, <1>6, <1>7, <1>8, <1>9, <1>10, <1>11, <1>12, <1>13, <1>14, <1>15,
     <1>16, <1>17, <1>18, <1>19 DEF Next, Step, Finished

\* Every reachable state satisfies the inductive invariant.
THEOREM Inductive == Spec => []IInv
BY InitIInv, NextIInv, PTL DEF Spec

\* The state has its types, no committed row is oversold, only deliveries are
\* billed, and a request has work exactly while it is open.
THEOREM TypeCorrect == Spec => []TypeOK
<1>1. IInv => TypeOK
  BY DEF IInv, Types
<1>2. QED
  BY <1>1, Inductive, PTL

\* reserved_qty never says more than the order's reservations took out of the
\* stock, however confirmations and retries overlap (_best_effort_reserve and its
\* callers).
THEOREM ClaimsAreBacked == Spec => []ClaimBacked
<1>1. IInv => ClaimBacked
  BY DEF IInv
<1>2. QED
  BY <1>1, Inductive, PTL
-----------------------------------------------------------------------------
\* One request at a time.
Alone == \A t, u \in Requests : IsOpen(t) /\ IsOpen(u) => t = u

\* What the only open request has read is still so.
SeenOK(t) ==
  /\ work[t].seen = order.status
  /\ work[t].op # "NONE" => Admits(work[t].op, order.status)
  /\ pc[t] \in Reserving => \A i \in Items : work[t].loaded[i] = order.reserved[i]
  /\ pc[t] = "finish" /\ work[t].op = "INVOICE" => work[t].all = deliveries

\* A request that has made a delivery is done.
DeliverersDone == \A t \in deliveries : pc[t] = "done"

\* The order is INVOICED just when every delivery so far is billed, which is
\* more than StatusTells says of it and what makes it inductive.
StatusFollows ==
  /\ StatusTells
  /\ order.status = "INVOICED" <=> deliveries # {} /\ deliveries = invoiced

\* The inductive invariant, on top of IInv.
Serial == /\ MaxOpen = 1 /\ Alone /\ DeliverersDone /\ ClaimExact /\ StatusFollows
          /\ \A t \in Requests : IsOpen(t) => SeenOK(t)
SIInv == IInv /\ Serial
-----------------------------------------------------------------------------
\* A request that begins finds nobody else.
LEMMA NobodyElse ==
  ASSUME MaxOpen = 1, Cardinality({u \in Requests : IsOpen(u)}) < MaxOpen
  PROVE  \A u \in Requests : ~IsOpen(u)
<1> DEFINE busy == {u \in Requests : IsOpen(u)}
<1>1. IsFiniteSet(busy)
  BY RequestsAssumption, FS_Subset
<1>2. Cardinality(busy) \in Nat /\ Cardinality(busy) < 1
  BY <1>1, FS_CardinalityType
<1>3. busy = {}
  BY <1>1, <1>2, FS_EmptySet
<1>4. QED
  BY <1>3

\* The order stays, and the only request goes on with fresh reads.
LEMMA GoesOn ==
  ASSUME SIInv, IInv', NEW t \in Requests, \A u \in Requests \ {t} : ~IsOpen(u),
         t \notin deliveries, UNCHANGED << order, deliveries, invoiced, alerted, claimed >>,
         \A u \in Requests \ {t} : pc'[u] = pc[u],
         IsOpen(t)' => SeenOK(t)'
  PROVE  SIInv'
<1>1. \A u \in Requests \ {t} : ~IsOpen(u)'
  BY DEF IsOpen
<1>2. Alone' /\ \A u \in Requests : IsOpen(u)' => SeenOK(u)'
  BY <1>1 DEF Alone
<1>3. DeliverersDone'
  BY DEF SIInv, Serial, DeliverersDone, IInv, Types, TypeOK
<1>4. ClaimExact' /\ StatusFollows'
  BY DEF SIInv, Serial, ClaimExact, StatusFollows, StatusTells
<1>5. QED
  BY <1>2, <1>3, <1>4 DEF SIInv, Serial

\* The only request commits, and may be the one that has made a delivery.
LEMMA Ends ==
  ASSUME SIInv, IInv', NEW t \in Requests, IsOpen(t), Goto(t, "done"),
         deliveries' \subseteq deliveries \cup {t}, ClaimExact', StatusFollows'
  PROVE  SIInv'
<1>1. pc' = [pc EXCEPT ![t] = "done"]
  BY DEF Goto
<1>2. \A u \in Requests : ~IsOpen(u)'
  BY <1>1 DEF SIInv, Serial, Alone, IsOpen, Ended, IInv, Types
<1>3. DeliverersDone'
  BY <1>1 DEF SIInv, Serial, DeliverersDone, IInv, Types, TypeOK
<1>4. QED
  BY <1>2, <1>3 DEF SIInv, Serial, Alone

\* What the steps of the open request use.
LEMMA OpenFacts ==
  ASSUME SIInv, NEW t \in Requests, IsOpen(t)
  PROVE  /\ \A u \in Requests \ {t} : ~IsOpen(u)
         /\ t \notin deliveries /\ t \notin invoiced
         /\ SeenOK(t) /\ RequestOK(t) /\ work[t] \in Work /\ work[t].op \in Ops
         /\ ClaimExact /\ StatusFollows
         /\ order \in [status: Statuses, reserved: [Items -> Nat]]
         /\ invoiced \subseteq deliveries /\ deliveries \subseteq Requests
         /\ pc \in [Requests -> Places] /\ work \in [Requests -> Work]
         /\ claimed \in [Items -> Nat] /\ alerted \in BOOLEAN
BY Facts DEF SIInv, Serial, Alone, DeliverersDone, IsOpen, Ended, IInv, Types, TypeOK, Work

\* A request that reads or writes the stock and stays where its reads are fresh.
LEMMA StaysFresh ==
  ASSUME SIInv, IInv', NEW t \in Requests, IsOpen(t),
         UNCHANGED << orderVars, history >>, NEW where \in Places, Goto(t, where),
         NEW w \in Work, work' = [work EXCEPT ![t] = w],
         w.op = work[t].op, w.seen = work[t].seen,
         where \in Reserving => \A i \in Items : w.loaded[i] = order.reserved[i],
         where = "finish" /\ w.op = "INVOICE" => w.all = deliveries
  PROVE  SIInv'
<1>1. UNCHANGED << order, deliveries, invoiced, alerted, claimed >>
  BY DEF orderVars, history
<1>2. pc'[t] = where /\ work'[t] = w /\ \A u \in Requests \ {t} : pc'[u] = pc[u]
  BY OpenFacts DEF Goto
<1>3. SeenOK(t)'
  BY <1>1, <1>2, OpenFacts DEF SeenOK
<1>4. QED
  BY <1>1, <1>2, <1>3, OpenFacts, GoesOn

\* The only request rolls back.
LEMMA RejectEnds ==
  ASSUME SIInv, IInv', NEW t \in Requests, IsOpen(t), Reject(t)
  PROVE  SIInv'
<1>1. UNCHANGED << order, deliveries, invoiced, alerted, claimed >> /\ pc' = [pc EXCEPT ![t] = "rejected"]
  BY DEF Reject, Goto, orderVars, history
<1>2. ~IsOpen(t)' /\ \A u \in Requests \ {t} : pc'[u] = pc[u]
  BY <1>1, OpenFacts DEF IsOpen, Ended
<1>3. QED
  BY <1>1, <1>2, OpenFacts, GoesOn
-----------------------------------------------------------------------------
\* A request that is admitted knows the status it was admitted for.
LEMMA OpenFresh ==
  ASSUME SIInv, IInv', NEW t \in Requests, NEW m \in Menu, NEW of \in Requests \cup {Nobody},
         Open(t, m, of)
  PROVE  SIInv'
<1>1. /\ pc[t] = "idle" /\ \A u \in Requests : ~IsOpen(u)
      /\ UNCHANGED << order, deliveries, invoiced, alerted, claimed >>
  BY NobodyElse DEF Open, SIInv, Serial, orderVars, history
<1>2. t \notin deliveries
  BY <1>1 DEF SIInv, Serial, DeliverersDone
<1>3. order \in [status: Statuses, reserved: [Items -> Nat]] /\ pc \in [Requests -> Places]
      /\ work \in [Requests -> Work] /\ StatusFollows
  BY DEF SIInv, Serial, IInv, Types, TypeOK
<1>4. CASE Admits(m.op, order.status)
  <2> DEFINE left == IF m.op = "CREATE" THEN Items
                     ELSE IF m.op = "SELL" THEN DOMAIN m.lines ELSE {}
             w == [NoWork EXCEPT !.op = m.op, !.wh = m.wh, !.lines = m.lines, !.of = of,
                                 !.seen = order.status, !.left = left]
  <2>1. Goto(t, FirstStep(m.op)) /\ work' = [work EXCEPT ![t] = w]
    BY <1>4 DEF Open
  <2>2. pc'[t] = FirstStep(m.op) /\ work'[t] = w /\ \A u \in Requests \ {t} : pc'[u] = pc[u]
    BY <1>3, <2>1 DEF Goto
  <2> HIDE DEF left
  <2>3. w.op = m.op /\ w.seen = order.status /\ w.loaded = [i \in Items |-> 0]
    BY DEF NoWork
  <2> HIDE DEF w
  <2>4. m.op \in Ops
    BY MenuAssumption
  <2>5. SeenOK(t)'
    <3>1. pc'[t] \in Reserving => m.op = "CREATE"
      BY <2>2, <2>4 DEF FirstStep, Reserving, Ops, Creating
    <3>2. m.op = "CREATE" => \A i \in Items : order.reserved[i] = 0
      BY <1>3, <1>4 DEF Admits, Creating, StatusFollows, StatusTells
    <3>3. ~(pc'[t] = "finish" /\ m.op = "INVOICE")
      BY <2>2 DEF FirstStep
    <3>4. QED
      BY <1>1, <1>4, <2>2, <2>3, <3>1, <3>2, <3>3 DEF SeenOK
  <2>6. QED
    BY <1>1, <1>2, <2>2, <2>5, GoesOn
<1>5. CASE ~Admits(m.op, order.status)
  <2>1. pc' = [pc EXCEPT ![t] = "rejected"]
    BY <1>5 DEF Open, Goto
  <2>2. ~IsOpen(t)' /\ \A u \in Requests \ {t} : pc'[u] = pc[u]
    BY <1>3, <2>1 DEF IsOpen, Ended
  <2>3. QED
    BY <1>1, <1>2, <2>2, GoesOn
<1>6. QED
  BY <1>4, <1>5

\* What the request stores is what it loaded and what it put in the stock, and
\* its status says how much of the order that is.
LEMMA FinishReservationTells ==
  ASSUME SIInv, IInv', NEW t \in Requests, FinishReservation(t)
  PROVE  SIInv'
<1>0. /\ pc[t] = "reserve" /\ IsOpen(t) /\ Goto(t, "done") /\ ReservingOK(t) /\ SeenOK(t)
  <2>1. pc[t] = "reserve" /\ IsOpen(t) /\ Goto(t, "done")
    BY DEF FinishReservation, IsOpen, Ended
  <2>2. QED
    BY <2>1, OpenFacts DEF RequestOK, Reserving
<1>1. /\ order'.status = FlushStatus(t, NewStatus(t))
      /\ \A i \in Items : order'.reserved[i] = IF NewReserved(t, i) = work[t].loaded[i]
                                               THEN order.reserved[i] ELSE NewReserved(t, i)
      /\ alerted' = (alerted \/ ReportsShortage(t))
      /\ \A i \in Items : claimed'[i] = claimed[i] + Put(t, Row(t, i))
      /\ UNCHANGED << deliveries, invoiced >>
  BY DEF FinishReservation
<1>2. /\ work[t].op \in {"CREATE", "CONFIRM", "RETRY"}
      /\ \A i \in Items : /\ Put(t, Row(t, i)) = work[t].got[i] /\ work[t].got[i] \in Nat
                          /\ work[t].loaded[i] = order.reserved[i] /\ order.reserved[i] \in Nat
                          /\ claimed[i] = order.reserved[i]
                          /\ work[t].op # "RETRY" => order.reserved[i] = 0
  <2>1. work[t].op \in {"CREATE", "CONFIRM", "RETRY"}
    BY <1>0 DEF ReservingOK
  <2>2. work[t].op # "RETRY" => order.status \in {"ABSENT", "DRAFT"}
    BY <1>0, <2>1 DEF SeenOK, Admits, Creating
  <2>3. work[t].op # "RETRY" => \A i \in Items : order.reserved[i] = 0
    BY <1>0, <2>2, OpenFacts DEF StatusFollows, StatusTells
  <2>4. \A i \in Items : work[t].got[i] \in Nat /\ order.reserved[i] \in Nat
    BY <1>0, OpenFacts DEF Work
  <2>5. QED
    BY <1>0, <2>1, <2>3, <2>4, OpenFacts DEF ReservingOK, SeenOK, Reserving, ClaimExact
<1>3. \A i \in Items : /\ NewReserved(t, i) = work[t].got[i] + order.reserved[i]
                       /\ order'.reserved[i] = NewReserved(t, i) /\ NewReserved(t, i) \in Nat
                       /\ claimed'[i] = NewReserved(t, i)
  BY <1>1, <1>2 DEF NewReserved
<1>4. order'.status = NewStatus(t)
  BY <1>0, <1>1 DEF FlushStatus, SeenOK
<1>5. deliveries = {} /\ (work[t].op = "RETRY" => alerted)
  <2>1. order.status \in {"ABSENT", "DRAFT", "CONFIRMED", "PARTIALLY_RESERVED"}
        /\ (work[t].op = "RETRY" => order.status \in {"CONFIRMED", "PARTIALLY_RESERVED"})
    BY <1>0, <1>2 DEF SeenOK, Admits, Creating
  <2>2. QED
    BY <1>0, <2>1, OpenFacts DEF StatusFollows, StatusTells
<1>6. ClaimExact'
  BY <1>3 DEF ClaimExact
<1>7. StatusFollows'
  <2>1. order'.status \in {"RESERVED", "PARTIALLY_RESERVED", "CONFIRMED"}
    BY <1>4 DEF NewStatus
  <2>2. /\ order'.status = "RESERVED" => \A i \in Items : order'.reserved[i] = Quantity[i]
        /\ order'.status = "PARTIALLY_RESERVED" =>
             /\ ~ \A i \in Items : order'.reserved[i] = Quantity[i]
             /\ ~ \A i \in Items : order'.reserved[i] = 0
        /\ order'.status = "CONFIRMED" => \A i \in Items : order'.reserved[i] = 0
    BY <1>3, <1>4 DEF NewStatus
  <2>3. order'.status \in {"PARTIALLY_RESERVED", "CONFIRMED"} => alerted'
    BY <1>1, <1>4, <1>5, OpenFacts, <1>0 DEF ReportsShortage
  <2>4. QED
    BY <1>1, <1>5, <2>1, <2>2, <2>3 DEF StatusFollows, StatusTells
<1>8. QED
  BY <1>0, <1>1, <1>6, <1>7, Ends

\* A quote holds nothing, as the order that was not there.
LEMMA FinishQuoteTells ==
  ASSUME SIInv, IInv', NEW t \in Requests, FinishQuote(t)
  PROVE  SIInv'
<1>1. /\ IsOpen(t) /\ Goto(t, "done") /\ work[t].op = "QUOTE"
      /\ order' = [status |-> "DRAFT", reserved |-> [i \in Items |-> 0]]
      /\ UNCHANGED << deliveries, invoiced, alerted, claimed >>
  BY DEF FinishQuote, IsOpen, Ended, history
<1>2. order.status = "ABSENT"
  BY <1>1, OpenFacts DEF SeenOK, Admits, Creating
<1>3. ClaimExact'
  BY <1>1, <1>2, OpenFacts DEF ClaimExact, StatusFollows, StatusTells
<1>4. StatusFollows'
  BY <1>1, <1>2, OpenFacts DEF StatusFollows, StatusTells
<1>5. QED
  BY <1>1, <1>3, <1>4, Ends

\* A delivery makes the order DISPATCHED; it is the one that is not billed.
LEMMA FinishDeliveryTells ==
  ASSUME SIInv, IInv', NEW t \in Requests, FinishDelivery(t)
  PROVE  SIInv'
<1>1. /\ IsOpen(t) /\ Goto(t, "done") /\ work[t].op = "DELIVER"
      /\ order' = [order EXCEPT !.status = FlushStatus(t, "DISPATCHED")]
      /\ deliveries' = deliveries \cup {t}
      /\ UNCHANGED << invoiced, alerted, claimed >>
  BY DEF FinishDelivery, IsOpen, Ended
<1>2. order'.status = "DISPATCHED" /\ order'.reserved = order.reserved
  BY <1>1, OpenFacts DEF FlushStatus, SeenOK
<1>3. ClaimExact'
  BY <1>1, <1>2, OpenFacts DEF ClaimExact
<1>4. StatusFollows'
  BY <1>1, <1>2, OpenFacts DEF StatusFollows, StatusTells
<1>5. QED
  BY <1>1, <1>3, <1>4, Ends

\* The order is INVOICED with the last of its deliveries.
LEMMA FinishInvoiceTells ==
  ASSUME SIInv, IInv', NEW t \in Requests, FinishInvoice(t)
  PROVE  SIInv'
<1>1. /\ IsOpen(t) /\ Goto(t, "done") /\ pc[t] = "finish" /\ work[t].op = "INVOICE"
      /\ invoiced' = invoiced \cup {work[t].of}
      /\ order' = IF work[t].all \subseteq invoiced'
                  THEN [order EXCEPT !.status = FlushStatus(t, "INVOICED")] ELSE order
      /\ UNCHANGED << deliveries, alerted, claimed >>
  BY DEF FinishInvoice, IsOpen, Ended, history
<1>2. work[t].of \in deliveries /\ work[t].all = deliveries
  BY <1>1, OpenFacts DEF RequestOK, SeenOK
<1>3. /\ order'.reserved = order.reserved
      /\ order'.status = IF deliveries \subseteq invoiced' THEN "INVOICED" ELSE order.status
  BY <1>1, <1>2, OpenFacts DEF FlushStatus, SeenOK
<1>4. ClaimExact'
  BY <1>1, <1>3, OpenFacts DEF ClaimExact
<1>5. order.status \in {"DISPATCHED", "INVOICED"} /\ deliveries # {}
  BY <1>1, <1>2, OpenFacts DEF StatusFollows, StatusTells
<1>6. invoiced' \subseteq deliveries
  BY <1>1, <1>2, OpenFacts
<1>7. StatusFollows'
  <2>1. order.status = "INVOICED" => deliveries = invoiced
    BY <1>1, OpenFacts DEF StatusFollows, StatusTells
  <2>2. order'.status = "INVOICED" <=> deliveries = invoiced'
    BY <1>1, <1>3, <1>6, <2>1
  <2>3. order'.status \in {"DISPATCHED", "INVOICED"}
    BY <1>3, <1>5
  <2>4. QED
    BY <1>1, <1>5, <2>2, <2>3 DEF StatusFollows, StatusTells
<1>8. QED
  BY <1>1, <1>4, <1>7, Ends
-----------------------------------------------------------------------------
LEMMA InitSIInv == MaxOpen = 1 /\ StatusTells /\ Init => SIInv
<1> SUFFICES ASSUME MaxOpen = 1, StatusTells, Init PROVE SIInv
  OBVIOUS
<1>1. \A t \in Requests : ~IsOpen(t)
  BY DEF Init, IsOpen
<1>2. ClaimExact
  BY DEF Init, ClaimExact
<1>3. StatusFollows
  BY DEF Init, StatusFollows, StatusTells
<1>4. QED
  BY <1>1, <1>2, <1>3, InitIInv DEF Init, SIInv, Serial, Alone, DeliverersDone

LEMMA NextSIInv == SIInv /\ [Next]_vars => SIInv'
<1> SUFFICES ASSUME SIInv, [Next]_vars PROVE SIInv'
  OBVIOUS
<1>0. IInv'
  BY NextIInv DEF SIInv
<1>1. ASSUME NEW t \in Requests, NEW m \in Menu, NEW of \in Requests \cup {Nobody}, Open(t, m, of)
      PROVE  SIInv'
  BY <1>0, <1>1, OpenFresh
<1>2. ASSUME NEW t \in Requests, LoadItems(t) PROVE SIInv'
  <2>1. IsOpen(t)
    BY <1>2 DEF LoadItems, IsOpen, Ended
  <2> DEFINE left == CASE work[t].op = "CONFIRM" -> Items
                       [] work[t].op = "RETRY"   -> {i \in Items : order.reserved[i] < Quantity[i]}
                       [] OTHER -> DOMAIN work[t].lines
             w == [work[t] EXCEPT !.loaded = order.reserved, !.left = left]
             where == IF work[t].op = "DELIVER" THEN "prior" ELSE "reserve"
  <2>2. work' = [work EXCEPT ![t] = w] /\ Goto(t, where) /\ UNCHANGED << orderVars, history >>
    BY <1>2, <2>1, OpenFacts DEF LoadItems
  <2>3. left \in SUBSET Nat
    <3>1. DOMAIN work[t].lines \subseteq Nat
      BY <2>1, OpenFacts DEF Work
    <3>2. QED
      BY <3>1, ItemsAssumption
  <2> HIDE DEF left
  <2>4. w \in Work /\ w.op = work[t].op /\ w.seen = work[t].seen /\ w.loaded = order.reserved
    <3>1. work[t] \in Work /\ order.reserved \in [Items -> Nat]
      BY <2>1, OpenFacts
    <3>2. w \in Work
      BY <2>3, <3>1, WorkUpdates
    <3>3. w.op = work[t].op /\ w.seen = work[t].seen /\ w.loaded = order.reserved
      BY <3>1 DEF Work
    <3>4. QED
      BY <3>2, <3>3
  <2>5. where \in Places /\ where # "finish"
    BY DEF Places
  <2> HIDE DEF w, where
  <2>6. QED
    BY <1>0, <2>1, <2>2, <2>4, <2>5, StaysFresh
<1>3. ASSUME NEW t \in Requests, NEW i \in Items,
             ReserveFull(t, i) \/ ReadAvailable(t, i) \/ ReserveRest(t, i)
      PROVE  SIInv'
  <2>1. IsOpen(t) /\ pc[t] \in Reserving /\ UNCHANGED << orderVars, history >>
    BY <1>3 DEF ReserveFull, ReadAvailable, ReserveRest, IsOpen, Ended, Reserving
  <2>2. SeenOK(t) /\ work[t] \in Work /\ work \in [Requests -> Work]
    BY <2>1, OpenFacts
  <2>3. PICK where \in Reserving : Goto(t, where)
    BY <1>3 DEF ReserveFull, ReadAvailable, ReserveRest, Reserve, Reserving
  <2>4. work'[t].op = work[t].op /\ work'[t].seen = work[t].seen /\ work'[t].loaded = work[t].loaded
    BY <1>3, <2>2 DEF ReserveFull, ReadAvailable, ReserveRest, Reserve, Work
  <2>5. pc'[t] = where /\ \A u \in Requests \ {t} : pc'[u] = pc[u]
    BY <2>1, <2>3, OpenFacts DEF Goto
  <2>6. UNCHANGED << order, deliveries, invoiced, alerted, claimed >>
    BY <2>1 DEF orderVars, history
  <2>7. SeenOK(t)'
    BY <2>1, <2>2, <2>4, <2>5, <2>6 DEF SeenOK, Reserving
  <2>8. QED
    BY <1>0, <2>1, <2>5, <2>6, <2>7, OpenFacts, GoesOn
<1>4. ASSUME NEW t \in Requests, FinishReservation(t) PROVE SIInv'
  BY <1>0, <1>4, FinishReservationTells
<1>5. ASSUME NEW t \in Requests, FailReservation(t) PROVE SIInv'
  BY <1>0, <1>5, RejectEnds DEF FailReservation, IsOpen, Ended
<1>6. ASSUME NEW t \in Requests, FinishQuote(t) PROVE SIInv'
  BY <1>0, <1>6, FinishQuoteTells
<1>7. ASSUME NEW t \in Requests, IsOpen(t), NEW where \in {"number", "issue", "insert", "all"},
             Goto(t, where), UNCHANGED << orderVars, work, history >>
      PROVE  SIInv'
  <2>1. work' = [work EXCEPT ![t] = work[t]] /\ work[t] \in Work
    BY <1>7, OpenFacts
  <2>2. where \in Places /\ where \notin Reserving /\ where # "finish"
    BY DEF Places, Reserving
  <2>3. QED
    BY <1>0, <1>7, <2>1, <2>2, StaysFresh
<1>8. ASSUME NEW t \in Requests, LoadPrior(t) \/ TakeNumber(t) \/ InsertInvoice(t) PROVE SIInv'
  <2>1. IsOpen(t)
    BY <1>8 DEF LoadPrior, TakeNumber, InsertInvoice, IsOpen, Ended
  <2>2. \/ Reject(t)
        \/ \E where \in {"number", "issue", "insert", "all"} :
             Goto(t, where) /\ UNCHANGED << orderVars, work, history >>
    BY <1>8 DEF LoadPrior, TakeNumber, InsertInvoice
  <2>3. QED
    BY <1>0, <1>7, <2>1, <2>2, RejectEnds
<1>9. ASSUME NEW t \in Requests, NEW k \in work[t].left, IssueLine(t, k) PROVE SIInv'
  <2>1. IsOpen(t) /\ pc[t] = "issue"
    BY <1>9 DEF IssueLine, IsOpen, Ended
  <2>2. CASE Reject(t)
    BY <1>0, <2>1, <2>2, RejectEnds
  <2>3. CASE work' = [work EXCEPT ![t].left = @ \ {k}] /\ UNCHANGED << orderVars, pc, history >>
    <3> DEFINE w == [work[t] EXCEPT !.left = work[t].left \ {k}]
    <3>1. w \in Work /\ w.op = work[t].op /\ w.seen = work[t].seen
      <4>1. work[t] \in Work
        BY <2>1, OpenFacts
      <4>2. QED
        BY <4>1, WorkUpdates DEF Work
    <3>2. work' = [work EXCEPT ![t] = w] /\ Goto(t, "issue")
      BY <2>1, <2>3, OpenFacts DEF Goto
    <3>3. "issue" \in Places /\ "issue" \notin Reserving
      BY DEF Places, Reserving
    <3> HIDE DEF w
    <3>4. QED
      BY <1>0, <2>1, <2>3, <3>1, <3>2, <3>3, StaysFresh
  <2>4. QED
    BY <1>9, <2>2, <2>3 DEF IssueLine
<1>10. ASSUME NEW t \in Requests, FinishDelivery(t) PROVE SIInv'
  BY <1>0, <1>10, FinishDeliveryTells
<1>11. ASSUME NEW t \in Requests, FinishSale(t) PROVE SIInv'
  <2>1. IsOpen(t) /\ Goto(t, "done") /\ UNCHANGED << order, deliveries, invoiced, alerted, claimed >>
    BY <1>11 DEF FinishSale, IsOpen, Ended, orderVars
  <2>2. ClaimExact' /\ StatusFollows'
    BY <2>1, OpenFacts DEF ClaimExact, StatusFollows, StatusTells
  <2>3. QED
    BY <1>0, <2>1, <2>2, Ends
<1>12. ASSUME NEW t \in Requests, ReadDeliveries(t) PROVE SIInv'
  <2> DEFINE w == [work[t] EXCEPT !.all = deliveries]
  <2>1. IsOpen(t) /\ Goto(t, "finish") /\ UNCHANGED << orderVars, history >>
    BY <1>12 DEF ReadDeliveries, IsOpen, Ended
  <2>2. w \in Work /\ w.op = work[t].op /\ w.seen = work[t].seen /\ w.all = deliveries
    <3>1. work[t] \in Work /\ deliveries \in SUBSET Requests
      BY <2>1, OpenFacts
    <3>2. QED
      BY <3>1, WorkUpdates DEF Work
  <2>3. work' = [work EXCEPT ![t] = w]
    BY <1>12, <2>1, OpenFacts DEF ReadDeliveries
  <2>4. "finish" \in Places /\ "finish" \notin Reserving
    BY DEF Places, Reserving
  <2> HIDE DEF w
  <2>5. QED
    BY <1>0, <2>1, <2>2, <2>3, <2>4, StaysFresh
<1>13. ASSUME NEW t \in Requests, FinishInvoice(t) PROVE SIInv'
  BY <1>0, <1>13, FinishInvoiceTells
<1>14. ASSUME NEW t \in Requests, Lose(t) PROVE SIInv'
  BY <1>0, <1>14, RejectEnds DEF Lose
<1>15. CASE UNCHANGED << orderVars, pc, work, claimed >>
  BY <1>0, <1>15 DEF orderVars, SIInv, Serial, Alone, DeliverersDone, ClaimExact, StatusFollows, StatusTells,
     IsOpen, SeenOK
<1>16. QED
  BY <1>1, <1>2, <1>3, <1>4, <1>5, <1>6, <1>8, <1>9, <1>10, <1>11, <1>12, <1>13, <1>14, <1>15
     DEF Next, Step, Finished, Restock, vars, history
-----------------------------------------------------------------------------
\* With one request at a time reserved_qty is what the reservations took: no
\* stock stays reserved for nobody, through retries, deliveries and requests
\* that die.
THEOREM ClaimsAreExact == MaxOpen = 1 /\ StatusTells /\ Spec => []ClaimExact
<1>1. SIInv => ClaimExact
  BY DEF SIInv, Serial
<1>2. QED
  BY InitSIInv, NextSIInv, <1>1, PTL DEF Spec

\* With one request at a time, and from an opening whose status tells it, the
\* order's status tells for good what is reserved, shipped, billed and reported.
THEOREM StatusAlwaysTells == MaxOpen = 1 /\ StatusTells /\ Spec => []StatusTells
<1>1. SIInv => StatusTells
  BY DEF SIInv, Serial, StatusFollows
<1>2. QED
  BY InitSIInv, NextSIInv, <1>1, PTL DEF Spec
-----------------------------------------------------------------------------
\* What t, if it commits now, takes off the shelf of row r, and what the lines
\* it has issued for item i come to.
Out(t, r) == IF lock[r] = t THEN com[r].onHand - cur[r].onHand ELSE 0
Qty(t) == [k \in DOMAIN work[t].lines |-> work[t].lines[k].qty]
LinesOf(t, i) == {k \in DOMAIN work[t].lines : work[t].lines[k].item = i}
Issued(t, i) == Total(Qty(t), LinesOf(t, i) \ work[t].left)

\* The places of a request that holds no stock row.
NothingTaken == {"items", "prior", "number", "insert", "all", "finish"}

\* A request holds rows of its warehouse only.  A reservation takes nothing off
\* the shelf; an issue takes what its lines so far say, of each item, a delivery
\* also out of what is reserved.
StockOK(t) ==
  /\ \A r \in Rows : lock[r] = t => r[2] = work[t].wh
  /\ pc[t] \in Reserving => \A r \in Rows : Out(t, r) = 0
  /\ pc[t] \in NothingTaken => \A r \in Rows : lock[r] # t
  /\ pc[t] \in {"prior", "number"} /\ work[t].op # "INVOICE" =>
       work[t].left = DOMAIN work[t].lines
  /\ pc[t] = "issue" => \A i \in Items :
       /\ Out(t, Row(t, i)) = Issued(t, i)
       /\ Put(t, Row(t, i)) = IF work[t].op = "DELIVER" THEN -Issued(t, i) ELSE 0

Counted == delivered \in [Items -> Int] /\ sold \in [Items -> Int]
UInv == IInv /\ Counted /\ \A t \in Requests : StockOK(t)
-----------------------------------------------------------------------------
LEMMA LinesFacts ==
  ASSUME IInv, NEW t \in Requests
  PROVE  /\ work[t].lines \in Seq(Line) /\ IsFiniteSet(DOMAIN work[t].lines)
         /\ \A k \in DOMAIN work[t].lines :
              /\ work[t].lines[k].item \in Items /\ work[t].lines[k].qty \in Nat \ {0}
              /\ Qty(t)[k] = work[t].lines[k].qty /\ Qty(t)[k] \in Int
         /\ \A i : LinesOf(t, i) \subseteq DOMAIN work[t].lines /\ IsFiniteSet(LinesOf(t, i))
<1>1. work[t].lines \in Seq(Line)
  BY DEF IInv, Types, Work
<1>2. IsFiniteSet(DOMAIN work[t].lines)
  <2>1. DOMAIN work[t].lines = 1 .. Len(work[t].lines) /\ Len(work[t].lines) \in Nat
    BY <1>1
  <2>2. QED
    BY <2>1, FS_Interval
<1>3. \A k \in DOMAIN work[t].lines : work[t].lines[k] \in Line
  BY <1>1
<1>4. \A i : LinesOf(t, i) \subseteq DOMAIN work[t].lines
  BY DEF LinesOf
<1>5. \A i : IsFiniteSet(LinesOf(t, i))
  BY <1>2, <1>4, FS_Subset
<1>6. QED
  BY <1>1, <1>2, <1>3, <1>4, <1>5 DEF Qty, Line

\* The units of an item on the request's lines, as the code adds them up.
LEMMA OnLinesIsTotal ==
  ASSUME IInv, NEW t \in Requests, NEW i \in Items
  PROVE  OnLines(t, i) = Total(Qty(t), LinesOf(t, i)) /\ OnLines(t, i) \in Int
<1> DEFINE S == LinesOf(t, i)
           q == Qty(t)
           Body(g, T) == IF T = {} THEN 0
             ELSE work[t].lines[CHOOSE x \in T : TRUE].qty + g[T \ {CHOOSE x \in T : TRUE}]
           Over(g, T) == IF T = {} THEN 0
             ELSE q[CHOOSE x \in T : TRUE] + g[T \ {CHOOSE x \in T : TRUE}]
           g == CHOOSE g : g = [T \in SUBSET S |-> Body(g, T)]
<1>1. IsFiniteSet(S) /\ \A x \in S : q[x] \in Int /\ q[x] = work[t].lines[x].qty
  BY LinesFacts
<1>2. \A k : IsSum(k, q, S) <=> k = [T \in SUBSET S |-> Body(k, T)]
  <2>1. ASSUME NEW k, NEW T \in SUBSET S PROVE Body(k, T) = Over(k, T)
    <3>1. T # {} => (CHOOSE x \in T : TRUE) \in S
      OBVIOUS
    <3> HIDE DEF q, S
    <3>2. QED
      BY <1>1, <3>1
  <2>2. \A k : IsSum(k, q, S) <=> k = [T \in SUBSET S |-> Over(k, T)]
    BY DEF IsSum
  <2> HIDE DEF Body, Over
  <2>3. ASSUME NEW k
        PROVE  [T \in SUBSET S |-> Over(k, T)] = [T \in SUBSET S |-> Body(k, T)]
    BY <2>1
  <2>4. QED
    BY <2>2, <2>3
<1>3. IsSum(g, q, S)
  <2>1. \E k : IsSum(k, q, S)
    <3> HIDE DEF S, q
    <3>1. QED
      BY <1>1, SumExists
  <2> HIDE DEF Body
  <2>2. QED
    BY <1>2, <2>1
<1>4. OnLines(t, i) = g[S]
  BY DEF OnLines, MapThenSumSet, MapThenFoldSet, LinesOf
<1>5. QED
  <2> HIDE DEF g, S, q
  <2>1. g[S] = Total(q, S) /\ Total(q, S) \in Int
    BY <1>1, <1>3, SumIsTotal, TotalType
  <2>2. QED
    BY <1>4, <2>1 DEF S, q

LEMMA IssuedType ==
  ASSUME IInv, NEW t \in Requests, NEW i \in Items
  PROVE  Issued(t, i) \in Int
<1> DEFINE S == LinesOf(t, i) \ work[t].left
<1>1. IsFiniteSet(S) /\ \A k \in S : Qty(t)[k] \in Int
  BY LinesFacts, FS_Subset
<1>2. Total(Qty(t), S) \in Int
  <2> HIDE DEF S
  <2>1. PICK q : q = Qty(t)
    OBVIOUS
  <2>2. QED
    BY <1>1, <2>1, TotalType
<1>3. QED
  BY <1>2 DEF Issued
-----------------------------------------------------------------------------
\* The requests that are not in a step keep their rows as they are.
LEMMA OthersKeepStock ==
  ASSUME UInv, NEW t,
         \A u \in Requests \ {t} : pc'[u] = pc[u] /\ work'[u] = work[u],
         \A u \in Requests \ {t}, r \in Rows :
           /\ lock'[r] = u <=> lock[r] = u
           /\ lock[r] = u => cur'[r] = cur[r] /\ com'[r] = com[r]
  PROVE  \A u \in Requests \ {t} : StockOK(u)'
<1> SUFFICES ASSUME NEW u \in Requests \ {t} PROVE StockOK(u)'
  OBVIOUS
<1>1. StockOK(u) /\ pc'[u] = pc[u] /\ work'[u] = work[u]
  BY DEF UInv
<1>2. \A r \in Rows : /\ lock'[r] = u <=> lock[r] = u
                      /\ Put(u, r)' = Put(u, r) /\ Out(u, r)' = Out(u, r)
  BY DEF Put, Out
<1>3. pc[u] = "issue" => work[u].wh \in Warehouses
  BY DEF UInv, IInv, RequestOK, IsOpen, Ended
<1>4. ASSUME pc[u] = "issue", NEW i \in Items
      PROVE  /\ Out(u, Row(u, i))' = Out(u, Row(u, i)) /\ Put(u, Row(u, i))' = Put(u, Row(u, i))
             /\ Issued(u, i)' = Issued(u, i)
  <2>1. Row(u, i) \in Rows /\ Row(u, i)' = Row(u, i)
    BY <1>1, <1>3, <1>4 DEF Row, Rows
  <2>2. Issued(u, i)' = Issued(u, i)
    BY <1>1 DEF Issued, Qty, LinesOf
  <2>3. Out(u, Row(u, i))' = Out(u, Row(u, i)) /\ Put(u, Row(u, i))' = Put(u, Row(u, i))
    BY <1>2, <2>1 DEF Out, Put
  <2>4. QED
    BY <2>2, <2>3
<1>5. ASSUME pc[u] = "issue", NEW i \in Items
      PROVE  /\ Out(u, Row(u, i))' = Issued(u, i)'
             /\ Put(u, Row(u, i))' = IF work'[u].op = "DELIVER" THEN -(Issued(u, i)') ELSE 0
  BY <1>1, <1>4, <1>5 DEF StockOK
<1>6. \A r \in Rows : lock'[r] = u => r[2] = work'[u].wh
  BY <1>1, <1>2 DEF StockOK
<1>7. QED
  BY <1>1, <1>2, <1>5, <1>6 DEF StockOK

\* A request that holds nothing and is not among the lines it issues.
LEMMA HoldsNothing ==
  ASSUME NEW t, \A r \in Rows : lock'[r] # t, pc'[t] \notin {"issue", "prior", "number"}
  PROVE  StockOK(t)'
BY DEF StockOK, Out

\* A request that ends lets its rows go.
LEMMA EndsWithNothing ==
  ASSUME UInv, NEW t \in Requests, NEW where \in Ended, Goto(t, where),
         work' = [work EXCEPT ![t] = NoWork],
         lock' = Unlocked(t),
         \A r \in Rows : lock[r] # t => cur'[r] = cur[r] /\ com'[r] = com[r]
  PROVE  \A u \in Requests : StockOK(u)'
<1>1. pc'[t] = where /\ \A u \in Requests \ {t} : pc'[u] = pc[u] /\ work'[u] = work[u]
  BY DEF UInv, IInv, Types, Goto
<1>2. \A r \in Rows : /\ lock'[r] # t
                      /\ \A u \in Requests \ {t} : lock'[r] = u <=> lock[r] = u
  BY RequestsAssumption DEF Unlocked
<1>3. \A u \in Requests \ {t} : StockOK(u)'
  BY <1>1, <1>2, OthersKeepStock
<1>4. StockOK(t)'
  BY <1>1, <1>2, HoldsNothing DEF Ended
<1>5. QED
  BY <1>3, <1>4

\* A request that touches no row.
LEMMA StaysOffTheStock ==
  ASSUME UInv, NEW t \in Requests, UNCHANGED << com, cur, lock >>,
         NEW where, Goto(t, where), NEW w, work' = [work EXCEPT ![t] = w], StockOK(t)'
  PROVE  \A u \in Requests : StockOK(u)'
<1>1. \A u \in Requests \ {t} : pc'[u] = pc[u] /\ work'[u] = work[u]
  BY DEF UInv, IInv, Types, Goto
<1>2. \A u \in Requests \ {t} : StockOK(u)'
  BY <1>1, OthersKeepStock
<1>3. QED
  BY <1>2

\* A request that takes a row that nobody else holds to another version.
LEMMA WritesAlone ==
  ASSUME UInv, NEW t \in Requests, NEW r \in Rows, NEW v, Write(t, r, v),
         NEW where, Goto(t, where), NEW w, work' = [work EXCEPT ![t] = w], StockOK(t)'
  PROVE  \A u \in Requests : StockOK(u)'
<1>1. \A u \in Requests \ {t} : pc'[u] = pc[u] /\ work'[u] = work[u]
  BY DEF UInv, IInv, Types, Goto
<1>2. \A u \in Requests \ {t}, s \in Rows :
         /\ lock'[s] = u <=> lock[s] = u
         /\ lock[s] = u => cur'[s] = cur[s] /\ com'[s] = com[s]
  BY RequestsAssumption DEF UInv, IInv, Types, TypeOK, Write, Free
<1>3. \A u \in Requests \ {t} : StockOK(u)'
  BY <1>1, <1>2, OthersKeepStock
<1>4. QED
  BY <1>3
-----------------------------------------------------------------------------
LEMMA OpenOffTheStock ==
  ASSUME UInv, NEW t \in Requests, NEW m \in Menu, NEW of \in Requests \cup {Nobody}, Open(t, m, of)
  PROVE  \A u \in Requests : StockOK(u)'
<1>1. /\ \A r \in Rows : lock[r] # t
      /\ UNCHANGED << com, cur, lock >>
  <2>1. ~IsOpen(t)
    BY DEF Open, IsOpen
  <2>2. QED
    BY <2>1, RequestsAssumption DEF UInv, IInv, HoldersOpen, Open, stockVars
<1>2. CASE Admits(m.op, order.status)
  <2> DEFINE left == IF m.op = "CREATE" THEN Items
                     ELSE IF m.op = "SELL" THEN DOMAIN m.lines ELSE {}
             w == [NoWork EXCEPT !.op = m.op, !.wh = m.wh, !.lines = m.lines, !.of = of,
                                 !.seen = order.status, !.left = left]
  <2>1. Goto(t, FirstStep(m.op)) /\ work' = [work EXCEPT ![t] = w]
    BY <1>2 DEF Open
  <2>2. pc'[t] = FirstStep(m.op) /\ work'[t] = w
    BY <2>1 DEF UInv, IInv, Types, Goto
  <2>3. w.op = m.op /\ w.lines = m.lines /\ (m.op = "SELL" => w.left = DOMAIN m.lines)
    BY DEF NoWork
  <2>4. m.op \in Ops
    BY MenuAssumption
  <2> HIDE DEF w
  <2>5. pc'[t] \in {"reserve", "finish", "items", "number"}
        /\ (pc'[t] = "number" => m.op \in {"SELL", "INVOICE"})
    BY <2>2, <2>4 DEF FirstStep, Ops, Creating
  <2>6. \A r \in Rows : lock'[r] # t
    BY <1>1
  <2>7. StockOK(t)'
    BY <2>2, <2>3, <2>5, <2>6 DEF StockOK, Out
  <2>8. QED
    BY <1>1, <2>1, <2>7, StaysOffTheStock
<1>3. CASE ~Admits(m.op, order.status)
  <2>1. Goto(t, "rejected") /\ work' = [work EXCEPT ![t] = work[t]]
    BY <1>3 DEF Open, UInv, IInv, Types
  <2>2. pc'[t] = "rejected"
    BY <2>1 DEF UInv, IInv, Types, Goto
  <2>3. StockOK(t)'
    BY <1>1, <2>2, HoldsNothing
  <2>4. QED
    BY <1>1, <2>1, <2>3, StaysOffTheStock
<1>4. QED
  BY <1>2, <1>3

LEMMA LoadItemsOffTheStock ==
  ASSUME UInv, NEW t \in Requests, LoadItems(t)
  PROVE  \A u \in Requests : StockOK(u)'
<1> DEFINE left == CASE work[t].op = "CONFIRM" -> Items
                     [] work[t].op = "RETRY"   -> {i \in Items : order.reserved[i] < Quantity[i]}
                     [] OTHER -> DOMAIN work[t].lines
           w == [work[t] EXCEPT !.loaded = order.reserved, !.left = left]
           where == IF work[t].op = "DELIVER" THEN "prior" ELSE "reserve"
<1>1. pc[t] = "items" /\ Goto(t, where) /\ UNCHANGED << com, cur, lock >>
      /\ work' = [work EXCEPT ![t] = w]
  BY DEF LoadItems, stockVars, UInv, IInv, Types
<1>2. work[t] \in Work /\ \A r \in Rows : lock[r] # t
  BY <1>1 DEF UInv, IInv, Types, StockOK, NothingTaken
<1>3. w.op = work[t].op /\ w.lines = work[t].lines
      /\ (work[t].op = "DELIVER" => w.left = DOMAIN work[t].lines)
  BY <1>2 DEF Work
<1>4. pc'[t] = where /\ work'[t] = w
  BY <1>1 DEF UInv, IInv, Types, Goto
<1> HIDE DEF w
<1>5. StockOK(t)'
  BY <1>1, <1>2, <1>3, <1>4 DEF StockOK, Out, Reserving, NothingTaken
<1>6. QED
  BY <1>1, <1>5, StaysOffTheStock

\* A reservation leaves what is on the shelf.
LEMMA ReserveLeavesTheShelf ==
  ASSUME UInv, NEW t \in Requests, NEW i \in Items, pc[t] \in Reserving, IsNextItem(t, i),
         NEW q, Reserve(t, i, q)
  PROVE  \A u \in Requests : StockOK(u)'
<1>0. PICK r \in Rows : r = Row(t, i)
  BY NextItem DEF UInv
<1> DEFINE v == Shift(Seen(t, r), "RESERVE", q)
           w == [work[t] EXCEPT !.got[i] = q, !.left = work[t].left \ {i}]
<1>1. /\ IsOpen(t) /\ work[t] \in Work /\ r \in Rows /\ Seen(t, r) = com[r]
      /\ com[r].onHand \in Nat /\ StockOK(t)
  BY <1>0, NextItem DEF UInv, Units2
<1>2. Write(t, r, v) /\ Goto(t, "reserve") /\ work' = [work EXCEPT ![t] = w]
  BY <1>0 DEF Reserve, UInv, IInv, Types
<1>3. v.onHand = com[r].onHand
  BY <1>1 DEF Shift, OnHandDelta, ReservedMovements
<1>4. w.op = work[t].op /\ w.wh = work[t].wh
  BY <1>1 DEF Work
<1>5. /\ pc'[t] = "reserve" /\ work'[t] = w /\ com' = com
      /\ cur' = [cur EXCEPT ![r] = v] /\ lock' = [lock EXCEPT ![r] = t]
  BY <1>2 DEF UInv, IInv, Types, Goto, Write
<1> HIDE DEF w, v
<1>6. \A s \in Rows : lock'[s] = t => s[2] = work[t].wh
  <2>1. r[2] = work[t].wh
    BY <1>0 DEF Row
  <2>2. QED
    BY <1>1, <1>5, <2>1 DEF StockOK, UInv, IInv, Types, TypeOK
<1>7. \A s \in Rows : Out(t, s)' = 0
  <2>1. \A s \in Rows \ {r} : Out(t, s)' = Out(t, s)
    BY <1>5 DEF Out, UInv, IInv, Types, TypeOK
  <2>2. Out(t, r)' = 0
    <3>1. cur'[r] = v /\ com'[r] = com[r]
      BY <1>1, <1>5 DEF UInv, IInv, Types, TypeOK
    <3>2. com'[r].onHand = cur'[r].onHand /\ cur'[r].onHand \in Int
      BY <1>1, <1>3, <3>1
    <3>3. com'[r].onHand - cur'[r].onHand = 0
      BY ONLY <3>2
    <3>4. Out(t, r)' = IF lock'[r] = t THEN com'[r].onHand - cur'[r].onHand ELSE 0
      BY DEF Out
    <3>5. QED
      BY ONLY <3>3, <3>4
  <2>3. \A s \in Rows : Out(t, s) = 0
    BY <1>1 DEF StockOK
  <2>4. QED
    BY <2>1, <2>2, <2>3
<1>8. StockOK(t)'
  BY <1>4, <1>5, <1>6, <1>7 DEF StockOK, NothingTaken
<1>9. QED
  BY <1>1, <1>2, <1>8, WritesAlone

\* An item is left out, or what is available of it is noted.
LEMMA ReservingOffTheStock ==
  ASSUME UInv, NEW t \in Requests, pc[t] \in Reserving, NEW where \in Reserving, Goto(t, where),
         NEW w, w.wh = work[t].wh, work' = [work EXCEPT ![t] = w], UNCHANGED << com, cur, lock >>
  PROVE  \A u \in Requests : StockOK(u)'
<1>1. pc'[t] = where /\ work'[t] = w
  BY DEF UInv, IInv, Types, Goto
<1>2. \A r \in Rows : Out(t, r)' = Out(t, r)
  BY DEF Out
<1>3. where \notin NothingTaken \cup {"issue", "prior", "number"}
  BY DEF Reserving, NothingTaken
<1>4. StockOK(t)'
  BY <1>1, <1>2, <1>3 DEF StockOK, UInv
<1>5. QED
  BY <1>4, StaysOffTheStock

\* What is still to be issued is all of the request's lines, and nothing has left.
LEMMA TakeNumberOffTheStock ==
  ASSUME UInv, NEW t \in Requests, TakeNumber(t)
  PROVE  \A u \in Requests : StockOK(u)'
<1> DEFINE where == IF work[t].op = "INVOICE" THEN "insert" ELSE "issue"
<1>1. pc[t] = "number" /\ Goto(t, where) /\ UNCHANGED << com, cur, lock, work >>
  BY DEF TakeNumber
<1>2. pc'[t] = where /\ work' = [work EXCEPT ![t] = work[t]]
  BY <1>1 DEF UInv, IInv, Types, Goto
<1>3. /\ \A r \in Rows : lock[r] # t
      /\ work[t].op # "INVOICE" => work[t].left = DOMAIN work[t].lines
      /\ work[t].wh \in Warehouses
  BY <1>1 DEF UInv, StockOK, NothingTaken, IInv, RequestOK, IsOpen, Ended
<1>4. CASE work[t].op = "INVOICE"
  <2>1. StockOK(t)'
    BY <1>1, <1>2, <1>3, <1>4, HoldsNothing
  <2>2. QED
    BY <1>1, <1>2, <2>1, StaysOffTheStock
<1>5. CASE work[t].op # "INVOICE"
  <2>1. ASSUME NEW i \in Items
        PROVE  Out(t, Row(t, i))' = 0 /\ Put(t, Row(t, i))' = 0 /\ Issued(t, i)' = 0
    <3>1. Row(t, i) \in Rows /\ Row(t, i)' = Row(t, i)
      BY <1>1, <1>3 DEF Row, Rows
    <3>2. LinesOf(t, i) \ work[t].left = {}
      BY <1>3, <1>5 DEF LinesOf
    <3>3. Issued(t, i) = 0
      BY <3>2, TotalEmpty DEF Issued
    <3>4. Issued(t, i)' = Issued(t, i)
      BY <1>1 DEF Issued, Qty, LinesOf
    <3>5. QED
      BY <1>1, <1>3, <3>1, <3>3, <3>4 DEF Out, Put
  <2>2. StockOK(t)'
    BY <1>1, <1>2, <1>3, <1>5, <2>1 DEF StockOK, Reserving, NothingTaken
  <2>3. QED
    BY <1>1, <1>2, <2>2, StaysOffTheStock
<1>6. QED
  BY <1>4, <1>5
-----------------------------------------------------------------------------
\* A line that is issued counts among the lines of its item and of no other.
LEMMA OneLineMore ==
  ASSUME IInv, NEW t \in Requests, NEW k \in DOMAIN work[t].lines, k \in work[t].left,
         NEW w, work' = [work EXCEPT ![t] = w], w.lines = work[t].lines,
         w.left = work[t].left \ {k}, NEW i \in Items
  PROVE  Issued(t, i)' = Issued(t, i)
                         + (IF work[t].lines[k].item = i THEN work[t].lines[k].qty ELSE 0)
<1>1. work'[t] = w
  BY DEF IInv, Types
<1>2. PICK q, S, T : /\ q = Qty(t) /\ S = LinesOf(t, i) \ work[t].left
                     /\ T = LinesOf(t, i) \ (work[t].left \ {k})
  OBVIOUS
<1>3. Issued(t, i) = Total(q, S) /\ Issued(t, i)' = Total(q, T)
  <2>1. Qty(t)' = q /\ (LinesOf(t, i) \ work[t].left)' = T
    BY <1>1, <1>2 DEF Qty, LinesOf
  <2>2. QED
    BY <1>2, <2>1 DEF Issued
<1>4. IsFiniteSet(T) /\ IsFiniteSet(S) /\ \A j \in T : q[j] \in Int
  BY <1>2, LinesFacts, FS_Subset
<1>5. CASE work[t].lines[k].item = i
  <2>1. k \in T /\ S = T \ {k}
    BY <1>2, <1>5 DEF LinesOf
  <2>2. Total(q, T) = q[k] + Total(q, S)
    BY <1>4, <2>1, TotalRemove
  <2>3. q[k] = work[t].lines[k].qty /\ q[k] \in Int
    BY <1>2, LinesFacts
  <2>4. Total(q, S) \in Int
    BY <1>3, IssuedType
  <2>5. QED
    BY <1>3, <1>5, <2>2, <2>3, <2>4
<1>6. CASE work[t].lines[k].item # i
  <2>1. S = T
    BY <1>2, <1>6 DEF LinesOf
  <2>2. Total(q, S) \in Int
    BY <1>3, IssuedType
  <2>3. QED
    BY <1>3, <1>6, <2>1, <2>2
<1>7. QED
  BY <1>5, <1>6

\* What a line takes off the shelf of its item is what it says, and a delivery
\* takes it out of what is reserved.
LEMMA IssueLineTakes ==
  ASSUME UInv, NEW t \in Requests, NEW k \in work[t].left, IssueLine(t, k)
  PROVE  \A u \in Requests : StockOK(u)'
<1>1. /\ pc[t] = "issue" /\ IsOpen(t) /\ work[t] \in Work /\ StockOK(t)
      /\ work[t].wh \in Warehouses /\ work[t].op \in {"DELIVER", "SELL"}
      /\ k \in DOMAIN work[t].lines
  BY Facts DEF UInv, IssueLine, IsOpen, Ended, RequestOK
<1>2. PICK l \in Line, kind \in {"ISSUE", "DIRECT_ISSUE"}, r \in Rows :
         /\ l = work[t].lines[k] /\ r = Row(t, l.item)
         /\ kind = IF work[t].op = "DELIVER" THEN "ISSUE" ELSE "DIRECT_ISSUE"
  <2>1. work[t].lines[k] \in Line
    BY <1>1, LinesFacts DEF UInv
  <2>2. Row(t, work[t].lines[k].item) \in Rows
    BY <1>1, <2>1 DEF Row, Rows, Line
  <2>3. QED
    BY <2>1, <2>2
<1> DEFINE v == Shift(Seen(t, r), kind, l.qty)
           w == [work[t] EXCEPT !.left = work[t].left \ {k}]
<1>3. CASE Reject(t)
  <2>1. /\ Goto(t, "rejected") /\ work' = [work EXCEPT ![t] = NoWork] /\ lock' = Unlocked(t)
        /\ \A s \in Rows : lock[s] # t => cur'[s] = cur[s] /\ com'[s] = com[s]
    BY <1>3 DEF Reject
  <2>2. QED
    BY <2>1, EndsWithNothing DEF Ended
<1>4. CASE Write(t, r, v) /\ work' = [work EXCEPT ![t].left = @ \ {k}] /\ UNCHANGED pc
  <2>1. Goto(t, "issue") /\ work' = [work EXCEPT ![t] = w]
    BY <1>1, <1>4 DEF Goto, UInv, IInv, Types
  <2>2. w.op = work[t].op /\ w.wh = work[t].wh /\ w.lines = work[t].lines
        /\ w.left = work[t].left \ {k}
    BY <1>1 DEF Work
  <2>3. /\ pc'[t] = "issue" /\ work'[t] = w /\ com' = com
        /\ cur' = [cur EXCEPT ![r] = v] /\ lock' = [lock EXCEPT ![r] = t]
        /\ lock[r] \in {Nobody, t}
    BY <1>1, <1>4, <2>1 DEF UInv, IInv, Types, Write, Free
  <2> HIDE DEF w
  <2>4. Write(t, r, v)
    BY <1>4
  <2>5. /\ l.qty \in Nat /\ l.item \in Items /\ com[r] \in Units2 /\ cur[r] \in Units2
        /\ Seen(t, r) \in Units2
    BY <1>2, Facts DEF UInv, Line, IInv, Types, TypeOK, Units2
  <2>6. /\ v.onHand = Seen(t, r).onHand - l.qty
        /\ v.reserved = IF work[t].op = "DELIVER" THEN Seen(t, r).reserved - l.qty
                        ELSE Seen(t, r).reserved
    BY <1>2, <2>5 DEF Shift, OnHandDelta, ReservedDelta, QtyDelta, ReservedMovements, Units2
  <2>7. Out(t, r) = com[r].onHand - Seen(t, r).onHand
        /\ Put(t, r) = Seen(t, r).reserved - com[r].reserved
    BY <2>5 DEF Out, Put, Seen, Units2
  <2> HIDE DEF v
  <2>8. lock'[r] = t /\ cur'[r] = v
    BY <2>3 DEF UInv, IInv, Types, TypeOK
  <2>9. /\ Out(t, r)' = Out(t, r) + l.qty
        /\ Put(t, r)' = IF work[t].op = "DELIVER" THEN Put(t, r) - l.qty ELSE Put(t, r)
    <3>1. Out(t, r)' = com[r].onHand - v.onHand /\ Put(t, r)' = v.reserved - com[r].reserved
      BY <2>3, <2>8 DEF Out, Put
    <3>2. /\ com[r].onHand \in Int /\ Seen(t, r).onHand \in Int /\ l.qty \in Int
          /\ com[r].reserved \in Int /\ Seen(t, r).reserved \in Int
      BY <2>5 DEF Units2
    <3>3. QED
      BY <2>6, <2>7, <3>1, <3>2
  <2>10. \A s \in Rows \ {r} : Out(t, s)' = Out(t, s) /\ Put(t, s)' = Put(t, s)
    BY <2>3 DEF Out, Put, UInv, IInv, Types, TypeOK
  <2>11. ASSUME NEW i \in Items
         PROVE  /\ Out(t, Row(t, i))' = Issued(t, i)'
                /\ Put(t, Row(t, i))' = IF work[t].op = "DELIVER" THEN -(Issued(t, i)') ELSE 0
    <3>1. PICK s \in Rows : s = Row(t, i) /\ (s = r <=> l.item = i)
      <4>1. Row(t, i) \in Rows
        BY <1>1 DEF Row, Rows
      <4>2. Row(t, i) = r <=> l.item = i
        BY <1>2 DEF Row
      <4>3. QED
        BY <4>1, <4>2
    <3>2. Row(t, i)' = s
      BY <2>2, <2>3, <3>1 DEF Row
    <3>3. Out(t, s) = Issued(t, i)
          /\ Put(t, s) = IF work[t].op = "DELIVER" THEN -Issued(t, i) ELSE 0
      BY <1>1, <3>1 DEF StockOK
    <3>4. Issued(t, i)' = Issued(t, i) + (IF l.item = i THEN l.qty ELSE 0)
      BY <1>1, <1>2, <2>1, <2>2, OneLineMore DEF UInv
    <3>5. Issued(t, i) \in Int /\ l.qty \in Int
      BY <2>5, IssuedType DEF UInv
    <3>6. Out(t, s)' = Issued(t, i)'
          /\ Put(t, s)' = IF work[t].op = "DELIVER" THEN -(Issued(t, i)') ELSE 0
      <4>1. CASE s = r
        BY <2>9, <3>1, <3>3, <3>4, <3>5, <4>1
      <4>2. CASE s # r
        BY <2>10, <3>1, <3>3, <3>4, <3>5, <4>2
      <4>3. QED
        BY <4>1, <4>2
    <3>7. QED
      BY <3>2, <3>6 DEF Out, Put
  <2>12. \A s \in Rows : lock'[s] = t => s[2] = work[t].wh
    <3>1. r[2] = work[t].wh
      BY <1>2 DEF Row
    <3>2. QED
      BY <1>1, <2>3, <3>1 DEF StockOK, UInv, IInv, Types, TypeOK
  <2>13. StockOK(t)'
    BY <2>2, <2>3, <2>11, <2>12 DEF StockOK, Reserving, NothingTaken
  <2>14. QED
    BY <2>1, <2>4, <2>13, WritesAlone
<1>5. QED
  BY <1>2, <1>3, <1>4 DEF IssueLine
-----------------------------------------------------------------------------
LEMMA InitUInv == Init => UInv
<1> SUFFICES ASSUME Init PROVE UInv
  OBVIOUS
<1>1. IInv /\ Counted
  BY InitIInv DEF Init, Counted
<1>2. \A t \in Requests : pc[t] = "idle" /\ \A r \in Rows : lock[r] # t
  BY RequestsAssumption DEF Init
<1>3. \A t \in Requests : StockOK(t)
  BY <1>2 DEF StockOK, Reserving, NothingTaken
<1>4. QED
  BY <1>1, <1>3 DEF UInv

\* A commit ends its request.
LEMMA CommitEnds ==
  ASSUME UInv, NEW t \in Requests, CommitStock(t), Goto(t, "done"),
         work' = [work EXCEPT ![t] = NoWork]
  PROVE  \A u \in Requests : StockOK(u)'
<1>1. /\ lock' = Unlocked(t)
      /\ \A r \in Rows : lock[r] # t => cur'[r] = cur[r] /\ com'[r] = com[r]
  BY DEF CommitStock
<1>2. QED
  BY <1>1, EndsWithNothing DEF Ended

LEMMA NextStockOK ==
  ASSUME UInv, [Next]_vars
  PROVE  \A u \in Requests : StockOK(u)'
<1> DEFINE AllOK == \A u \in Requests : StockOK(u)
<1> SUFFICES AllOK'
  OBVIOUS
<1>1. ASSUME NEW t \in Requests, NEW m \in Menu, NEW of \in Requests \cup {Nobody}, Open(t, m, of)
      PROVE  AllOK'
  BY <1>1, OpenOffTheStock
<1>2. ASSUME NEW t \in Requests, LoadItems(t) PROVE AllOK'
  BY <1>2, LoadItemsOffTheStock
<1>3. ASSUME NEW t \in Requests, NEW i \in Items, ReserveFull(t, i) PROVE AllOK'
  <2>1. pc[t] \in Reserving /\ IsNextItem(t, i)
    BY <1>3 DEF ReserveFull, Reserving
  <2>2. CASE Reserve(t, i, Want(t, i))
    <3>1. PICK q : q = Want(t, i)
      OBVIOUS
    <3>2. QED
      BY <2>1, <2>2, <3>1, ReserveLeavesTheShelf
  <2>3. CASE Goto(t, "avail") /\ UNCHANGED << stockVars, work >>
    <3>1. work' = [work EXCEPT ![t] = work[t]] /\ UNCHANGED << com, cur, lock >>
      BY <2>3 DEF UInv, IInv, Types, stockVars
    <3>2. QED
      BY <2>1, <2>3, <3>1, ReservingOffTheStock DEF Reserving
  <2>4. QED
    BY <1>3, <2>2, <2>3 DEF ReserveFull
<1>4. ASSUME NEW t \in Requests, NEW i \in Items, ReadAvailable(t, i) PROVE AllOK'
  <2>1. pc[t] \in Reserving /\ UNCHANGED << com, cur, lock >> /\ work[t] \in Work
    BY <1>4 DEF ReadAvailable, Reserving, stockVars, UInv, IInv, Types
  <2>2. PICK where, w : /\ where \in Reserving /\ Goto(t, where) /\ w.wh = work[t].wh
                        /\ work' = [work EXCEPT ![t] = w]
    <3>1. CASE /\ work' = [work EXCEPT ![t].left = @ \ {i}] /\ Goto(t, "reserve")
      <4>1. work' = [work EXCEPT ![t] = [work[t] EXCEPT !.left = work[t].left \ {i}]]
            /\ [work[t] EXCEPT !.left = work[t].left \ {i}].wh = work[t].wh
        BY <2>1, <3>1 DEF UInv, IInv, Types, Work
      <4>2. QED
        BY <3>1, <4>1 DEF Reserving
    <3>2. ASSUME NEW n, work' = [work EXCEPT ![t].avail = n], Goto(t, "rest")
          PROVE  \E where, w : /\ where \in Reserving /\ Goto(t, where) /\ w.wh = work[t].wh
                               /\ work' = [work EXCEPT ![t] = w]
      <4>1. work' = [work EXCEPT ![t] = [work[t] EXCEPT !.avail = n]]
            /\ [work[t] EXCEPT !.avail = n].wh = work[t].wh
        BY <2>1, <3>2 DEF UInv, IInv, Types, Work
      <4>2. QED
        BY <3>2, <4>1 DEF Reserving
    <3>3. QED
      BY <1>4, <3>1, <3>2 DEF ReadAvailable
  <2>3. QED
    BY <2>1, <2>2, ReservingOffTheStock
<1>5. ASSUME NEW t \in Requests, NEW i \in Items, ReserveRest(t, i) PROVE AllOK'
  <2>1. pc[t] \in Reserving /\ IsNextItem(t, i) /\ work[t] \in Work
    BY <1>5 DEF ReserveRest, Reserving, UInv, IInv, Types
  <2>2. CASE Reserve(t, i, work[t].avail)
    <3>1. PICK q : q = work[t].avail
      OBVIOUS
    <3>2. QED
      BY <2>1, <2>2, <3>1, ReserveLeavesTheShelf
  <2>3. CASE work' = [work EXCEPT ![t].left = @ \ {i}] /\ Goto(t, "reserve") /\ UNCHANGED stockVars
    <3> DEFINE w == [work[t] EXCEPT !.left = work[t].left \ {i}]
    <3>1. work' = [work EXCEPT ![t] = w] /\ w.wh = work[t].wh /\ UNCHANGED << com, cur, lock >>
      BY <2>1, <2>3 DEF UInv, IInv, Types, Work, stockVars
    <3> HIDE DEF w
    <3>2. QED
      BY <2>1, <2>3, <3>1, ReservingOffTheStock DEF Reserving
  <2>4. QED
    BY <1>5, <2>2, <2>3 DEF ReserveRest
<1>6. ASSUME NEW t \in Requests, Reject(t) PROVE AllOK'
  <2>1. /\ Goto(t, "rejected") /\ work' = [work EXCEPT ![t] = NoWork] /\ lock' = Unlocked(t)
        /\ \A s \in Rows : lock[s] # t => cur'[s] = cur[s] /\ com'[s] = com[s]
    BY <1>6 DEF Reject
  <2>2. QED
    BY <2>1, EndsWithNothing DEF Ended
<1>7. ASSUME NEW t \in Requests, LoadPrior(t) PROVE AllOK'
  <2>1. CASE Goto(t, "number") /\ UNCHANGED << stockVars, work >>
    <3>1. /\ work' = [work EXCEPT ![t] = work[t]] /\ UNCHANGED << com, cur, lock, work >>
          /\ pc'[t] = "number" /\ pc[t] = "prior"
      BY <1>7, <2>1 DEF LoadPrior, UInv, IInv, Types, stockVars, Goto
    <3>2. StockOK(t)'
      BY <3>1 DEF UInv, StockOK, NothingTaken, Reserving
    <3>3. QED
      BY <2>1, <3>1, <3>2, StaysOffTheStock
  <2>2. QED
    BY <1>6, <1>7, <2>1 DEF LoadPrior
<1>8. ASSUME NEW t \in Requests, TakeNumber(t) PROVE AllOK'
  BY <1>8, TakeNumberOffTheStock
<1>9. ASSUME NEW t \in Requests, NEW k \in work[t].left, IssueLine(t, k) PROVE AllOK'
  BY <1>9, IssueLineTakes
<1>10. ASSUME NEW t \in Requests,
              FinishReservation(t) \/ FinishQuote(t) \/ FinishDelivery(t) \/ FinishSale(t)
              \/ FinishInvoice(t)
       PROVE  AllOK'
  <2>1. CommitStock(t) /\ Goto(t, "done") /\ work' = [work EXCEPT ![t] = NoWork]
    BY <1>10 DEF FinishReservation, FinishQuote, FinishDelivery, FinishSale, FinishInvoice
  <2>2. QED
    BY <2>1, CommitEnds
<1>11. ASSUME NEW t \in Requests, InsertInvoice(t) \/ ReadDeliveries(t) PROVE AllOK'
  <2>1. CASE Reject(t)
    BY <1>6, <2>1
  <2>2. CASE ~Reject(t)
    <3>1. pc[t] \in {"insert", "all"} /\ UNCHANGED << com, cur, lock >>
          /\ \E where \in {"all", "finish"} : Goto(t, where)
      BY <1>11, <2>2 DEF InsertInvoice, ReadDeliveries, stockVars
    <3>2. PICK w : work' = [work EXCEPT ![t] = w]
      <4>1. InsertInvoice(t) => work' = [work EXCEPT ![t] = work[t]]
        BY <2>2 DEF InsertInvoice, UInv, IInv, Types
      <4>2. ReadDeliveries(t) => work' = [work EXCEPT ![t] = [work[t] EXCEPT !.all = deliveries]]
        BY DEF ReadDeliveries, UInv, IInv, Types
      <4>3. QED
        BY <1>11, <4>1, <4>2
    <3>3. \A r \in Rows : lock'[r] # t
      BY <3>1 DEF UInv, StockOK, NothingTaken
    <3>4. PICK where \in {"all", "finish"} : Goto(t, where)
      BY <3>1
    <3>5. pc'[t] = where
      BY <3>4 DEF Goto, UInv, IInv, Types
    <3>6. StockOK(t)'
      BY <3>3, <3>5, HoldsNothing
    <3>7. QED
      BY <3>1, <3>2, <3>4, <3>6, StaysOffTheStock
  <2>3. QED
    BY <2>1, <2>2
<1>12. ASSUME NEW r \in Rows, Restock(r) PROVE AllOK'
  <2>1. /\ UNCHANGED << lock, pc, work >> /\ lock[r] = Nobody
        /\ \A s \in Rows : lock[s] # Nobody => com'[s] = com[s] /\ cur'[s] = cur[s]
    BY <1>12 DEF Restock, UInv, IInv, Types, TypeOK
  <2>2. \A u \in Requests \ {Nobody} : StockOK(u)'
    BY <2>1, RequestsAssumption, OthersKeepStock
  <2>3. QED
    BY <2>2, RequestsAssumption
<1>13. CASE UNCHANGED vars
  BY <1>13 DEF vars, stockVars, UInv, StockOK, Out, Put, Issued, Qty, LinesOf, Row
<1>14. QED
  BY <1>1, <1>2, <1>3, <1>4, <1>5, <1>6, <1>7, <1>8, <1>9, <1>10, <1>11, <1>12, <1>13
     DEF Next, Step, Finished, Lose, FailReservation

\* Only a commit or a receipt changes what is counted as stock, shipped or sold.
LEMMA CountingSteps ==
  ASSUME [Next]_vars
  PROVE  \/ UNCHANGED << com, delivered, sold, restock >>
         \/ \E t \in Requests : FinishReservation(t) \/ FinishQuote(t) \/ FinishInvoice(t)
         \/ \E t \in Requests : FinishDelivery(t) \/ FinishSale(t)
         \/ \E r \in Rows : Restock(r)
<1> DEFINE Still == UNCHANGED << com, delivered, sold, restock >>
<1>1. ASSUME NEW t \in Requests, NEW m \in Menu, NEW of \in Requests \cup {Nobody}, Open(t, m, of)
      PROVE  Still
  BY <1>1 DEF Open, orderVars, stockVars, history
<1>2. ASSUME NEW t, Reject(t) PROVE Still
  BY <1>2 DEF Reject, orderVars, history
<1>3. ASSUME NEW t \in Requests, LoadItems(t) \/ LoadPrior(t) \/ TakeNumber(t) PROVE Still
  BY <1>2, <1>3 DEF LoadItems, LoadPrior, TakeNumber, orderVars, stockVars, history
<1>4. ASSUME NEW t \in Requests, NEW i \in Items,
             ReserveFull(t, i) \/ ReadAvailable(t, i) \/ ReserveRest(t, i)
      PROVE  Still
  BY <1>4 DEF ReserveFull, ReadAvailable, ReserveRest, Reserve, Write, orderVars, stockVars, history
<1>5. ASSUME NEW t \in Requests, NEW k \in work[t].left, IssueLine(t, k) PROVE Still
  BY <1>2, <1>5 DEF IssueLine, Write, orderVars, history
<1>6. ASSUME NEW t \in Requests, InsertInvoice(t) \/ ReadDeliveries(t) PROVE Still
  BY <1>2, <1>6 DEF InsertInvoice, ReadDeliveries, orderVars, stockVars, history
<1>7. CASE UNCHANGED vars
  BY <1>7 DEF vars, orderVars, stockVars, history
<1>8. QED
  BY <1>1, <1>2, <1>3, <1>4, <1>5, <1>6, <1>7 DEF Next, Step, Finished, Lose, FailReservation

LEMMA NextUInv == UInv /\ [Next]_vars => UInv'
<1> SUFFICES ASSUME UInv, [Next]_vars PROVE UInv'
  OBVIOUS
<1>1. IInv' /\ \A u \in Requests : StockOK(u)'
  BY NextIInv, NextStockOK DEF UInv
<1>2. CASE UNCHANGED << delivered, sold >>
  BY <1>1, <1>2 DEF UInv, Counted
<1>3. ASSUME NEW t \in Requests, FinishDelivery(t) \/ FinishSale(t) PROVE Counted'
  <2>1. \A i \in Items : OnLines(t, i) \in Int
    BY OnLinesIsTotal DEF UInv
  <2>2. QED
    BY <1>3, <2>1 DEF FinishDelivery, FinishSale, orderVars, UInv, Counted
<1>4. ASSUME NEW t \in Requests, FinishReservation(t) \/ FinishQuote(t) \/ FinishInvoice(t)
      PROVE  UNCHANGED << delivered, sold >>
  BY <1>4 DEF FinishReservation, FinishQuote, FinishInvoice, history
<1>5. ASSUME NEW r \in Rows, Restock(r) PROVE UNCHANGED << delivered, sold >>
  BY <1>5 DEF Restock, orderVars
<1>6. QED
  BY <1>1, <1>2, <1>3, <1>4, <1>5, CountingSteps DEF UInv
-----------------------------------------------------------------------------
\* The units of the model as two totals.
Shelf == [r \in Rows |-> com[r].onHand]
Away == [i \in Items |-> delivered[i] + sold[i]]

LEMMA RowsFinite == IsFiniteSet(Rows) /\ IsFiniteSet(Items)
BY ItemsAssumption, FS_Product DEF Rows

LEMMA ShelfIsTotal ==
  (\A r \in Rows : Shelf[r] \in Int) =>
    MapThenSumSet(LAMBDA r : com[r].onHand, Rows) = Total(Shelf, Rows)
<1> SUFFICES ASSUME \A r \in Rows : Shelf[r] \in Int
             PROVE  MapThenSumSet(LAMBDA r : com[r].onHand, Rows) = Total(Shelf, Rows)
  OBVIOUS
<1> DEFINE Body(g, T) == IF T = {} THEN 0
             ELSE com[CHOOSE x \in T : TRUE].onHand + g[T \ {CHOOSE x \in T : TRUE}]
           Over(g, T) == IF T = {} THEN 0
             ELSE Shelf[CHOOSE x \in T : TRUE] + g[T \ {CHOOSE x \in T : TRUE}]
           g == CHOOSE g : g = [T \in SUBSET Rows |-> Body(g, T)]
<1>1. IsFiniteSet(Rows)
  BY RowsFinite
<1>2. \A k : IsSum(k, Shelf, Rows) <=> k = [T \in SUBSET Rows |-> Body(k, T)]
  <2>1. ASSUME NEW k, NEW T \in SUBSET Rows PROVE Body(k, T) = Over(k, T)
    <3>1. T # {} => (CHOOSE x \in T : TRUE) \in Rows
      OBVIOUS
    <3>2. QED
      BY <3>1 DEF Shelf
  <2>2. \A k : IsSum(k, Shelf, Rows) <=> k = [T \in SUBSET Rows |-> Over(k, T)]
    BY DEF IsSum
  <2> HIDE DEF Body, Over
  <2>3. ASSUME NEW k
        PROVE  [T \in SUBSET Rows |-> Over(k, T)] = [T \in SUBSET Rows |-> Body(k, T)]
    BY <2>1
  <2>4. QED
    BY <2>2, <2>3
<1>3. IsSum(g, Shelf, Rows)
  <2>1. \E k : IsSum(k, Shelf, Rows)
    BY <1>1, SumExists
  <2> HIDE DEF Body
  <2>2. QED
    BY <1>2, <2>1
<1>4. MapThenSumSet(LAMBDA r : com[r].onHand, Rows) = g[Rows]
  BY DEF MapThenSumSet, MapThenFoldSet
<1>5. QED
  <2> HIDE DEF g
  <2> QED BY <1>1, <1>3, <1>4, SumIsTotal

LEMMA AwayIsTotal ==
  (\A i \in Items : Away[i] \in Int) =>
    MapThenSumSet(LAMBDA i : delivered[i] + sold[i], Items) = Total(Away, Items)
<1> SUFFICES ASSUME \A i \in Items : Away[i] \in Int
             PROVE  MapThenSumSet(LAMBDA i : delivered[i] + sold[i], Items) = Total(Away, Items)
  OBVIOUS
<1> DEFINE Body(g, T) == IF T = {} THEN 0
             ELSE (delivered[CHOOSE x \in T : TRUE] + sold[CHOOSE x \in T : TRUE])
                  + g[T \ {CHOOSE x \in T : TRUE}]
           Over(g, T) == IF T = {} THEN 0
             ELSE Away[CHOOSE x \in T : TRUE] + g[T \ {CHOOSE x \in T : TRUE}]
           g == CHOOSE g : g = [T \in SUBSET Items |-> Body(g, T)]
<1>1. IsFiniteSet(Items)
  BY RowsFinite
<1>2. \A k : IsSum(k, Away, Items) <=> k = [T \in SUBSET Items |-> Body(k, T)]
  <2>1. ASSUME NEW k, NEW T \in SUBSET Items PROVE Body(k, T) = Over(k, T)
    <3>1. T # {} => (CHOOSE x \in T : TRUE) \in Items
      OBVIOUS
    <3>2. QED
      BY <3>1 DEF Away
  <2>2. \A k : IsSum(k, Away, Items) <=> k = [T \in SUBSET Items |-> Over(k, T)]
    BY DEF IsSum
  <2> HIDE DEF Body, Over
  <2>3. ASSUME NEW k
        PROVE  [T \in SUBSET Items |-> Over(k, T)] = [T \in SUBSET Items |-> Body(k, T)]
    BY <2>1
  <2>4. QED
    BY <2>2, <2>3
<1>3. IsSum(g, Away, Items)
  <2>1. \E k : IsSum(k, Away, Items)
    BY <1>1, SumExists
  <2> HIDE DEF Body
  <2>2. QED
    BY <1>2, <2>1
<1>4. MapThenSumSet(LAMBDA i : delivered[i] + sold[i], Items) = g[Items]
  BY DEF MapThenSumSet, MapThenFoldSet
<1>5. QED
  <2> HIDE DEF g
  <2> QED BY <1>1, <1>3, <1>4, SumIsTotal

UnitsTotal == /\ Units = Total(Shelf, Rows) + Total(Away, Items) - restock
              /\ Total(Shelf, Rows) \in Int /\ Total(Away, Items) \in Int

LEMMA UnitsAreTotals ==
  UInv => /\ UnitsTotal
          /\ \A r \in Rows : Shelf[r] \in Int /\ Shelf[r] = com[r].onHand
          /\ \A i \in Items : Away[i] \in Int /\ Away[i] = delivered[i] + sold[i]
          /\ restock \in Int
<1>1. UInv => /\ \A r \in Rows : Shelf[r] \in Int /\ Shelf[r] = com[r].onHand
              /\ \A i \in Items : Away[i] \in Int /\ Away[i] = delivered[i] + sold[i]
              /\ restock \in Int
  BY DEF UInv, Counted, IInv, Types, TypeOK, Shelf, Away
<1>2. UInv => Total(Shelf, Rows) \in Int /\ Total(Away, Items) \in Int
  <2>1. PICK f, g : f = Shelf /\ g = Away
    OBVIOUS
  <2>2. UInv => (\A r \in Rows : f[r] \in Int) /\ (\A i \in Items : g[i] \in Int)
    BY <1>1, <2>1
  <2>3. UInv => Total(f, Rows) \in Int /\ Total(g, Items) \in Int
    BY <2>2, RowsFinite, TotalType
  <2>4. QED
    BY <2>1, <2>3
<1>3. QED
  BY <1>1, <1>2, ShelfIsTotal, AwayIsTotal DEF Units, UnitsTotal

\* A receipt, or a commit that takes nothing off the shelf, moves no unit; one
\* that does counts it as shipped or sold.
LEMMA CommitMoves ==
  ASSUME UInv, NEW t \in Requests, pc[t] = "issue", work[t].left = {}, CommitStock(t),
         NEW away, \A i \in Items : away[i] = Away[i] + OnLines(t, i)
  PROVE  Total([r \in Rows |-> com'[r].onHand], Rows) + Total(away, Items)
           = Total(Shelf, Rows) + Total(Away, Items)
<1> DEFINE shelf == [r \in Rows |-> com'[r].onHand]
           m == [i \in Items |-> Row(t, i)]
<1>1. StockOK(t) /\ work[t].wh \in Warehouses
  BY DEF UInv, IInv, RequestOK, IsOpen, Ended
<1>2. \A r \in Rows : Shelf[r] \in Int /\ shelf[r] = Shelf[r] - Out(t, r) /\ Out(t, r) \in Int
  BY DEF CommitStock, Out, Shelf, UInv, IInv, Types, TypeOK
<1>3. m \in [Items -> Rows] /\ \A i, j \in Items : m[i] = m[j] => i = j
  BY <1>1 DEF Row, Rows
<1>4. \A i \in Items : Issued(t, i) = OnLines(t, i) /\ OnLines(t, i) \in Int
  <2>1. TAKE i \in Items
  <2>2. LinesOf(t, i) \ work[t].left = LinesOf(t, i)
    OBVIOUS
  <2>3. QED
    BY <2>2, OnLinesIsTotal DEF Issued, UInv
<1>5. \A i \in Items : Out(t, m[i]) = OnLines(t, i)
  BY <1>1, <1>4 DEF StockOK
<1>6. ASSUME NEW r \in Rows, \A i \in Items : m[i] # r PROVE Out(t, r) = 0
  <2>1. CASE lock[r] = t
    <3>1. r[2] = work[t].wh /\ r[1] \in Items
      BY <1>1, <2>1 DEF StockOK, Rows
    <3>2. r = m[r[1]]
      BY <3>1 DEF Rows, Row
    <3>3. QED
      BY <1>6, <3>1, <3>2
  <2>2. CASE lock[r] # t
    BY <2>2 DEF Out
  <2>3. QED
    BY <2>1, <2>2
<1>7. \A i \in Items : Away[i] \in Int
  BY DEF Away, UInv, Counted
<1>8. PICK f, f2, g, n : f = Shelf /\ f2 = shelf /\ g = Away /\ n = m
  OBVIOUS
<1> HIDE DEF shelf, m
<1>9. /\ \A r \in Rows : f[r] \in Int /\ f2[r] \in Int
      /\ \A i \in Items : g[i] \in Int /\ away[i] \in Int
      /\ n \in [Items -> Rows] /\ \A i, j \in Items : n[i] = n[j] => i = j
  BY <1>2, <1>3, <1>4, <1>7, <1>8
<1>10. \A i \in Items : f2[n[i]] + away[i] = f[n[i]] + g[i]
  <2>1. TAKE i \in Items
  <2>2. n[i] \in Rows
    BY <1>9
  <2>3. PICK o : o = OnLines(t, i)
    OBVIOUS
  <2>4. f2[n[i]] = f[n[i]] - o /\ away[i] = g[i] + o /\ o \in Int
    BY <1>2, <1>4, <1>5, <1>8, <2>2, <2>3
  <2>5. f[n[i]] \in Int /\ g[i] \in Int
    BY <1>9, <2>2
  <2>6. QED
    BY ONLY <2>4, <2>5
<1>11. \A r \in Rows : (\A i \in Items : n[i] # r) => f2[r] = f[r]
  <2>1. TAKE r \in Rows
  <2>2. HAVE \A i \in Items : n[i] # r
  <2>3. Out(t, r) = 0
    BY <1>6, <1>8, <2>2
  <2>4. QED
    BY <1>2, <1>8, <1>9, <2>3
<1>12. Total(f2, Rows) + Total(away, Items) = Total(f, Rows) + Total(g, Items)
  <2>1. IsFiniteSet(Rows) /\ IsFiniteSet(Items)
    BY RowsFinite
  <2> HIDE DEF Shelf, Away
  <2>2. QED
    BY ONLY <1>9, <1>10, <1>11, <2>1, TotalsMove
<1>13. QED
  BY <1>8, <1>12 DEF shelf

LEMMA ReceiptMoves ==
  ASSUME UInv, NEW r \in Rows, Restock(r)
  PROVE  Total([s \in Rows |-> com'[s].onHand], Rows) = Total(Shelf, Rows) + 1
<1>1. PICK f, h : f = Shelf /\ h = [s \in Rows |-> com'[s].onHand]
  OBVIOUS
<1>2. com' = [com EXCEPT ![r].onHand = @ + 1]
  BY DEF Restock
<1>3. \A s \in Rows : f[s] = com[s].onHand /\ f[s] \in Int
  BY <1>1 DEF Shelf, UInv, IInv, Types, TypeOK
<1>4. \A s \in Rows \ {r} : h[s] = f[s]
  BY <1>1, <1>2 DEF Shelf, UInv, IInv, Types, TypeOK
<1>5. h[r] = f[r] + 1
  BY <1>1, <1>2 DEF Shelf, UInv, IInv, Types, TypeOK
<1>6. \A s \in Rows : f[s] \in Int /\ h[s] \in Int
  <2>1. f[r] + 1 \in Int
    BY <1>3
  <2>2. QED
    BY <1>3, <1>4, <1>5, <2>1
<1>7. Total(h, Rows) = Total(f, Rows) + (h[r] - f[r])
  <2>1. IsFiniteSet(Rows)
    BY RowsFinite
  <2>2. QED
    BY ONLY <1>4, <1>6, <2>1, r \in Rows, TotalChange
<1>8. Total(f, Rows) \in Int /\ h[r] - f[r] = 1
  <2>1. Total(f, Rows) \in Int
    BY <1>3, RowsFinite, TotalType
  <2>2. QED
    BY <1>3, <1>5, <2>1
<1>9. QED
  BY <1>1, <1>7, <1>8

LEMMA UnitsStep == UInv /\ UInv' /\ [Next]_vars => Units' = Units
<1> SUFFICES ASSUME UInv, UInv', [Next]_vars PROVE Units' = Units
  OBVIOUS
<1>1. /\ Units = Total(Shelf, Rows) + Total(Away, Items) - restock
      /\ Units' = Total(Shelf', Rows) + Total(Away', Items) - restock'
      /\ Total(Shelf, Rows) \in Int /\ Total(Away, Items) \in Int /\ restock \in Int
      /\ Total(Shelf', Rows) \in Int /\ Total(Away', Items) \in Int
  <2>1. UnitsTotal'
    BY UnitsAreTotals, PTL
  <2>2. QED
    BY <2>1, UnitsAreTotals DEF UnitsTotal
<1>2. Shelf' = [r \in Rows |-> com'[r].onHand]
      /\ Away' = [i \in Items |-> delivered'[i] + sold'[i]]
  BY DEF Shelf, Away
<1>3. CASE Shelf' = Shelf /\ UNCHANGED << delivered, sold, restock >>
  BY <1>1, <1>2, <1>3 DEF Away
<1>4. CASE UNCHANGED << com, delivered, sold, restock >>
  BY <1>2, <1>3, <1>4 DEF Shelf
<1>5. ASSUME NEW t \in Requests, FinishReservation(t) \/ FinishQuote(t) \/ FinishInvoice(t)
      PROVE  Units' = Units
  <2>1. CommitStock(t) /\ UNCHANGED << delivered, sold, restock >>
        /\ pc[t] \in Reserving \cup NothingTaken
    BY <1>5 DEF FinishReservation, FinishQuote, FinishInvoice, history, Reserving, NothingTaken
  <2>2. \A r \in Rows : Out(t, r) = 0
    BY <2>1 DEF UInv, StockOK, Out
  <2>3. \A r \in Rows : com'[r].onHand = com[r].onHand
    <3>1. TAKE r \in Rows
    <3>2. com[r].onHand \in Int /\ cur[r].onHand \in Int
      BY DEF UInv, IInv, Types, TypeOK
    <3>3. com'[r] = IF lock[r] = t THEN cur[r] ELSE com[r]
      BY <2>1 DEF CommitStock
    <3>4. lock[r] = t => com[r].onHand - cur[r].onHand = 0
      BY <2>2 DEF Out
    <3>5. QED
      BY ONLY <3>2, <3>3, <3>4
  <2>4. Shelf' = Shelf
    BY <1>2, <2>3 DEF Shelf
  <2>5. QED
    BY <1>3, <2>1, <2>4
<1>6. ASSUME NEW t \in Requests, FinishDelivery(t) \/ FinishSale(t) PROVE Units' = Units
  <2>1. CommitStock(t) /\ restock' = restock /\ pc[t] = "issue" /\ work[t].left = {}
    BY <1>6 DEF FinishDelivery, FinishSale
  <2>2. \A i \in Items : OnLines(t, i) \in Int /\ delivered[i] \in Int /\ sold[i] \in Int
    BY OnLinesIsTotal DEF UInv, Counted
  <2>3. ASSUME NEW i \in Items PROVE delivered'[i] + sold'[i] = Away[i] + OnLines(t, i)
    <3>1. \/ delivered'[i] = delivered[i] + OnLines(t, i) /\ sold'[i] = sold[i]
          \/ sold'[i] = sold[i] + OnLines(t, i) /\ delivered'[i] = delivered[i]
      BY <1>6 DEF FinishDelivery, FinishSale, orderVars
    <3>2. QED
      BY <2>2, <3>1 DEF Away
  <2>4. PICK away : away = Away'
    OBVIOUS
  <2>5. \A i \in Items : away[i] = Away[i] + OnLines(t, i)
    BY <1>2, <2>3, <2>4
  <2>6. Total(Shelf', Rows) + Total(away, Items) = Total(Shelf, Rows) + Total(Away, Items)
    BY <1>2, <2>1, <2>5, CommitMoves
  <2>7. PICK x, y, z, w : /\ x = Total(Shelf', Rows) /\ y = Total(away, Items)
                          /\ z = Total(Shelf, Rows) /\ w = Total(Away, Items)
    OBVIOUS
  <2>8. y = Total(Away', Items)
    BY ONLY <2>4, <2>7
  <2>9. /\ Units' = x + y - restock /\ Units = z + w - restock
        /\ x \in Int /\ y \in Int /\ z \in Int /\ w \in Int /\ restock \in Int
    BY <1>1, <2>1, <2>7, <2>8
  <2>10. x + y = z + w
    BY ONLY <2>6, <2>7
  <2>11. QED
    BY ONLY <2>9, <2>10
<1>7. ASSUME NEW r \in Rows, Restock(r) PROVE Units' = Units
  <2>1. restock' = restock + 1 /\ Away' = Away
    BY <1>7 DEF Restock, orderVars, Away
  <2>2. Total(Shelf', Rows) = Total(Shelf, Rows) + 1
    BY <1>2, <1>7, ReceiptMoves
  <2>3. QED
    BY <1>1, <2>1, <2>2
<1>8. QED
  BY <1>4, <1>5, <1>6, <1>7, CountingSteps

\* Units are conserved by every commit of every request, whatever overlaps: what
\* leaves the rows is what the delivery's or the sale's lines say, also if a line
\* repeats an item.
THEOREM UnitsAreConserved == Spec => UnitsConserved
<1>1. UInv /\ UInv' /\ [Next]_vars => [Units' = Units]_vars
  BY UnitsStep
<1>2. Spec => []UInv
  BY InitUInv, NextUInv, PTL DEF Spec
<1>3. QED
  BY <1>1, <1>2, PTL DEF Spec, UnitsConserved
-----------------------------------------------------------------------------
\* What a delivery must be like to take nobody else's reservation: from the
\* warehouse that holds the order's, and each item on one line.
SingleWarehouse == \A v, w \in Warehouses : v = w
LinesApart(lines) == \A j, k \in DOMAIN lines : lines[j].item = lines[k].item => j = k
DeliveriesApart == \A m \in Menu : m.op = "DELIVER" => LinesApart(m.lines)

\* The stock holds for the order what the order says.
HeldIsReserved == \A r \in Rows : held[r] = order.reserved[r[1]]

\* A delivery that is under way knows what is reserved and asks for no more of
\* it than has not been delivered.
DeliveryOK(t) ==
  work[t].op = "DELIVER" =>
    /\ LinesApart(work[t].lines)
    /\ pc[t] = "prior" => work[t].loaded = order.reserved
    /\ pc[t] \in {"number", "issue"} =>
         \A k \in DOMAIN work[t].lines :
           LET l == work[t].lines[k] IN l.qty <= order.reserved[l.item] - delivered[l.item]

Kept == \A r \in Rows : held[r] = order.reserved[r[1]] - delivered[r[1]] /\ held[r] >= 0

HInv == /\ UInv /\ SIInv /\ SingleWarehouse /\ DeliveriesApart /\ Kept
        /\ \A t \in Requests : IsOpen(t) => DeliveryOK(t)

\* The only request goes on; the order, its deliveries and its reservation stay.
LEMMA HGoesOn ==
  ASSUME HInv, UInv', SIInv', NEW t \in Requests, \A u \in Requests \ {t} : ~IsOpen(u),
         \A i \in Items : order'.reserved[i] = order.reserved[i], UNCHANGED << delivered, held >>,
         \A u \in Requests \ {t} : pc'[u] = pc[u], IsOpen(t)' => DeliveryOK(t)'
  PROVE  HInv'
<1>1. \A u \in Requests \ {t} : ~IsOpen(u)'
  BY DEF IsOpen
<1>2. Kept'
  BY DEF HInv, Kept, Rows
<1>3. QED
  BY <1>1, <1>2 DEF HInv, SingleWarehouse, DeliveriesApart, LinesApart

LEMMA HEnds ==
  ASSUME HInv, UInv', SIInv', NEW t \in Requests, IsOpen(t), NEW where \in Ended, Goto(t, where), Kept'
  PROVE  HInv'
<1>1. \A u \in Requests : ~IsOpen(u)'
  BY OpenFacts DEF HInv, Goto, IsOpen
<1>2. QED
  BY <1>1 DEF HInv, SingleWarehouse, DeliveriesApart, LinesApart

\* With one warehouse a request's rows are all there are.
LEMMA RowsAreItems ==
  ASSUME HInv, NEW t \in Requests, IsOpen(t), NEW r \in Rows
  PROVE  r[1] \in Items /\ r = Row(t, r[1])
BY OpenFacts DEF HInv, SingleWarehouse, RequestOK, Row, Rows

LEMMA HReservation ==
  ASSUME HInv, UInv', SIInv', NEW t \in Requests, FinishReservation(t)
  PROVE  HInv'
<1>1. /\ pc[t] = "reserve" /\ IsOpen(t) /\ Goto(t, "done") /\ delivered' = delivered
      /\ held' = [r \in Rows |-> held[r] + Put(t, r)]
      /\ \A i \in Items : claimed'[i] = claimed[i] + Put(t, Row(t, i))
  BY DEF FinishReservation, IsOpen, Ended
<1>2. ASSUME NEW r \in Rows
      PROVE  held'[r] = order'.reserved[r[1]] - delivered'[r[1]] /\ held'[r] >= 0
  <2>1. PICK i \in Items : i = r[1] /\ r = Row(t, i)
    BY <1>1, RowsAreItems
  <2>2. ReservingOK(t) /\ work[t].got[i] \in Nat
    BY <1>1, OpenFacts DEF HInv, RequestOK, Reserving, Work
  <2>3. Put(t, r) \in Nat
    BY <2>1, <2>2 DEF ReservingOK
  <2>4. order.reserved[i] = claimed[i] /\ order'.reserved[i] = claimed'[i]
    BY DEF HInv, SIInv, Serial, ClaimExact
  <2>5. held'[r] = held[r] + Put(t, r) /\ claimed'[i] = claimed[i] + Put(t, r)
    BY <1>1, <2>1
  <2>6. held[r] = order.reserved[i] - delivered[i] /\ held[r] >= 0
    BY <2>1 DEF HInv, Kept
  <2>7. held[r] \in Int /\ claimed[i] \in Int /\ delivered[i] \in Int
    BY DEF HInv, UInv, Counted, IInv, Types, TypeOK
  <2>8. held'[r] = claimed'[i] - delivered[i] /\ held'[r] >= 0
    BY ONLY <2>3, <2>4, <2>5, <2>6, <2>7
  <2>9. QED
    BY <1>1, <2>1, <2>4, <2>8
<1>3. Kept'
  BY <1>2 DEF Kept
<1>4. QED
  BY <1>1, <1>3, HEnds DEF Ended

LEMMA HQuote ==
  ASSUME HInv, UInv', SIInv', NEW t \in Requests, FinishQuote(t)
  PROVE  HInv'
<1>1. IsOpen(t) /\ Goto(t, "done") /\ UNCHANGED << delivered, held, claimed >>
  BY DEF FinishQuote, IsOpen, Ended, history
<1>2. \A i \in Items : order'.reserved[i] = order.reserved[i]
  BY <1>1 DEF HInv, SIInv, Serial, ClaimExact
<1>3. Kept'
  BY <1>1, <1>2 DEF HInv, Kept, Rows
<1>4. QED
  BY <1>1, <1>3, HEnds DEF Ended

\* One line of an item is within what is left of the reservation.
LEMMA LineIsWithin ==
  ASSUME HInv, NEW t \in Requests, pc[t] = "issue", work[t].op = "DELIVER", NEW i \in Items
  PROVE  OnLines(t, i) = 0 \/ OnLines(t, i) <= order.reserved[i] - delivered[i]
<1>1. DeliveryOK(t)
  BY DEF HInv, IsOpen, Ended
<1>2. PICK q, S : q = Qty(t) /\ S = LinesOf(t, i)
  OBVIOUS
<1>3. OnLines(t, i) = Total(q, S)
  BY <1>2, OnLinesIsTotal DEF HInv, UInv
<1>4. CASE S = {}
  BY <1>3, <1>4, TotalEmpty
<1>5. ASSUME NEW k \in S PROVE OnLines(t, i) <= order.reserved[i] - delivered[i]
  <2>1. S = {k} /\ k \in DOMAIN work[t].lines /\ work[t].lines[k].item = i
    BY <1>1, <1>2 DEF DeliveryOK, LinesApart, LinesOf
  <2>2. q[k] = work[t].lines[k].qty /\ q[k] \in Int
    BY <1>2, <2>1, LinesFacts DEF HInv, UInv
  <2>3. Total(q, S) = q[k] + Total(q, S \ {k})
    <3>1. IsFiniteSet(S) /\ \A j \in S : q[j] \in Int
      BY <2>1, <2>2, FS_Singleton
    <3>2. QED
      BY <3>1, TotalRemove
  <2>4. Total(q, S \ {k}) = 0
    <3>1. S \ {k} = {}
      BY <2>1
    <3>2. QED
      BY <3>1, TotalEmpty
  <2>5. Total(q, S) = work[t].lines[k].qty
    BY <2>2, <2>3, <2>4
  <2>6. QED
    BY <1>1, <1>3, <2>1, <2>5 DEF DeliveryOK
<1>6. QED
  BY <1>4, <1>5

LEMMA HDelivery ==
  ASSUME HInv, UInv', SIInv', NEW t \in Requests, FinishDelivery(t)
  PROVE  HInv'
<1>1. /\ pc[t] = "issue" /\ work[t].op = "DELIVER" /\ work[t].left = {} /\ IsOpen(t)
      /\ Goto(t, "done") /\ order'.reserved = order.reserved
      /\ held' = [r \in Rows |-> held[r] + Put(t, r)]
      /\ delivered' = [i \in Items |-> delivered[i] + OnLines(t, i)]
  BY DEF FinishDelivery, IsOpen, Ended, HInv, UInv, IInv, Types, TypeOK
<1>2. ASSUME NEW r \in Rows
      PROVE  held'[r] = order'.reserved[r[1]] - delivered'[r[1]] /\ held'[r] >= 0
  <2>1. PICK i \in Items : i = r[1] /\ r = Row(t, i)
    BY <1>1, RowsAreItems
  <2>2. Issued(t, i) = OnLines(t, i) /\ OnLines(t, i) \in Int
    <3>1. LinesOf(t, i) \ work[t].left = LinesOf(t, i)
      BY <1>1
    <3>2. QED
      BY <3>1, OnLinesIsTotal DEF Issued, HInv, UInv
  <2>3. Put(t, r) = -OnLines(t, i)
    BY <1>1, <2>1, <2>2 DEF HInv, UInv, StockOK
  <2>4. OnLines(t, i) = 0 \/ OnLines(t, i) <= order.reserved[i] - delivered[i]
    BY <1>1, LineIsWithin
  <2>5. held[r] = order.reserved[i] - delivered[i] /\ held[r] >= 0
    BY <2>1 DEF HInv, Kept
  <2>6. held[r] \in Int /\ order.reserved[i] \in Int /\ delivered[i] \in Int
    BY DEF HInv, UInv, Counted, IInv, Types, TypeOK
  <2>7. held'[r] = held[r] + Put(t, r) /\ delivered'[i] = delivered[i] + OnLines(t, i)
    BY <1>1
  <2>8. PICK o : o = OnLines(t, i)
    OBVIOUS
  <2>9. held'[r] = order.reserved[i] - delivered'[i] /\ held'[r] >= 0
    BY <2>2, <2>3, <2>4, <2>5, <2>6, <2>7, <2>8
  <2>10. QED
    BY <1>1, <2>1, <2>9
<1>3. Kept'
  BY <1>2 DEF Kept
<1>4. QED
  BY <1>1, <1>3, HEnds DEF Ended

\* The only request goes on with the same lines, and a delivery with what it has read.
LEMMA HSteps ==
  ASSUME HInv, UInv', SIInv', NEW t \in Requests, IsOpen(t), UNCHANGED << orderVars, held >>,
         NEW where, Goto(t, where), NEW w, work' = [work EXCEPT ![t] = w],
         w.op = work[t].op, w.lines = work[t].lines,
         w.op = "DELIVER" =>
           /\ where = "prior" => w.loaded = order.reserved
           /\ where \in {"number", "issue"} =>
                \A k \in DOMAIN w.lines :
                  w.lines[k].qty <= order.reserved[w.lines[k].item] - delivered[w.lines[k].item]
  PROVE  HInv'
<1>1. pc'[t] = where /\ work'[t] = w /\ \A u \in Requests \ {t} : pc'[u] = pc[u] /\ ~IsOpen(u)
  BY OpenFacts DEF HInv, Goto
<1>2. order' = order /\ delivered' = delivered /\ held' = held
  BY DEF orderVars
<1>3. DeliveryOK(t)
  BY DEF HInv
<1>4. DeliveryOK(t)'
  BY <1>1, <1>2, <1>3 DEF DeliveryOK, LinesApart
<1>5. QED
  BY <1>1, <1>2, <1>4, HGoesOn

LEMMA HOpen ==
  ASSUME HInv, UInv', SIInv', NEW t \in Requests, NEW m \in Menu, NEW of \in Requests \cup {Nobody},
         Open(t, m, of)
  PROVE  HInv'
<1>1. (\A u \in Requests : ~IsOpen(u)) /\ UNCHANGED << order, delivered, held >>
  BY NobodyElse DEF HInv, SIInv, Serial, Open, orderVars, history
<1>2. \A u \in Requests \ {t} : pc'[u] = pc[u]
  BY DEF Open, Goto, HInv, UInv, IInv, Types
<1>3. IsOpen(t)' => DeliveryOK(t)'
  <2>1. CASE Admits(m.op, order.status)
    <3> DEFINE left == IF m.op = "CREATE" THEN Items
                       ELSE IF m.op = "SELL" THEN DOMAIN m.lines ELSE {}
               w == [NoWork EXCEPT !.op = m.op, !.wh = m.wh, !.lines = m.lines, !.of = of,
                                   !.seen = order.status, !.left = left]
    <3>1. Goto(t, FirstStep(m.op)) /\ work' = [work EXCEPT ![t] = w]
      BY <2>1 DEF Open
    <3>2. pc'[t] = FirstStep(m.op) /\ work'[t] = w
      BY <3>1 DEF HInv, UInv, IInv, Types, Goto
    <3>3. w.op = m.op /\ w.lines = m.lines
      BY DEF NoWork
    <3> HIDE DEF w
    <3>4. m.op = "DELIVER" => pc'[t] = "items" /\ LinesApart(m.lines)
      BY <3>2 DEF FirstStep, HInv, DeliveriesApart
    <3>5. QED
      BY <3>2, <3>3, <3>4 DEF DeliveryOK
  <2>2. CASE ~Admits(m.op, order.status)
    BY <2>2 DEF Open, Goto, IsOpen, Ended, HInv, UInv, IInv, Types
  <2>3. QED
    BY <2>1, <2>2
<1>4. QED
  BY <1>1, <1>2, <1>3, HGoesOn

LEMMA HReject ==
  ASSUME HInv, UInv', SIInv', NEW t \in Requests, IsOpen(t), Reject(t)
  PROVE  HInv'
<1>1. UNCHANGED << order, delivered, held >> /\ Goto(t, "rejected")
  BY DEF Reject, orderVars, history
<1>2. Kept'
  BY <1>1 DEF HInv, Kept
<1>3. QED
  BY <1>1, <1>2, HEnds DEF Ended

LEMMA InitHInv ==
  MaxOpen = 1 /\ SingleWarehouse /\ DeliveriesApart /\ StatusTells /\ HeldIsReserved /\ Init => HInv
<1> SUFFICES ASSUME MaxOpen = 1, SingleWarehouse, DeliveriesApart, StatusTells, HeldIsReserved, Init
             PROVE  HInv
  OBVIOUS
<1>1. UInv /\ SIInv
  BY InitUInv, InitSIInv
<1>2. \A t \in Requests : ~IsOpen(t)
  BY DEF Init, IsOpen
<1>3. Kept
  <2>1. \A r \in Rows : order.reserved[r[1]] \in Nat /\ delivered[r[1]] = 0
    BY <1>1 DEF Init, UInv, IInv, Types, TypeOK, Rows
  <2>2. QED
    BY <2>1 DEF Kept, HeldIsReserved
<1>4. QED
  BY <1>1, <1>2, <1>3 DEF HInv

LEMMA NextHInv == HInv /\ [Next]_vars => HInv'
<1> SUFFICES ASSUME HInv, [Next]_vars PROVE HInv'
  OBVIOUS
<1>0. UInv' /\ SIInv'
  BY NextUInv, NextSIInv DEF HInv
<1> DEFINE Same(t) == work' = [work EXCEPT ![t] = work[t]]
<1>1. ASSUME NEW t \in Requests, NEW m \in Menu, NEW of \in Requests \cup {Nobody}, Open(t, m, of)
      PROVE  HInv'
  BY <1>0, <1>1, HOpen
<1>2. ASSUME NEW t \in Requests, LoadItems(t) PROVE HInv'
  <2> DEFINE left == CASE work[t].op = "CONFIRM" -> Items
                       [] work[t].op = "RETRY"   -> {i \in Items : order.reserved[i] < Quantity[i]}
                       [] OTHER -> DOMAIN work[t].lines
             w == [work[t] EXCEPT !.loaded = order.reserved, !.left = left]
             where == IF work[t].op = "DELIVER" THEN "prior" ELSE "reserve"
  <2>1. IsOpen(t) /\ work[t] \in Work
    BY <1>2, OpenFacts DEF LoadItems, IsOpen, Ended, HInv
  <2>2. work' = [work EXCEPT ![t] = w] /\ Goto(t, where) /\ UNCHANGED << orderVars, held >>
    BY <1>2 DEF LoadItems, HInv, UInv, IInv, Types, history
  <2> HIDE DEF left
  <2>3. w.op = work[t].op /\ w.lines = work[t].lines /\ w.loaded = order.reserved
    BY <2>1 DEF Work
  <2> HIDE DEF w
  <2>4. where \notin {"number", "issue"}
    OBVIOUS
  <2> HIDE DEF where
  <2>5. QED
    BY <1>0, <2>1, <2>2, <2>3, <2>4, HSteps
<1>3. ASSUME NEW t \in Requests, NEW i \in Items,
             ReserveFull(t, i) \/ ReadAvailable(t, i) \/ ReserveRest(t, i)
      PROVE  HInv'
  <2>1. IsOpen(t) /\ pc[t] \in Reserving /\ UNCHANGED << orderVars, held >>
    BY <1>3 DEF ReserveFull, ReadAvailable, ReserveRest, IsOpen, Ended, Reserving, history
  <2>2. work[t].op # "DELIVER" /\ work[t] \in Work
    BY <2>1, OpenFacts DEF HInv, RequestOK, ReservingOK
  <2>3. PICK where \in Reserving : Goto(t, where)
    BY <1>3 DEF ReserveFull, ReadAvailable, ReserveRest, Reserve, Reserving
  <2>4. work'[t].op = work[t].op
    BY <1>3, <2>2 DEF ReserveFull, ReadAvailable, ReserveRest, Reserve, Work, HInv, UInv, IInv, Types
  <2>5. DeliveryOK(t)'
    BY <2>2, <2>4 DEF DeliveryOK
  <2>6. (\A u \in Requests \ {t} : ~IsOpen(u) /\ pc'[u] = pc[u])
        /\ order' = order /\ UNCHANGED << delivered, held >>
    BY <2>1, <2>3, OpenFacts DEF HInv, Goto, orderVars
  <2>7. QED
    BY <1>0, <2>5, <2>6, HGoesOn
<1>4. ASSUME NEW t \in Requests, LoadPrior(t) PROVE HInv'
  <2>1. IsOpen(t) /\ pc[t] = "prior" /\ DeliveryOK(t)
    BY <1>4 DEF LoadPrior, IsOpen, Ended, HInv
  <2>2. CASE Reject(t)
    BY <1>0, <2>1, <2>2, HReject
  <2>3. CASE /\ \A k \in DOMAIN work[t].lines :
                  LET l == work[t].lines[k] IN l.qty <= work[t].loaded[l.item] - delivered[l.item]
             /\ Goto(t, "number") /\ UNCHANGED << orderVars, stockVars, work, history >>
    <3>1. Same(t) /\ UNCHANGED << orderVars, held >>
      BY <2>3 DEF HInv, UInv, IInv, Types, history
    <3>2. work[t].op = "DELIVER" =>
            \A k \in DOMAIN work[t].lines :
              work[t].lines[k].qty
                <= order.reserved[work[t].lines[k].item] - delivered[work[t].lines[k].item]
      BY <2>1, <2>3 DEF DeliveryOK
    <3>3. PICK where \in {"number"} : Goto(t, where)
      BY <2>3
    <3>4. QED
      BY <1>0, <2>1, <3>1, <3>2, <3>3, HSteps
  <2>4. QED
    BY <1>4, <2>2, <2>3 DEF LoadPrior
<1>5. ASSUME NEW t \in Requests, TakeNumber(t) PROVE HInv'
  <2>1. IsOpen(t) /\ pc[t] = "number" /\ DeliveryOK(t) /\ Same(t) /\ UNCHANGED << orderVars, held >>
    BY <1>5 DEF TakeNumber, IsOpen, Ended, HInv, UInv, IInv, Types, history
  <2>2. PICK where \in {"insert", "issue"} : Goto(t, where)
    BY <1>5 DEF TakeNumber
  <2>3. work[t].op = "DELIVER" =>
          \A k \in DOMAIN work[t].lines :
            work[t].lines[k].qty
              <= order.reserved[work[t].lines[k].item] - delivered[work[t].lines[k].item]
    BY <2>1 DEF DeliveryOK
  <2>4. QED
    BY <1>0, <2>1, <2>2, <2>3, HSteps
<1>6. ASSUME NEW t \in Requests, NEW k \in work[t].left, IssueLine(t, k) PROVE HInv'
  <2>1. IsOpen(t) /\ pc[t] = "issue" /\ DeliveryOK(t) /\ work[t] \in Work
    BY <1>6, OpenFacts DEF IssueLine, IsOpen, Ended, HInv
  <2>2. CASE Reject(t)
    BY <1>0, <2>1, <2>2, HReject
  <2>3. CASE work' = [work EXCEPT ![t].left = @ \ {k}] /\ UNCHANGED << orderVars, pc, history >>
    <3> DEFINE w == [work[t] EXCEPT !.left = work[t].left \ {k}]
    <3>1. work' = [work EXCEPT ![t] = w] /\ w.op = work[t].op /\ w.lines = work[t].lines
          /\ Goto(t, "issue") /\ UNCHANGED << orderVars, held >>
      BY <2>1, <2>3 DEF Work, Goto, HInv, UInv, IInv, Types, history
    <3> HIDE DEF w
    <3>2. w.op = "DELIVER" =>
            \A j \in DOMAIN w.lines :
              w.lines[j].qty <= order.reserved[w.lines[j].item] - delivered[w.lines[j].item]
      BY <2>1, <3>1 DEF DeliveryOK
    <3>3. QED
      BY <1>0, <2>1, <3>1, <3>2, HSteps
  <2>4. QED
    BY <1>6, <2>2, <2>3 DEF IssueLine
<1>7. ASSUME NEW t \in Requests, FinishReservation(t) \/ FinishQuote(t) \/ FinishDelivery(t)
      PROVE  HInv'
  BY <1>0, <1>7, HReservation, HQuote, HDelivery
<1>8. ASSUME NEW t \in Requests, FinishSale(t) \/ FinishInvoice(t) PROVE HInv'
  <2>1. IsOpen(t) /\ Goto(t, "done") /\ UNCHANGED << delivered, held >>
    BY <1>8 DEF FinishSale, FinishInvoice, IsOpen, Ended, orderVars, history
  <2>2. order'.reserved = order.reserved
    BY <1>8 DEF FinishSale, FinishInvoice, orderVars, HInv, UInv, IInv, Types, TypeOK
  <2>3. Kept'
    BY <2>1, <2>2 DEF HInv, Kept
  <2>4. QED
    BY <1>0, <2>1, <2>3, HEnds DEF Ended
<1>9. ASSUME NEW t \in Requests, InsertInvoice(t) \/ ReadDeliveries(t) PROVE HInv'
  <2>1. IsOpen(t) /\ work[t] \in Work
    BY <1>9, OpenFacts DEF InsertInvoice, ReadDeliveries, IsOpen, Ended, HInv
  <2>2. CASE Reject(t)
    BY <1>0, <2>1, <2>2, HReject
  <2>3. CASE InsertInvoice(t) /\ ~Reject(t)
    <3>1. Same(t) /\ Goto(t, "all") /\ UNCHANGED << orderVars, held >>
      BY <2>3 DEF InsertInvoice, HInv, UInv, IInv, Types, history
    <3>2. PICK where \in {"all"} : Goto(t, where)
      BY <3>1
    <3>3. QED
      BY <1>0, <2>1, <3>1, <3>2, HSteps
  <2>4. CASE ReadDeliveries(t)
    <3> DEFINE w == [work[t] EXCEPT !.all = deliveries]
    <3>1. work' = [work EXCEPT ![t] = w] /\ w.op = work[t].op /\ w.lines = work[t].lines
          /\ Goto(t, "finish") /\ UNCHANGED << orderVars, held >>
      BY <2>1, <2>4 DEF ReadDeliveries, Work, HInv, UInv, IInv, Types, history
    <3> HIDE DEF w
    <3>2. PICK where \in {"finish"} : Goto(t, where)
      BY <3>1
    <3>3. QED
      BY <1>0, <2>1, <3>1, <3>2, HSteps
  <2>5. QED
    BY <1>9, <2>2, <2>3, <2>4
<1>10. ASSUME NEW t \in Requests, Lose(t) \/ FailReservation(t) PROVE HInv'
  BY <1>0, <1>10, HReject DEF Lose, FailReservation, IsOpen, Ended
<1>11. CASE UNCHANGED << order, delivered, held, pc, work >>
  BY <1>0, <1>11 DEF HInv, Kept, SingleWarehouse, DeliveriesApart, LinesApart, IsOpen, DeliveryOK
<1>12. QED
  BY <1>1, <1>2, <1>3, <1>4, <1>5, <1>6, <1>7, <1>8, <1>9, <1>10, <1>11
     DEF Next, Step, Finished, Restock, vars, orderVars, history

\* With one request at a time, one warehouse and deliveries that name an item once, a
\* delivery consumes the order's reservation and never another order's: what the
\* order's requests hold on a row is what is reserved and not yet delivered.
THEOREM OthersUndisturbed ==
  MaxOpen = 1 /\ SingleWarehouse /\ DeliveriesApart /\ StatusTells /\ HeldIsReserved /\ Spec
    => []OthersKeepTheirs
<1>1. HInv => OthersKeepTheirs
  BY DEF HInv, Kept, OthersKeepTheirs
<1>2. QED
  BY InitHInv, NextHInv, <1>1, PTL DEF Spec
=============================================================================
