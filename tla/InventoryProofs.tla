-------------------------- MODULE InventoryProofs ---------------------------
(***************************************************************************)
(* Theorems of Inventory, for every set of rows, requests, calls and       *)
(* opening tables.                                                         *)
(***************************************************************************)
EXTENDS Inventory, FoldFacts, TLAPS

\* A row nobody holds has no uncommitted version.
Quiet == \A r \in Rows : lock[r] = Nobody => cur[r] = com[r]

\* Only a transaction that is still open holds rows.
HoldersRun == \A r \in Rows : lock[r] # Nobody => status[lock[r]] \in Running

\* What a transaction holds lies at or before every row it has still to visit.
HeldBelow ==
  \A r \in Rows, t \in Requests :
    lock[r] = t => \A i \in left[t] : r <= RowOf(t, i)

\* Uncommitted ledger rows are those of the holder of their inventory row.
HoldersEnter ==
  \A t \in Requests, r \in Rows : lock[r] # t => added[t][r] = NoEntries

\* A row that is not there has no stock.
AbsentIsEmpty ==
  \A r \in Rows : /\ com[r].present \/ com[r] = Absent
                  /\ cur[r].present \/ cur[r] = Absent

\* A row that is locked has been inserted.
HeldIsPresent == \A r \in Rows : lock[r] # Nobody => cur[r].present

\* The UPDATE runs on a row that _ensure_row has seen to.
EnsuredIsSeen ==
  \A t \in Requests : \A i \in left[t] :
    status[t] = "apply" /\ IsNext(t, i) => Seen(t, RowOf(t, i)).present

\* No version, committed or not, breaks the CHECK constraints.
Checked == \A r \in Rows : Check(com[r]) /\ Check(cur[r])

\* The inductive invariant.
IInv ==
  /\ TypeOK
  /\ Quiet
  /\ HoldersRun
  /\ HeldBelow
  /\ HoldersEnter
  /\ AbsentIsEmpty
  /\ HeldIsPresent
  /\ EnsuredIsSeen
  /\ Checked
  /\ LedgerExact
  /\ ReservedRebuilt
  /\ ChecksOnlyForDirectIssue
-----------------------------------------------------------------------------
\* Lemmas about one row.

\* A guarded update of a version is a version.
LEMMA MovedIsVersion ==
  ASSUME NEW v \in Version, NEW kind \in Movements, NEW q \in Int
  PROVE  Moved(v, kind, q) \in Version
BY DEF Moved, QtyDelta, OnHandDelta, ReservedDelta, Version

\* The ledger row of a guarded update.
LEMMA LedgerRowType ==
  ASSUME NEW kind \in Movements, NEW q \in Int, NEW balance \in Int
  PROVE  /\ LedgerRow(kind, q, balance) \in Entry
         /\ LedgerRow(kind, q, balance).delta = QtyDelta(kind, q)
         /\ LedgerRow(kind, q, balance).balance = balance
         /\ LedgerRow(kind, q, balance).unreserves = (kind = "ISSUE")
         /\ QtyDelta(kind, q) \in Int
BY DEF LedgerRow, Entry, QtyDelta

\* It is one entry more of one of the two sequences of the book.
LEMMA EnteredIsAppend ==
  ASSUME NEW b \in Book, NEW v \in Version, NEW kind \in Movements, NEW q \in Int
  PROVE  /\ Entered(b, v, kind, q) \in Book
         /\ kind \in ReservedMovements =>
              /\ Entered(b, v, kind, q).moved = b.moved
              /\ Entered(b, v, kind, q).held = Append(b.held, LedgerRow(kind, q, v.reserved))
         /\ kind \notin ReservedMovements =>
              /\ Entered(b, v, kind, q).moved = Append(b.moved, LedgerRow(kind, q, v.onHand))
              /\ Entered(b, v, kind, q).held = b.held
<1> DEFINE d == LedgerRow(kind, q, v.reserved)
           e == LedgerRow(kind, q, v.onHand)
<1>1. d \in Entry /\ e \in Entry
  BY LedgerRowType DEF Version
<1>2. Entered(b, v, kind, q) = IF kind \in ReservedMovements
                               THEN [b EXCEPT !.held = Append(@, d)]
                               ELSE [b EXCEPT !.moved = Append(@, e)]
  BY DEF Entered
<1> HIDE DEF d, e
<1>3. /\ b = [moved |-> b.moved, held |-> b.held]
      /\ b.moved \in Seq(Entry) /\ b.held \in Seq(Entry)
  BY DEF Book
<1>4. Append(b.held, d) \in Seq(Entry) /\ Append(b.moved, e) \in Seq(Entry)
  BY <1>1, <1>3
<1>5. CASE kind \in ReservedMovements
  <2>1. Entered(b, v, kind, q) = [moved |-> b.moved, held |-> Append(b.held, d)]
    BY <1>2, <1>3, <1>5
  <2>2. QED
    BY <1>3, <1>4, <1>5, <2>1 DEF Book, d
<1>6. CASE kind \notin ReservedMovements
  <2>1. Entered(b, v, kind, q) = [moved |-> Append(b.moved, e), held |-> b.held]
    BY <1>2, <1>3, <1>6
  <2>2. QED
    BY <1>3, <1>4, <1>6, <2>1 DEF Book, e
<1>7. QED
  BY <1>5, <1>6

\* Sequences one after the other.
LEMMA ConcatFacts ==
  ASSUME NEW s \in Seq(Entry), NEW u \in Seq(Entry), NEW e \in Entry
  PROVE  /\ s \o u \in Seq(Entry)
         /\ s \o << >> = s
         /\ s \o Append(u, e) = Append(s \o u, e)
<1>1. s \o u \in Seq(Entry) /\ s \o << >> = s
  OBVIOUS
<1>2. s \o Append(u, e) = Append(s \o u, e)
  OBVIOUS
<1>3. QED
  BY <1>1, <1>2

\* Ledger rows that follow a ledger.
LEMMA FollowedFacts ==
  ASSUME NEW b \in Book, NEW c \in Book,
         NEW v \in Version, NEW kind \in Movements, NEW q \in Int
  PROVE  /\ NoEntries \in Book
         /\ Followed(b, c) \in Book
         /\ Followed(b, NoEntries) = b
         /\ Followed(b, Entered(c, v, kind, q)) = Entered(Followed(b, c), v, kind, q)
<1> DEFINE d == LedgerRow(kind, q, v.reserved)
           e == LedgerRow(kind, q, v.onHand)
<1>1. d \in Entry /\ e \in Entry
  BY LedgerRowType DEF Version
<1>2. /\ b.moved \in Seq(Entry) /\ b.held \in Seq(Entry)
      /\ c.moved \in Seq(Entry) /\ c.held \in Seq(Entry)
      /\ b = [moved |-> b.moved, held |-> b.held]
      /\ c = [moved |-> c.moved, held |-> c.held]
  BY DEF Book
<1> HIDE DEF d, e
<1>3. /\ b.moved \o c.moved \in Seq(Entry) /\ b.held \o c.held \in Seq(Entry)
      /\ b.moved \o << >> = b.moved /\ b.held \o << >> = b.held
      /\ b.moved \o Append(c.moved, e) = Append(b.moved \o c.moved, e)
      /\ b.held \o Append(c.held, d) = Append(b.held \o c.held, d)
  BY <1>1, <1>2, ConcatFacts
<1>4. NoEntries \in Book /\ NoEntries.moved = << >> /\ NoEntries.held = << >>
  BY DEF NoEntries, Book
<1>5. Followed(b, c) \in Book
  BY <1>3 DEF Followed, Book
<1>6. Followed(b, NoEntries) = b
  BY <1>2, <1>3, <1>4 DEF Followed
<1>7. Followed(b, Entered(c, v, kind, q)) = Entered(Followed(b, c), v, kind, q)
  <2>1. CASE kind \in ReservedMovements
    <3>1. Entered(c, v, kind, q) = [moved |-> c.moved, held |-> Append(c.held, d)]
      BY <1>2, <2>1 DEF Entered, d
    <3>2. Entered(Followed(b, c), v, kind, q)
            = [moved |-> b.moved \o c.moved, held |-> Append(b.held \o c.held, d)]
      BY <2>1 DEF Entered, Followed, d
    <3>3. Followed(b, [moved |-> c.moved, held |-> Append(c.held, d)])
            = [moved |-> b.moved \o c.moved, held |-> Append(b.held \o c.held, d)]
      BY <1>3 DEF Followed
    <3>4. QED
      BY <3>1, <3>2, <3>3
  <2>2. CASE kind \notin ReservedMovements
    <3>1. Entered(c, v, kind, q) = [moved |-> Append(c.moved, e), held |-> c.held]
      BY <1>2, <2>2 DEF Entered, e
    <3>2. Entered(Followed(b, c), v, kind, q)
            = [moved |-> Append(b.moved \o c.moved, e), held |-> b.held \o c.held]
      BY <2>2 DEF Entered, Followed, e
    <3>3. Followed(b, [moved |-> Append(c.moved, e), held |-> c.held])
            = [moved |-> Append(b.moved \o c.moved, e), held |-> b.held \o c.held]
      BY <1>3 DEF Followed
    <3>4. QED
      BY <3>1, <3>2, <3>3
  <2>3. QED
    BY <2>1, <2>2
<1>8. QED
  BY <1>4, <1>5, <1>6, <1>7

\* The statements other than the counter sale's leave a row that satisfies the
\* CHECK constraints satisfying them.
LEMMA GuardImpliesCheck ==
  ASSUME NEW v \in Version, NEW kind \in Movements, kind # "DIRECT_ISSUE",
         NEW q \in Int, LegalQty(kind, q), Check(v), Guard(v, kind, q)
  PROVE  Check(Moved(v, kind, q))
BY DEF Version, Movements, ReservedMovements, LegalQty, Check, Guard, Available,
       Moved, OnHandDelta, ReservedDelta, QtyDelta

\* The ledger stays exact: the new ledger row continues the chain.
LEMMA MovedKeepsLedger ==
  ASSUME NEW b \in Book, NEW v \in Version, NEW kind \in Movements, NEW q \in Int,
         TellsOnHand(b, v)
  PROVE  TellsOnHand(Entered(b, Moved(v, kind, q), kind, q), Moved(v, kind, q))
<1> DEFINE w == Moved(v, kind, q)
           c == Entered(b, w, kind, q)
<1>1. w \in Version /\ w.onHand = v.onHand + OnHandDelta(kind, q)
  BY MovedIsVersion DEF Moved
<1>2. CASE kind \in ReservedMovements
  <2>1. c.moved = b.moved
    BY <1>1, <1>2, EnteredIsAppend
  <2>2. w.onHand = v.onHand
    BY <1>1, <1>2 DEF OnHandDelta, Version
  <2>3. QED
    BY <2>1, <2>2 DEF TellsOnHand
<1>3. CASE kind \notin ReservedMovements
  <2> DEFINE m == b.moved
             n == c.moved
             d == QtyDelta(kind, q)
             e == LedgerRow(kind, q, w.onHand)
  <2>1. /\ m \in Seq(Entry) /\ v.onHand \in Int /\ d \in Int
        /\ w.onHand \in Int /\ w.onHand = v.onHand + d
    BY <1>1, <1>3, LedgerRowType DEF Version, Book, OnHandDelta
  <2>2. n = Append(m, e)
    BY <1>1, <1>3, EnteredIsAppend
  <2>3. e \in Entry /\ e.delta = d /\ e.balance = w.onHand
    BY <2>1, LedgerRowType
  <2> HIDE DEF e, w, c, d
  <2>4. /\ Len(n) = Len(m) + 1 /\ n # <<>>
        /\ n[Len(m) + 1] = e
        /\ \A k \in 1..Len(m) : n[k] = m[k]
    BY <2>1, <2>2, <2>3
  <2>5. v.onHand = IF m = <<>> THEN 0 ELSE m[Len(m)].balance
    BY DEF TellsOnHand
  <2>6. e.balance = e.delta + (IF Len(m) + 1 = 1 THEN 0 ELSE n[Len(m)].balance)
    BY <2>1, <2>3, <2>4, <2>5
  <2>7. ASSUME NEW k \in 1..Len(n)
        PROVE  n[k].balance = n[k].delta + (IF k = 1 THEN 0 ELSE n[k - 1].balance)
    <3>1. CASE k = Len(m) + 1
      BY <3>1, <2>4, <2>6, <2>1
    <3>2. CASE k \in 1..Len(m)
      <4>1. n[k] = m[k] /\ (k # 1 => n[k - 1] = m[k - 1])
        BY <3>2, <2>4, <2>1
      <4>2. m[k].balance = m[k].delta + (IF k = 1 THEN 0 ELSE m[k - 1].balance)
        BY <3>2 DEF TellsOnHand
      <4>3. QED
        BY <3>2, <4>1, <4>2
    <3>3. QED
      BY <3>1, <3>2, <2>1, <2>4
  <2>8. w.onHand = n[Len(n)].balance
    BY <2>3, <2>4
  <2>9. TellsOnHand(c, w)
    BY <2>4, <2>7, <2>8 DEF TellsOnHand
  <2>10. QED
    BY <2>9 DEF c, w
<1>4. QED
  BY <1>2, <1>3
-----------------------------------------------------------------------------
\* The deltas at some places of the ledger, as a total.
LEMMA DeltasAreTotal ==
  ASSUME NEW s \in Seq(Entry), NEW D \in SUBSET DOMAIN s
  PROVE  /\ IsFiniteSet(D)
         /\ DeltasAt(s, D) = Total([k \in DOMAIN s |-> s[k].delta], D)
<1> DEFINE f == [k \in DOMAIN s |-> s[k].delta]
           Body(g, T) == IF T = {} THEN 0
                         ELSE s[CHOOSE x \in T : TRUE].delta + g[T \ {CHOOSE x \in T : TRUE}]
           g == CHOOSE g : g = [T \in SUBSET D |-> Body(g, T)]
<1>1. IsFiniteSet(D) /\ \A k \in D : f[k] \in Int
  <2>1. Len(s) \in Nat /\ DOMAIN s = 1..Len(s)
    OBVIOUS
  <2>2. IsFiniteSet(1..Len(s))
    BY <2>1, FS_Interval
  <2>3. \A k \in DOMAIN s : s[k] \in Entry
    OBVIOUS
  <2>4. QED
    BY <2>1, <2>2, <2>3, FS_Subset DEF Entry
<1> DEFINE Over(h, T) == IF T = {} THEN 0
                         ELSE f[CHOOSE x \in T : TRUE] + h[T \ {CHOOSE x \in T : TRUE}]
<1>2. \A k : IsSum(k, f, D) <=> k = [T \in SUBSET D |-> Body(k, T)]
  <2>1. ASSUME NEW k, NEW T \in SUBSET D
        PROVE  Body(k, T) = Over(k, T)
    <3>1. T # {} => (CHOOSE x \in T : TRUE) \in DOMAIN s
      OBVIOUS
    <3>2. QED
      BY <3>1
  <2>2. \A k : IsSum(k, f, D) <=> k = [T \in SUBSET D |-> Over(k, T)]
    BY DEF IsSum
  <2> HIDE DEF Body, Over, f
  <2>3. ASSUME NEW k
        PROVE  [T \in SUBSET D |-> Over(k, T)] = [T \in SUBSET D |-> Body(k, T)]
    BY <2>1
  <2>4. QED
    BY <2>2, <2>3
<1>3. IsSum(g, f, D)
  <2>1. \E k : IsSum(k, f, D)
    <3> HIDE DEF f
    <3> QED BY <1>1, SumExists
  <2> HIDE DEF Body, f
  <2>2. QED
    BY <1>2, <2>1
<1>4. DeltasAt(s, D) = g[D]
  BY DEF DeltasAt, MapThenSumSet, MapThenFoldSet
<1>5. QED
  <2> HIDE DEF g, f
  <2>1. g[D] = Total(f, D)
    BY <1>1, <1>3, SumIsTotal
  <2>2. QED
    BY <1>1, <1>4, <2>1 DEF f

\* One more ledger row adds its delta to the places it is counted at.
LEMMA DeltasAppend ==
  ASSUME NEW s \in Seq(Entry), NEW e \in Entry, NEW D \in SUBSET DOMAIN s
  PROVE  /\ DeltasAt(s, D) \in Int
         /\ DeltasAt(Append(s, e), D) = DeltasAt(s, D)
         /\ DeltasAt(Append(s, e), D \cup {Len(s) + 1}) = DeltasAt(s, D) + e.delta
<1> DEFINE w == Append(s, e)
           n == Len(s) + 1
           f == [k \in DOMAIN s |-> s[k].delta]
           h == [k \in DOMAIN w |-> w[k].delta]
<1>1. /\ w \in Seq(Entry) /\ DOMAIN w = DOMAIN s \cup {n} /\ n \notin DOMAIN s /\ w[n] = e
      /\ \A k \in DOMAIN s : w[k] = s[k] /\ s[k] \in Entry
  OBVIOUS
<1>2. /\ \A k \in DOMAIN s : f[k] \in Int /\ h[k] = f[k]
      /\ h[n] = e.delta /\ e.delta \in Int
  BY <1>1 DEF Entry
<1>3. /\ IsFiniteSet(D) /\ IsFiniteSet(D \cup {n})
      /\ DeltasAt(s, D) = Total(f, D) /\ DeltasAt(w, D) = Total(h, D)
      /\ DeltasAt(w, D \cup {n}) = Total(h, D \cup {n})
  BY <1>1, DeltasAreTotal
<1> HIDE DEF w, n, f, h
<1>4. Total(f, D) \in Int /\ Total(f, D) = Total(h, D)
  BY <1>2, <1>3, TotalType, TotalAgree
<1>5. Total(h, D \cup {n}) = h[n] + Total(h, D)
  <2>1. (D \cup {n}) \ {n} = D
    BY <1>1
  <2>2. \A k \in D \cup {n} : h[k] \in Int
    BY <1>2
  <2>3. QED
    BY <1>3, <2>1, <2>2, TotalRemove
<1>6. QED
  BY <1>2, <1>3, <1>4, <1>5 DEF w, n

\* Nothing is counted at no place.
LEMMA DeltasNowhere == \A s \in Seq(Entry) : DeltasAt(s, {}) = 0
BY DeltasAreTotal, TotalEmpty

\* The ledger rows of a guarded update account for what it does to `reserved`.
LEMMA MovedKeepsReserved ==
  ASSUME NEW b \in Book, NEW v \in Version, NEW kind \in Movements, NEW q \in Int,
         TellsReserved(b, v)
  PROVE  TellsReserved(Entered(b, Moved(v, kind, q), kind, q), Moved(v, kind, q))
<1> DEFINE w == Moved(v, kind, q)
           c == Entered(b, w, kind, q)
           Marked(s) == {k \in DOMAIN s : s[k].unreserves}
           e == LedgerRow(kind, q, w.onHand)
           d == LedgerRow(kind, q, w.reserved)
<1>1. /\ b.held \in Seq(Entry) /\ b.moved \in Seq(Entry) /\ v.reserved \in Int
      /\ e \in Entry /\ d \in Entry
      /\ e.delta = QtyDelta(kind, q) /\ d.delta = QtyDelta(kind, q)
      /\ e.unreserves = (kind = "ISSUE") /\ QtyDelta(kind, q) \in Int
      /\ w \in Version
  <2>1. w \in Version
    BY MovedIsVersion
  <2> HIDE DEF w
  <2>2. QED
    BY <2>1, LedgerRowType DEF Version, Book
<1>2. v.reserved = DeltasAt(b.held, DOMAIN b.held) + DeltasAt(b.moved, Marked(b.moved))
  BY DEF TellsReserved
<1>3. /\ w.reserved = v.reserved + ReservedDelta(kind, q)
      /\ c.held = IF kind \in ReservedMovements THEN Append(b.held, d) ELSE b.held
      /\ c.moved = IF kind \in ReservedMovements THEN b.moved ELSE Append(b.moved, e)
  <2>1. w.reserved = v.reserved + ReservedDelta(kind, q)
    BY DEF Moved
  <2> HIDE DEF w
  <2>2. QED
    BY <1>1, <2>1, EnteredIsAppend
<1>4. SUFFICES w.reserved = DeltasAt(c.held, DOMAIN c.held) + DeltasAt(c.moved, Marked(c.moved))
  BY DEF TellsReserved
<1>5. /\ DeltasAt(b.held, DOMAIN b.held) \in Int
      /\ DeltasAt(b.moved, Marked(b.moved)) \in Int
  BY <1>1, DeltasAppend
<1>6. CASE kind \in ReservedMovements
  <2> HIDE DEF w, c
  <2>1. DOMAIN c.held = DOMAIN b.held \cup {Len(b.held) + 1}
    BY <1>1, <1>3, <1>6
  <2>2. DeltasAt(c.held, DOMAIN c.held) = DeltasAt(b.held, DOMAIN b.held) + d.delta
    <3> HIDE DEF d
    <3>1. c.held = Append(b.held, d)
      BY <1>3, <1>6
    <3>2. QED
      BY <1>1, <2>1, <3>1, DeltasAppend
  <2>3. ReservedDelta(kind, q) = QtyDelta(kind, q) /\ c.moved = b.moved
    BY <1>3, <1>6 DEF ReservedDelta
  <2> HIDE DEF d, e, Marked
  <2>4. QED
    BY <1>1, <1>2, <1>3, <1>5, <2>2, <2>3
<1>7. CASE kind \notin ReservedMovements
  <2> HIDE DEF w, c
  <2>1. c.held = b.held /\ c.moved = Append(b.moved, e)
    BY <1>3, <1>7
  <2>2. Marked(c.moved) = IF kind = "ISSUE" THEN Marked(b.moved) \cup {Len(b.moved) + 1}
                          ELSE Marked(b.moved)
    <3>1. /\ DOMAIN c.moved = DOMAIN b.moved \cup {Len(b.moved) + 1}
          /\ Len(b.moved) + 1 \notin DOMAIN b.moved
          /\ c.moved[Len(b.moved) + 1] = e
          /\ \A k \in DOMAIN b.moved : c.moved[k] = b.moved[k]
      <4> HIDE DEF e
      <4> QED BY <1>1, <2>1
    <3> HIDE DEF e
    <3>2. QED
      BY <1>1, <3>1
  <2>3. Marked(b.moved) \in SUBSET DOMAIN b.moved
    OBVIOUS
  <2>4. ReservedDelta(kind, q) = IF kind = "ISSUE" THEN QtyDelta(kind, q) ELSE 0
    BY <1>7 DEF ReservedDelta
  <2> HIDE DEF d, e, Marked
  <2>5. DeltasAt(c.moved, Marked(c.moved))
          = DeltasAt(b.moved, Marked(b.moved)) + ReservedDelta(kind, q)
    <3> DEFINE m == b.moved
               M == Marked(b.moved)
    <3>1. /\ DeltasAt(Append(m, e), M) = DeltasAt(m, M)
          /\ DeltasAt(Append(m, e), M \cup {Len(m) + 1}) = DeltasAt(m, M) + e.delta
      BY <1>1, <2>3, DeltasAppend
    <3>2. CASE kind = "ISSUE"
      BY <1>1, <2>1, <2>2, <2>4, <3>1, <3>2
    <3>3. CASE kind # "ISSUE"
      BY <1>5, <2>1, <2>2, <2>4, <3>1, <3>3
    <3>4. QED
      BY <3>2, <3>3
  <2>6. QED
    BY <1>1, <1>2, <1>3, <1>5, <2>1, <2>5, <2>4
<1>8. QED
  BY <1>6, <1>7

\* Every line of every call is a legal argument.
LEMMA LineTypes ==
  ASSUME TypeOK, NEW t \in Requests, NEW i \in left[t]
  PROVE  /\ Kind(t) \in Movements
         /\ RowOf(t, i) \in Rows
         /\ RowOf(t, i) \in Int
         /\ QtyOf(t, i) \in Int
         /\ LegalQty(Kind(t), QtyOf(t, i))
<1>1. call[t] \in Calls /\ i \in DOMAIN call[t].lines
  BY DEF TypeOK
<1>2. call[t].lines \in Seq(Line)
  BY <1>1, CallsAssumption
<1>3. call[t].lines[i] \in Line
  BY <1>1, <1>2
<1>4. QED
  BY <1>1, <1>3, CallsAssumption, RowsAssumption DEF Line, Kind, RowOf, QtyOf

\* Every line of a call, processed or not, names a row.
LEMMA RowTypes ==
  ASSUME TypeOK, NEW t \in Requests, NEW i \in DOMAIN call[t].lines
  PROVE  RowOf(t, i) \in Rows /\ RowOf(t, i) \in Int
<1>1. call[t].lines \in Seq(Line)
  BY CallsAssumption DEF TypeOK
<1>2. call[t].lines[i] \in Line
  BY <1>1
<1>3. QED
  BY <1>2, RowsAssumption DEF Line, RowOf

\* What a transaction sees is a version that satisfies the constraints, and the
\* ledger that it sees tells that version.
LEMMA SeenSound ==
  ASSUME IInv, NEW t \in Requests, NEW r \in Rows
  PROVE  /\ Seen(t, r) \in Version /\ Check(Seen(t, r))
         /\ ledger[r] \in Book /\ added[t][r] \in Book /\ SeenBook(t, r) \in Book
         /\ TellsOnHand(SeenBook(t, r), Seen(t, r))
         /\ TellsReserved(SeenBook(t, r), Seen(t, r))
<1>1. /\ Seen(t, r) \in Version /\ Check(Seen(t, r))
      /\ ledger[r] \in Book /\ added[t][r] \in Book
  BY DEF IInv, TypeOK, Checked, Seen
<1>2. Absent \in Version /\ "RECEIPT" \in Movements /\ 0 \in Int
  BY DEF Absent, Empty, Version, Movements
<1>3. SeenBook(t, r) \in Book
  BY <1>1, <1>2, FollowedFacts DEF SeenBook
<1>4. lock[r] # t => SeenBook(t, r) = ledger[r]
  BY <1>1, <1>2, FollowedFacts DEF SeenBook, IInv, HoldersEnter
<1>5. /\ TellsOnHand(SeenBook(t, r), Seen(t, r))
      /\ TellsReserved(SeenBook(t, r), Seen(t, r))
  BY <1>4 DEF IInv, LedgerExact, ReservedRebuilt, Seen
<1>6. QED
  BY <1>1, <1>3, <1>5

\* A row that has just been inserted, or was never there.
LEMMA EmptyRowSound ==
  \A v \in {Absent, Inserted} : v \in Version /\ Check(v) /\ v.onHand = 0 /\ v.reserved = 0
<1>1. ASSUME NEW p \in BOOLEAN
      PROVE  /\ Empty(p) \in Version /\ Check(Empty(p))
             /\ Empty(p).onHand = 0 /\ Empty(p).reserved = 0
  BY DEF Empty, Version, Check
<1>2. QED
  BY <1>1 DEF Absent, Inserted

\* Inserting an empty row takes no ledger row.
LEMMA InsertedTold ==
  ASSUME NEW b, TellsOnHand(b, Absent), TellsReserved(b, Absent)
  PROVE  TellsOnHand(b, Inserted) /\ TellsReserved(b, Inserted)
BY EmptyRowSound DEF TellsOnHand, TellsReserved

\* The ledger of one receipt and one reservation tells their row.
LEMMA OpeningBookTells ==
  ASSUME NEW v \in Version
  PROVE  /\ OpeningBook(v) \in Book
         /\ TellsOnHand(OpeningBook(v), v) /\ TellsReserved(OpeningBook(v), v)
<1> DEFINE E(x) == [delta |-> x, balance |-> x, unreserves |-> FALSE]
           S(x) == IF x = 0 THEN << >> ELSE << E(x) >>
           b == OpeningBook(v)
<1>1. v.onHand \in Int /\ v.reserved \in Int
  BY DEF Version
<1>2. b.moved = S(v.onHand) /\ b.held = S(v.reserved) /\ b = [moved |-> b.moved, held |-> b.held]
  BY DEF OpeningBook
<1>3. ASSUME NEW x \in Int
      PROVE  /\ S(x) \in Seq(Entry)
             /\ DeltasAt(S(x), DOMAIN S(x)) = x
             /\ {k \in DOMAIN S(x) : S(x)[k].unreserves} = {}
             /\ Len(S(x)) = IF x = 0 THEN 0 ELSE 1
  <2> DEFINE e == E(x)
  <2>1. /\ e \in Entry /\ e.delta = x /\ e.unreserves = FALSE
        /\ << >> \in Seq(Entry) /\ << e >> = Append(<< >>, e) /\ Len(<< >>) = 0
    BY DEF Entry
  <2>2. DeltasAt(<< >>, {}) = 0 /\ DOMAIN << >> = {}
    <3>1. DeltasAt(<< >>, {}) = 0
      <4> HIDE DEF e
      <4> QED BY <2>1, DeltasNowhere
    <3>2. DOMAIN << >> = {}
      OBVIOUS
    <3>3. QED
      BY <3>1, <3>2
  <2>3. DeltasAt(<< e >>, {1}) = x
    <3>1. {} \in SUBSET DOMAIN << >> /\ {} \cup {0 + 1} = {1}
      OBVIOUS
    <3> HIDE DEF e
    <3>2. DeltasAt(Append(<< >>, e), {} \cup {Len(<< >>) + 1}) = DeltasAt(<< >>, {}) + e.delta
      BY <2>1, <3>1, DeltasAppend
    <3>3. QED
      BY <2>1, <2>2, <3>1, <3>2
  <2>4. CASE x = 0
    BY <2>1, <2>2, <2>4
  <2>5. CASE x # 0
    <3>1. S(x) = << e >>
      BY <2>5
    <3> HIDE DEF e, S
    <3>2. DOMAIN << e >> = {1} /\ << e >>[1] = e /\ Len(<< e >>) = 1
      OBVIOUS
    <3>3. << e >> \in Seq(Entry)
      BY <2>1
    <3>4. {k \in DOMAIN << e >> : << e >>[k].unreserves} = {}
      BY <2>1, <3>2
    <3>5. QED
      BY <2>3, <2>5, <3>1, <3>2, <3>3, <3>4
  <2>6. QED
    BY <2>4, <2>5
<1>4. b \in Book
  <2> HIDE DEF S, b
  <2> QED BY <1>1, <1>2, <1>3 DEF Book
<1>5. TellsOnHand(b, v)
  <2>1. CASE v.onHand = 0
    BY <1>2, <2>1 DEF TellsOnHand
  <2>2. CASE v.onHand # 0
    BY <1>1, <1>2, <2>2 DEF TellsOnHand
  <2>3. QED
    BY <2>1, <2>2
<1>6. TellsReserved(b, v)
  <2> DEFINE M == {k \in DOMAIN b.moved : b.moved[k].unreserves}
  <2>1. DeltasAt(b.held, DOMAIN b.held) = v.reserved
    <3> HIDE DEF S, b
    <3> QED BY <1>1, <1>2, <1>3
  <2>2. M = {} /\ b.moved \in Seq(Entry)
    <3>1. {k \in DOMAIN S(v.onHand) : S(v.onHand)[k].unreserves} = {}
      BY <1>1, <1>3
    <3> HIDE DEF S, b
    <3>2. QED
      BY <1>1, <1>2, <1>3, <3>1
  <2> HIDE DEF b
  <2>3. DeltasAt(b.moved, M) = 0
    BY <2>2, DeltasNowhere
  <2> HIDE DEF M
  <2>4. v.reserved = DeltasAt(b.held, DOMAIN b.held) + DeltasAt(b.moved, M)
    BY <1>1, <2>1, <2>3
  <2>5. QED
    BY <2>4 DEF TellsReserved, M
<1>7. QED
  BY <1>4, <1>5, <1>6
-----------------------------------------------------------------------------
\* The opening tables satisfy the invariant.
LEMMA InitIInv == Init => IInv
<1> SUFFICES ASSUME Init PROVE IInv
  OBVIOUS
<1>1. /\ com \in [Rows -> Version]
      /\ \A r \in Rows : com[r] = Absent \/ (com[r].present /\ Check(com[r]))
  BY OpeningsAssumption DEF Init
<1>2. \A r \in Rows : Check(com[r])
  BY <1>1, EmptyRowSound
<1>3. \A r \in Rows : /\ ledger[r] = OpeningBook(com[r]) /\ ledger[r] \in Book
                      /\ TellsOnHand(ledger[r], com[r]) /\ TellsReserved(ledger[r], com[r])
  BY <1>1, OpeningBookTells DEF Init
<1>4. NoEntries \in Book
  BY DEF NoEntries, Book
<1>5. TypeOK
  BY <1>1, <1>3, <1>4 DEF Init, TypeOK
<1>6. Quiet /\ HoldersRun /\ HeldBelow /\ HoldersEnter /\ HeldIsPresent /\ EnsuredIsSeen
  BY NobodyAssumption
     DEF Init, Quiet, HoldersRun, HeldBelow, HoldersEnter, HeldIsPresent, EnsuredIsSeen
<1>7. AbsentIsEmpty /\ Checked
  BY <1>1, <1>2 DEF Init, AbsentIsEmpty, Checked
<1>8. LedgerExact /\ ReservedRebuilt
  BY <1>3, NobodyAssumption DEF Init, LedgerExact, ReservedRebuilt
<1>9. ChecksOnlyForDirectIssue
  BY DEF Init, ChecksOnlyForDirectIssue
<1>10. QED
  BY <1>5, <1>6, <1>7, <1>8, <1>9 DEF IInv

\* Rolling back keeps the invariant, whatever the reason is, provided that an
\* IntegrityError comes from a direct issue.
LEMMA RollbackIInv ==
  ASSUME IInv, NEW t \in Requests, status[t] \in Running,
         NEW how \in Ended, Rollback(t, how),
         how = "integrity" => Kind(t) = "DIRECT_ISSUE"
  PROVE  IInv'
<1> /\ cur' = [r \in Rows |-> IF lock[r] = t THEN com[r] ELSE cur[r]]
    /\ added' = [added EXCEPT ![t] = [r \in Rows |-> NoEntries]]
    /\ lock' = [r \in Rows |-> IF lock[r] = t THEN Nobody ELSE lock[r]]
    /\ status' = [status EXCEPT ![t] = how]
    /\ UNCHANGED << com, ledger, call, left >>
  BY DEF Rollback, Unlocked, Cleared
<1>1. NoEntries \in Book
  BY DEF NoEntries, Book
<1>2. TypeOK'
  BY <1>1 DEF IInv, TypeOK
<1>3. Quiet' /\ HoldersRun'
  BY DEF IInv, TypeOK, Quiet, HoldersRun
<1>4. HeldBelow'
  BY NobodyAssumption DEF IInv, TypeOK, HeldBelow, RowOf
<1>5. \A u \in Requests, r \in Rows :
        /\ lock'[r] = u => u # t /\ lock[r] = u /\ cur'[r] = cur[r]
        /\ u # t => added'[u] = added[u] /\ Seen(u, r)' = Seen(u, r)
        /\ added'[t][r] = NoEntries
  BY NobodyAssumption DEF IInv, TypeOK, Seen
<1>6. HoldersEnter'
  BY <1>5 DEF IInv, HoldersEnter
<1>7. AbsentIsEmpty' /\ HeldIsPresent' /\ Checked'
  BY DEF IInv, AbsentIsEmpty, HeldIsPresent, Checked
<1>8. EnsuredIsSeen'
  <2> SUFFICES ASSUME NEW u \in Requests, NEW i \in left[u], status'[u] = "apply", IsNext(u, i)
               PROVE  Seen(u, RowOf(u, i))'.present
    BY DEF EnsuredIsSeen, IsNext, Before, RowOf
  <2>1. u # t /\ status[u] = "apply"
    BY DEF IInv, TypeOK, Ended
  <2>2. RowOf(u, i) \in Rows
    BY LineTypes DEF IInv
  <2>3. Seen(u, RowOf(u, i)).present
    BY <2>1 DEF IInv, EnsuredIsSeen
  <2>4. Seen(u, RowOf(u, i))' = Seen(u, RowOf(u, i))
    BY <1>5, <2>1, <2>2 DEF Seen, RowOf
  <2>5. QED
    BY <2>3, <2>4
<1>9. \A u \in Requests, r \in Rows : lock'[r] = u => SeenBook(u, r)' = SeenBook(u, r)
  BY <1>5 DEF SeenBook
<1>10. LedgerExact' /\ ReservedRebuilt'
  BY <1>5, <1>9 DEF IInv, LedgerExact, ReservedRebuilt
<1>11. ChecksOnlyForDirectIssue'
  BY DEF IInv, TypeOK, ChecksOnlyForDirectIssue, Kind
<1>12. QED
  BY <1>2, <1>3, <1>4, <1>6, <1>7, <1>8, <1>10, <1>11 DEF IInv

\* Inserting a row, or finding it there, keeps the invariant.
LEMMA EnsureRowIInv ==
  ASSUME IInv, NEW t \in Requests, NEW i \in left[t], EnsureRow(t, i) PROVE IInv'
<1> DEFINE r == RowOf(t, i)
<1>1. r \in Rows /\ r \in Int /\ \A j \in left[t] : r <= RowOf(t, j)
  BY LineTypes DEF EnsureRow, IsNext, Before, IInv
<1> /\ status[t] = "ensure" /\ IsNext(t, i) /\ status' = [status EXCEPT ![t] = "apply"]
    /\ UNCHANGED << com, ledger, added, call, left >>
  BY DEF EnsureRow
<1>2. /\ status'[t] = "apply" /\ \A u \in Requests : u # t => status'[u] = status[u]
      /\ status' \in [Requests -> {"idle"} \cup Running \cup Ended]
      /\ com \in [Rows -> Version] /\ cur \in [Rows -> Version]
      /\ lock \in [Rows -> Requests \cup {Nobody}]
      /\ Running = {"ensure", "apply"}
  BY DEF IInv, TypeOK, Running
<1>3. \/ /\ Seen(t, r).present
         /\ UNCHANGED << cur, lock >>
      \/ /\ ~com[r].present /\ lock[r] = Nobody
         /\ cur' = [cur EXCEPT ![r] = Inserted]
         /\ lock' = [lock EXCEPT ![r] = t]
  BY NobodyAssumption DEF EnsureRow, Seen
<1>4. Inserted.present = TRUE /\ Inserted \in Version /\ Check(Inserted)
  BY EmptyRowSound DEF Inserted, Empty
<1>5. \A u \in Requests, s \in Rows :
        /\ lock[s] = u => lock'[s] = u /\ cur'[s] = cur[s]
        /\ u # t => Seen(u, s)' = Seen(u, s)
        /\ lock'[s] = u => \/ lock[s] = u /\ cur'[s] = cur[s]
                           \/ u = t /\ s = r /\ lock[s] = Nobody /\ cur'[s] = Inserted
                              /\ ~com[s].present
  BY <1>1, <1>2, <1>3, NobodyAssumption DEF Seen
<1>6. Seen(t, r)'.present
  <2>1. r' = r
    BY DEF RowOf
  <2>2. (IF lock'[r] = t THEN cur'[r] ELSE com'[r]).present
    BY <1>1, <1>2, <1>3, <1>4 DEF Seen
  <2> HIDE DEF r
  <2>3. QED
    BY <2>1, <2>2 DEF Seen
<1>7. TypeOK'
  <2>1. cur' \in [Rows -> Version] /\ lock' \in [Rows -> Requests \cup {Nobody}]
    <3> HIDE DEF r
    <3> QED BY <1>2, <1>3, <1>4
  <2>2. QED
    BY <1>2, <2>1 DEF IInv, TypeOK
<1>8. Quiet' /\ HoldersRun'
  BY <1>1, <1>2, <1>3, NobodyAssumption DEF IInv, Quiet, HoldersRun
<1>9. HeldBelow'
  BY <1>1, <1>2, <1>3 DEF IInv, HeldBelow, RowOf
<1>10. HoldersEnter'
  BY <1>5 DEF IInv, HoldersEnter
<1>11. AbsentIsEmpty' /\ HeldIsPresent' /\ Checked'
  BY <1>1, <1>2, <1>3, <1>4 DEF IInv, AbsentIsEmpty, HeldIsPresent, Checked
<1>12. EnsuredIsSeen'
  <2> SUFFICES ASSUME NEW u \in Requests, NEW j \in left[u], status'[u] = "apply", IsNext(u, j)
               PROVE  Seen(u, RowOf(u, j))'.present
    BY DEF EnsuredIsSeen, IsNext, Before, RowOf
  <2>1. RowOf(u, j) \in Rows /\ RowOf(u, j) \in Int
    BY LineTypes DEF IInv
  <2>2. CASE u = t
    <3>1. RowOf(t, j) = r
      <4>1. Before(t, i, j) /\ Before(t, j, i)
        BY <2>2 DEF IsNext
      <4>2. QED
        BY <1>1, <2>1, <2>2, <4>1 DEF Before
    <3>2. RowOf(u, j)' = r /\ RowOf(t, i)' = r
      BY <2>2, <3>1 DEF RowOf
    <3>3. QED
      BY <1>6, <2>2, <3>2 DEF Seen
  <2>3. CASE u # t
    <3>1. Seen(u, RowOf(u, j)).present
      BY <1>2, <2>3 DEF IInv, EnsuredIsSeen
    <3>2. Seen(u, RowOf(u, j))' = Seen(u, RowOf(u, j))
      BY <1>5, <2>1, <2>3 DEF Seen, RowOf
    <3>3. QED
      BY <3>1, <3>2
  <2>4. QED
    BY <2>2, <2>3
<1>13. LedgerExact' /\ ReservedRebuilt'
  <2>1. \A s \in Rows : TellsOnHand(ledger[s], com[s]) /\ TellsReserved(ledger[s], com[s])
    BY DEF IInv, LedgerExact, ReservedRebuilt
  <2>2. ASSUME NEW u \in Requests, NEW s \in Rows, lock'[s] = u
        PROVE  TellsOnHand(SeenBook(u, s), cur'[s]) /\ TellsReserved(SeenBook(u, s), cur'[s])
    <3>1. CASE lock[s] = u /\ cur'[s] = cur[s]
      BY <3>1 DEF IInv, LedgerExact, ReservedRebuilt
    <3>2. CASE u = t /\ s = r /\ lock[s] = Nobody /\ cur'[s] = Inserted /\ ~com[s].present
      <4>1. Seen(u, s) = Absent
        BY <3>2, NobodyAssumption DEF IInv, AbsentIsEmpty, Seen
      <4>2. QED
        BY <3>2, <4>1, SeenSound, InsertedTold
    <3>3. QED
      BY <1>5, <2>2, <3>1, <3>2
  <2>3. QED
    BY <2>1, <2>2 DEF LedgerExact, ReservedRebuilt, SeenBook
<1>14. ChecksOnlyForDirectIssue'
  BY <1>2 DEF IInv, ChecksOnlyForDirectIssue, Kind
<1>15. QED
  BY <1>7, <1>8, <1>9, <1>10, <1>11, <1>12, <1>13, <1>14 DEF IInv

\* A line that is applied moves the row and enters the ledger together.
LEMMA ApplyLineIInv ==
  ASSUME IInv, NEW t \in Requests, NEW i \in left[t], ApplyLine(t, i) PROVE IInv'
<1> DEFINE r == RowOf(t, i)
           v == Moved(Seen(t, r), Kind(t), QtyOf(t, i))
           b == Entered(added[t][r], v, Kind(t), QtyOf(t, i))
<1>1. r \in Rows /\ r \in Int /\ \A j \in left[t] : r <= RowOf(t, j)
  BY LineTypes DEF ApplyLine, IsNext, Before, IInv
<1>2. /\ status[t] = "apply" /\ status' = [status EXCEPT ![t] = "ensure"]
      /\ IsNext(t, i) /\ Check(v) /\ lock[r] \in {Nobody, t}
      /\ cur' = [cur EXCEPT ![r] = v] /\ lock' = [lock EXCEPT ![r] = t]
      /\ added' = [added EXCEPT ![t][r] = b]
      /\ left' = [left EXCEPT ![t] = @ \ {i}]
      /\ UNCHANGED << com, ledger, call >>
  <2>1. added' = [added EXCEPT ![t][r] = Entered(@, v, Kind(t), QtyOf(t, i))]
    BY DEF ApplyLine
  <2>2. QED
    BY <2>1 DEF ApplyLine, Free
<1>3. /\ v \in Version /\ b \in Book /\ v.present
      /\ TellsOnHand(Followed(ledger[r], b), v) /\ TellsReserved(Followed(ledger[r], b), v)
  <2>1. /\ Kind(t) \in Movements /\ QtyOf(t, i) \in Int
        /\ Seen(t, r) \in Version /\ ledger[r] \in Book /\ added[t][r] \in Book
        /\ SeenBook(t, r) \in Book
        /\ TellsOnHand(SeenBook(t, r), Seen(t, r)) /\ TellsReserved(SeenBook(t, r), Seen(t, r))
    BY <1>1, LineTypes, SeenSound DEF IInv
  <2>2. v \in Version
    BY <2>1, MovedIsVersion
  <2>3. v.present
    BY <1>2 DEF IInv, EnsuredIsSeen, Moved
  <2>4. /\ TellsOnHand(Entered(SeenBook(t, r), v, Kind(t), QtyOf(t, i)), v)
        /\ TellsReserved(Entered(SeenBook(t, r), v, Kind(t), QtyOf(t, i)), v)
    BY <2>1, MovedKeepsLedger, MovedKeepsReserved
  <2> HIDE DEF v, r
  <2>5. /\ b \in Book
        /\ Followed(ledger[r], b) = Entered(SeenBook(t, r), v, Kind(t), QtyOf(t, i))
    BY <2>1, <2>2, EnteredIsAppend, FollowedFacts DEF SeenBook
  <2>6. QED
    BY <2>2, <2>3, <2>4, <2>5
<1> HIDE DEF r, v, b
<1>4. /\ status' \in [Requests -> {"idle"} \cup Running \cup Ended] /\ status'[t] = "ensure"
      /\ \A u \in Requests : u # t => status'[u] = status[u]
      /\ cur' \in [Rows -> Version] /\ cur'[r] = v /\ lock'[r] = t
      /\ lock' \in [Rows -> Requests \cup {Nobody}]
      /\ \A s \in Rows : s # r => cur'[s] = cur[s] /\ lock'[s] = lock[s]
  BY <1>1, <1>2, <1>3 DEF IInv, TypeOK, Running
<1>5. /\ added' \in [Requests -> [Rows -> Book]] /\ added'[t][r] = b
      /\ \A u \in Requests, s \in Rows : u # t \/ s # r => added'[u][s] = added[u][s]
  <2>1. added \in [Requests -> [Rows -> Book]]
    BY DEF IInv, TypeOK
  <2>2. QED
    BY <1>1, <1>2, <1>3, <2>1
<1>6. /\ DOMAIN left' = Requests /\ left'[t] = left[t] \ {i}
      /\ \A u \in Requests : left'[u] \subseteq left[u] /\ (u # t => left'[u] = left[u])
  BY <1>2 DEF IInv, TypeOK
<1>7. TypeOK'
  BY <1>2, <1>4, <1>5, <1>6 DEF IInv, TypeOK
<1>8. Quiet' /\ HoldersRun'
  BY <1>1, <1>2, <1>4, NobodyAssumption DEF IInv, Quiet, HoldersRun, Running
<1>9. HeldBelow'
  BY <1>1, <1>4, <1>6, <1>2 DEF IInv, HeldBelow, RowOf
<1>10. HoldersEnter'
  BY <1>2, <1>4, <1>5, NobodyAssumption DEF IInv, HoldersEnter
<1>11. AbsentIsEmpty' /\ HeldIsPresent' /\ Checked'
  BY <1>2, <1>3, <1>4, NobodyAssumption DEF IInv, AbsentIsEmpty, HeldIsPresent, Checked
<1>12. EnsuredIsSeen'
  <2> SUFFICES ASSUME NEW u \in Requests, NEW j \in left'[u], status'[u] = "apply", IsNext(u, j)'
               PROVE  Seen(u, RowOf(u, j))'.present
    BY DEF EnsuredIsSeen
  <2>1. u # t /\ left'[u] = left[u] /\ status[u] = "apply"
    BY <1>4, <1>6
  <2>2. IsNext(u, j)
    BY <1>2, <2>1 DEF IsNext, Before, RowOf
  <2>3. RowOf(u, j) \in Rows /\ RowOf(u, j)' = RowOf(u, j)
    BY <1>2, <2>1, LineTypes DEF IInv, RowOf
  <2>4. Seen(u, RowOf(u, j)).present
    BY <2>1, <2>2 DEF IInv, EnsuredIsSeen
  <2>5. Seen(u, RowOf(u, j))' = Seen(u, RowOf(u, j))
    BY <1>2, <1>4, <2>1, <2>3, NobodyAssumption DEF Seen
  <2>6. QED
    BY <2>4, <2>5
<1>13. LedgerExact' /\ ReservedRebuilt'
  <2>1. \A s \in Rows : TellsOnHand(ledger[s], com[s]) /\ TellsReserved(ledger[s], com[s])
    BY DEF IInv, LedgerExact, ReservedRebuilt
  <2>2. ASSUME NEW u \in Requests, NEW s \in Rows, lock'[s] = u
        PROVE  TellsOnHand(SeenBook(u, s)', cur'[s]) /\ TellsReserved(SeenBook(u, s)', cur'[s])
    <3>1. CASE s = r
      BY <1>2, <1>3, <1>4, <1>5, <2>2, <3>1 DEF SeenBook
    <3>2. CASE s # r
      <4>1. lock[s] = u /\ cur'[s] = cur[s] /\ SeenBook(u, s)' = SeenBook(u, s)
        BY <1>2, <1>4, <1>5, <2>2, <3>2 DEF SeenBook
      <4>2. QED
        BY <4>1 DEF IInv, LedgerExact, ReservedRebuilt
    <3>3. QED
      BY <3>1, <3>2
  <2>3. QED
    BY <1>2, <2>1, <2>2 DEF LedgerExact, ReservedRebuilt
<1>14. ChecksOnlyForDirectIssue'
  BY <1>2, <1>4 DEF IInv, ChecksOnlyForDirectIssue, Kind
<1>15. QED
  BY <1>7, <1>8, <1>9, <1>10, <1>11, <1>12, <1>13, <1>14 DEF IInv

\* A commit publishes the versions and the ledger rows of one transaction.
LEMMA CommitIInv ==
  ASSUME IInv, NEW t \in Requests, Commit(t) PROVE IInv'
<1> /\ status[t] = "ensure" /\ status' = [status EXCEPT ![t] = "committed"]
    /\ com' = [r \in Rows |-> IF lock[r] = t THEN cur[r] ELSE com[r]]
    /\ ledger' = [r \in Rows |-> Followed(ledger[r], added[t][r])]
    /\ added' = [added EXCEPT ![t] = [r \in Rows |-> NoEntries]]
    /\ lock' = [r \in Rows |-> IF lock[r] = t THEN Nobody ELSE lock[r]]
    /\ UNCHANGED << cur, call, left >>
  BY DEF Commit, Unlocked, ComBy, LedgerBy, Cleared
<1>1. NoEntries \in Book
  BY DEF NoEntries, Book
<1>2. \A r \in Rows : /\ ledger'[r] = SeenBook(t, r) /\ ledger'[r] \in Book
                      /\ com'[r] = Seen(t, r)
  BY SeenSound DEF SeenBook, Seen
<1>3. TypeOK'
  BY <1>1, <1>2 DEF IInv, TypeOK, Ended
<1>4. Quiet' /\ HoldersRun'
  BY DEF IInv, TypeOK, Quiet, HoldersRun
<1>5. HeldBelow'
  BY NobodyAssumption DEF IInv, TypeOK, HeldBelow, RowOf
<1>6. \A u \in Requests, r \in Rows :
        /\ lock'[r] = u => u # t /\ lock[r] = u /\ com'[r] = com[r]
        /\ u # t => added'[u] = added[u]
        /\ u # t => Seen(u, r)' = Seen(u, r) \/ (lock[r] = t /\ Seen(u, r)' = cur[r])
        /\ added'[t][r] = NoEntries
  BY NobodyAssumption DEF IInv, TypeOK, Seen
<1>7. HoldersEnter'
  BY <1>6 DEF IInv, HoldersEnter
<1>8. AbsentIsEmpty' /\ HeldIsPresent' /\ Checked'
  BY DEF IInv, AbsentIsEmpty, HeldIsPresent, Checked
<1>9. EnsuredIsSeen'
  <2> SUFFICES ASSUME NEW u \in Requests, NEW i \in left[u], status'[u] = "apply", IsNext(u, i)
               PROVE  Seen(u, RowOf(u, i))'.present
    BY DEF EnsuredIsSeen, IsNext, Before, RowOf
  <2>1. u # t /\ status[u] = "apply"
    BY DEF IInv, TypeOK, Running
  <2>2. RowOf(u, i) \in Rows
    BY LineTypes DEF IInv
  <2>3. Seen(u, RowOf(u, i)).present
    BY <2>1 DEF IInv, EnsuredIsSeen
  <2>4. \/ Seen(u, RowOf(u, i))' = Seen(u, RowOf(u, i))
        \/ lock[RowOf(u, i)] = t /\ Seen(u, RowOf(u, i))' = cur[RowOf(u, i)]
    BY <1>6, <2>1, <2>2 DEF Seen, RowOf
  <2>5. lock[RowOf(u, i)] = t => cur[RowOf(u, i)].present
    BY <2>2, NobodyAssumption DEF IInv, HeldIsPresent
  <2>6. QED
    BY <2>3, <2>4, <2>5
<1>10. LedgerExact' /\ ReservedRebuilt'
  <2>1. \A r \in Rows : TellsOnHand(ledger'[r], com'[r]) /\ TellsReserved(ledger'[r], com'[r])
    BY <1>2, SeenSound
  <2>2. ASSUME NEW u \in Requests, NEW r \in Rows, lock'[r] = u
        PROVE  TellsOnHand(SeenBook(u, r)', cur[r]) /\ TellsReserved(SeenBook(u, r)', cur[r])
    <3>1. u # t /\ lock[r] = u
      BY <1>6, <2>2
    <3>2. ledger'[r] = ledger[r]
      <4>1. added[t][r] = NoEntries /\ ledger[r] \in Book
        BY <3>1 DEF IInv, HoldersEnter, TypeOK
      <4>2. Absent \in Version /\ "RECEIPT" \in Movements /\ 0 \in Int
        BY EmptyRowSound DEF Movements
      <4>3. QED
        BY <4>1, <4>2, FollowedFacts
    <3>3. SeenBook(u, r)' = SeenBook(u, r)
      BY <1>6, <3>1, <3>2 DEF SeenBook
    <3>4. QED
      BY <3>1, <3>3 DEF IInv, LedgerExact, ReservedRebuilt
  <2>3. QED
    BY <2>1, <2>2 DEF LedgerExact, ReservedRebuilt
<1>11. ChecksOnlyForDirectIssue'
  BY DEF IInv, TypeOK, ChecksOnlyForDirectIssue, Kind
<1>12. QED
  BY <1>3, <1>4, <1>5, <1>7, <1>8, <1>9, <1>10, <1>11 DEF IInv

\* Every step keeps the invariant.
LEMMA NextIInv == IInv /\ [Next]_vars => IInv'
<1> SUFFICES ASSUME IInv, [Next]_vars PROVE IInv'
  OBVIOUS
<1>1. ASSUME NEW t \in Requests, Begin(t) PROVE IInv'
  <2> /\ status[t] = "idle" /\ status' = [status EXCEPT ![t] = "ensure"]
      /\ UNCHANGED << com, cur, ledger, added, lock, call, left >>
    BY <1>1 DEF Begin
  <2>1. TypeOK' /\ Quiet' /\ HoldersRun' /\ HeldBelow'
    BY DEF Running, Ended, IInv, TypeOK, Quiet, HoldersRun, HeldBelow, RowOf
  <2>2. HoldersEnter' /\ AbsentIsEmpty' /\ HeldIsPresent' /\ Checked'
    BY DEF IInv, HoldersEnter, AbsentIsEmpty, HeldIsPresent, Checked
  <2>3. EnsuredIsSeen'
    BY DEF IInv, TypeOK, EnsuredIsSeen, IsNext, Before, RowOf, Seen
  <2>4. LedgerExact' /\ ReservedRebuilt'
    BY DEF IInv, LedgerExact, ReservedRebuilt, SeenBook
  <2>5. ChecksOnlyForDirectIssue'
    BY DEF IInv, TypeOK, ChecksOnlyForDirectIssue, Kind
  <2>6. QED
    BY <2>1, <2>2, <2>3, <2>4, <2>5 DEF IInv
<1>2. ASSUME NEW t \in Requests, NEW i \in left[t], ConflictLine(t, i) PROVE IInv'
  BY <1>2, RollbackIInv DEF ConflictLine, Running, Ended
<1>3. ASSUME NEW t \in Requests, NEW i \in left[t], ViolateCheck(t, i) PROVE IInv'
  <2>1. Kind(t) = "DIRECT_ISSUE"
    BY <1>3, LineTypes, SeenSound, GuardImpliesCheck DEF ViolateCheck, IInv
  <2>2. QED
    BY <1>3, <2>1, RollbackIInv DEF ViolateCheck, Running, Ended
<1>4. ASSUME NEW t \in Requests, Lose(t) PROVE IInv'
  BY <1>4, RollbackIInv DEF Lose, Ended
<1>5. CASE UNCHANGED vars
  <2> UNCHANGED << com, cur, ledger, added, lock, status, call, left >>
    BY <1>5 DEF vars
  <2>1. TypeOK' /\ Quiet' /\ HoldersRun' /\ HeldBelow'
    BY DEF IInv, TypeOK, Quiet, HoldersRun, HeldBelow, RowOf
  <2>2. HoldersEnter' /\ AbsentIsEmpty' /\ HeldIsPresent' /\ Checked'
    BY DEF IInv, HoldersEnter, AbsentIsEmpty, HeldIsPresent, Checked
  <2>3. EnsuredIsSeen'
    BY DEF IInv, EnsuredIsSeen, IsNext, Before, RowOf, Seen
  <2>4. LedgerExact' /\ ReservedRebuilt'
    BY DEF IInv, LedgerExact, ReservedRebuilt, SeenBook
  <2>5. ChecksOnlyForDirectIssue'
    BY DEF IInv, ChecksOnlyForDirectIssue, Kind
  <2>6. QED
    BY <2>1, <2>2, <2>3, <2>4, <2>5 DEF IInv
<1>6. QED
  BY <1>1, <1>2, <1>3, <1>4, <1>5, EnsureRowIInv, ApplyLineIInv, CommitIInv
     DEF Next, Step, Finished
-----------------------------------------------------------------------------
\* The strengthened invariant holds of every behaviour of the service.
THEOREM Inductive == Spec => []IInv
BY InitIInv, NextIInv, PTL DEF Spec

\* Every variable keeps its type: among others, a request only ever has lines
\* of its own call left.
THEOREM TypeCorrect == Spec => []TypeOK
<1>1. IInv => TypeOK
  BY DEF IInv
<1>2. QED
  BY <1>1, Inductive, PTL

\* However many requests compete for a row, and whatever they ask for, the two
\* tables agree: each balance_after continues the one before it, and the last
\* one is the row's on_hand.
THEOREM LedgerIsExact == Spec => []LedgerExact
<1>1. IInv => LedgerExact
  BY DEF IInv
<1>2. QED
  BY <1>1, Inductive, PTL

\* So they do on the reserved quantity.
THEOREM ReservedIsRebuilt == Spec => []ReservedRebuilt
<1>1. IInv => ReservedRebuilt
  BY DEF IInv
<1>2. QED
  BY <1>1, Inductive, PTL

\* Only a counter sale can be stopped by a CHECK constraint; every other
\* movement is decided by its WHERE clause.
THEOREM GuardsSuffice == Spec => []ChecksOnlyForDirectIssue
<1>1. IInv => ChecksOnlyForDirectIssue
  BY DEF IInv
<1>2. QED
  BY <1>1, Inductive, PTL

\* The rows along a chain of waiting transactions climb, so no set of requests
\* can deadlock, whatever rows they touch and in whatever order they list them.
THEOREM NoWaitCycle == Spec => []WaitsClimb
<1>1. IInv => WaitsClimb
  <2> SUFFICES ASSUME IInv, NEW t \in Requests, NEW u \in Requests, NEW w \in Requests,
                      NEW r \in Rows, NEW s \in Rows,
                      WaitsFor(t, u, r), WaitsFor(u, w, s)
               PROVE  r < s
    BY DEF WaitsClimb
  <2>1. lock[r] = u /\ lock[s] = w /\ w # u
    BY DEF WaitsFor
  <2>2. PICK i \in left[u] : RowOf(u, i) = s
    BY DEF WaitsFor
  <2>3. r <= s
    BY <2>1, <2>2 DEF IInv, HeldBelow
  <2>4. r \in Int /\ s \in Int
    BY RowsAssumption
  <2>5. QED
    BY <2>1, <2>3, <2>4
<1>2. QED
  BY <1>1, Inductive, PTL
-----------------------------------------------------------------------------
\* The implementation of Stock.

\* A row together with what the lines that a call had for it entered in the
\* ledger, and what came of them.
Account == [row: Version, book: Book, verdict: {"fits", "conflict", "integrity"}]

\* The account of lines that fit.
Fits(v, b) == [row |-> v, book |-> b, verdict |-> "fits"]

\* h tells, after each line of call c, what came of them for version v of row r.
IsRun(h, v, c, r) ==
  /\ h \in [0..Len(c.lines) -> Account]
  /\ h[0] = Fits(v, NoEntries)
  /\ \A k \in 1..Len(c.lines) : h[k] = Abstract!Take(h[k - 1], c.kind, r, c.lines[k])

\* The abstract specification speaks of the same statements.
LEMMA SameStatements ==
  ASSUME NEW v, NEW kind, NEW q
  PROVE  /\ Abstract!Guard(v, kind, q) = Guard(v, kind, q)
         /\ Abstract!Moved(v, kind, q) = Moved(v, kind, q)
         /\ Abstract!Check(v) = Check(v)
         /\ \A b : Abstract!Entered(b, v, kind, q) = Entered(b, v, kind, q)
<1>1. Abstract!Guard(v, kind, q) = Guard(v, kind, q)
  BY DEF Guard, Abstract!Guard, Available, Abstract!Available
<1>2. Abstract!QtyDelta(kind, q) = QtyDelta(kind, q)
  BY DEF QtyDelta, Abstract!QtyDelta
<1>3. Abstract!ReservedMovements = ReservedMovements
  BY DEF ReservedMovements, Abstract!ReservedMovements
<1>4. Abstract!Moved(v, kind, q) = Moved(v, kind, q)
  BY <1>2, <1>3 DEF Moved, Abstract!Moved, OnHandDelta, Abstract!OnHandDelta, ReservedDelta,
         Abstract!ReservedDelta
<1>5. Abstract!Check(v) = Check(v)
  BY DEF Check, Abstract!Check
<1>6. ASSUME NEW b PROVE Abstract!Entered(b, v, kind, q) = Entered(b, v, kind, q)
  <2>1. \A balance : Abstract!LedgerRow(kind, q, balance) = LedgerRow(kind, q, balance)
    BY <1>2 DEF LedgerRow, Abstract!LedgerRow
  <2>2. QED
    BY <1>3, <2>1 DEF Entered, Abstract!Entered
<1>7. QED
  BY <1>1, <1>4, <1>5, <1>6

\* And of the same books.
LEMMA SameBooks ==
  /\ Abstract!NoEntries = NoEntries
  /\ \A b, c : Abstract!Followed(b, c) = Followed(b, c)
  /\ \A v : Abstract!OpeningBook(v) = OpeningBook(v)
BY DEF NoEntries, Abstract!NoEntries, Followed, Abstract!Followed, OpeningBook,
       Abstract!OpeningBook

\* What a line does to the account a of its row.
LEMMA TakeLine ==
  ASSUME NEW a \in Account, NEW kind, NEW r, NEW line, a.verdict = "fits", line.row = r,
         NEW w, w = [Moved(a.row, kind, line.qty) EXCEPT !.present = TRUE]
  PROVE  Abstract!Take(a, kind, r, line)
           = IF ~Guard(a.row, kind, line.qty) THEN [a EXCEPT !.verdict = "conflict"]
             ELSE IF ~Check(Moved(a.row, kind, line.qty)) THEN [a EXCEPT !.verdict = "integrity"]
             ELSE Fits(w, Entered(a.book, w, kind, line.qty))
<1>1. /\ Abstract!Guard(a.row, kind, line.qty) = Guard(a.row, kind, line.qty)
      /\ Abstract!Moved(a.row, kind, line.qty) = Moved(a.row, kind, line.qty)
      /\ Abstract!Check(Moved(a.row, kind, line.qty)) = Check(Moved(a.row, kind, line.qty))
      /\ Abstract!Entered(a.book, w, kind, line.qty) = Entered(a.book, w, kind, line.qty)
  BY SameStatements
<1>2. Abstract!Take(a, kind, r, line)
        = IF ~Abstract!Guard(a.row, kind, line.qty) THEN [a EXCEPT !.verdict = "conflict"]
          ELSE IF ~Abstract!Check(Abstract!Moved(a.row, kind, line.qty))
            THEN [a EXCEPT !.verdict = "integrity"]
          ELSE [row |-> [Abstract!Moved(a.row, kind, line.qty) EXCEPT !.present = TRUE],
                book |-> Abstract!Entered(a.book,
                           [Abstract!Moved(a.row, kind, line.qty) EXCEPT !.present = TRUE],
                           kind, line.qty),
                verdict |-> "fits"]
  BY DEF Abstract!Take
<1>3. QED
  BY <1>1, <1>2 DEF Fits

\* A line of another row, and one that comes after one that did not fit.
LEMMA TakeSkips ==
  \A a, kind, r, line :
    a.verdict # "fits" \/ line.row # r => Abstract!Take(a, kind, r, line) = a
BY DEF Abstract!Take

\* A line leaves an account.
LEMMA TakeType ==
  ASSUME NEW a \in Account, NEW kind \in Movements, NEW r, NEW line \in Line
  PROVE  Abstract!Take(a, kind, r, line) \in Account
<1>1. a.row \in Version /\ a.book \in Book /\ line.qty \in Int
  BY DEF Account, Line
<1> DEFINE w == [Moved(a.row, kind, line.qty) EXCEPT !.present = TRUE]
<1>2. w \in Version
  <2>1. Moved(a.row, kind, line.qty) \in Version
    BY <1>1, MovedIsVersion
  <2>2. QED
    BY <2>1 DEF Version
<1>3. w = [Moved(a.row, kind, line.qty) EXCEPT !.present = TRUE]
  OBVIOUS
<1> HIDE DEF w
<1>4. Fits(w, Entered(a.book, w, kind, line.qty)) \in Account
  <2>1. Entered(a.book, w, kind, line.qty) \in Book
    BY <1>1, <1>2, EnteredIsAppend
  <2>2. QED
    BY <1>2, <2>1 DEF Fits, Account
<1>5. /\ [a EXCEPT !.verdict = "conflict"] \in Account
      /\ [a EXCEPT !.verdict = "integrity"] \in Account
  BY DEF Account
<1>6. CASE a.verdict = "fits" /\ line.row = r
  <2>1. Abstract!Take(a, kind, r, line)
          = IF ~Guard(a.row, kind, line.qty) THEN [a EXCEPT !.verdict = "conflict"]
            ELSE IF ~Check(Moved(a.row, kind, line.qty))
              THEN [a EXCEPT !.verdict = "integrity"]
            ELSE Fits(w, Entered(a.book, w, kind, line.qty))
    BY <1>6, <1>3, TakeLine
  <2>2. Abstract!Take(a, kind, r, line)
          \in {[a EXCEPT !.verdict = "conflict"], [a EXCEPT !.verdict = "integrity"],
               Fits(w, Entered(a.book, w, kind, line.qty))}
    BY <2>1
  <2>3. QED
    BY <1>4, <1>5, <2>2
<1>7. CASE ~(a.verdict = "fits" /\ line.row = r)
  BY <1>7, TakeSkips
<1>8. QED
  BY <1>6, <1>7

\* A set of the first n numbers that is not empty has a greatest element.
LEMMA MaxIsMember ==
  ASSUME NEW n \in Nat, NEW T \in SUBSET (1..n), T # {}
  PROVE  Abstract!Max(T) \in T /\ \A y \in T : Abstract!Max(T) >= y
<1> DEFINE D == {n - x : x \in T}
<1>1. D \in SUBSET Nat /\ D # {}
  <2>1. \A x \in T : n - x \in Nat
    OBVIOUS
  <2>2. QED
    BY <2>1
<1>2. PICK d \in D : \A y \in D : d <= y
  <2> HIDE DEF D
  <2> QED BY <1>1, LeastNatural
<1>3. PICK x \in T : d = n - x
  BY <1>2
<1>4. \A y \in T : x >= y
  <2> SUFFICES ASSUME NEW y \in T PROVE x >= y
    OBVIOUS
  <2>1. n - y \in D
    OBVIOUS
  <2>2. n - x <= n - y
    BY <1>2, <1>3, <2>1
  <2>3. x \in Int /\ y \in Int
    OBVIOUS
  <2>4. QED
    BY <2>2, <2>3
<1>5. QED
  BY <1>3, <1>4 DEF Abstract!Max

\* The greatest of the first n numbers.
LEMMA MaxUpTo == ASSUME NEW n \in Nat \ {0} PROVE Abstract!Max(1..n) = n
<1>1. n \in 1..n /\ \A y \in 1..n : n >= y
  OBVIOUS
<1>2. \A x \in 1..n : (\A y \in 1..n : x >= y) => x = n
  OBVIOUS
<1>3. QED
  BY <1>1, <1>2 DEF Abstract!Max

\* The fold of the abstract specification takes the lines in order.
LEMMA OutcomeIsRun ==
  ASSUME NEW v \in Version, NEW c \in Calls, NEW r
  PROVE  \E h : IsRun(h, v, c, r) /\ Abstract!Outcome(v, c, r) = h[Len(c.lines)]
<1> DEFINE lines == c.lines
           n == Len(lines)
           S == DOMAIN lines
           base == Fits(v, NoEntries)
           Next1(g, T) == IF T = {} THEN base
             ELSE Abstract!Take(g[T \ {Abstract!Max(T)}], c.kind, r, lines[Abstract!Max(T)])
           g == CHOOSE g : g = [T \in SUBSET S |-> Next1(g, T)]
           pick == [T \in SUBSET S |-> Abstract!Max(T)]
           step == [p \in S \X Account |-> Abstract!Take(p[2], c.kind, r, lines[p[1]])]
<1>1. /\ c.kind \in Movements /\ lines \in Seq(Line) /\ n \in Nat /\ S = 1..n
      /\ \A i \in S : lines[i] \in Line
  BY CallsAssumption
<1>2. base \in Account /\ IsFiniteSet(S)
  <2>1. NoEntries \in Book
    BY DEF NoEntries, Book
  <2>2. QED
    BY <1>1, <2>1, FS_Interval DEF Account, Fits
<1>3. \A T \in SUBSET S : T # {} => Abstract!Max(T) \in T
  BY <1>1, MaxIsMember
<1>4. \A x \in S, a \in Account : step[<< x, a >>] = Abstract!Take(a, c.kind, r, lines[x])
  OBVIOUS
<1>5. \A x \in S, a \in Account : step[<< x, a >>] \in Account
  <2> SUFFICES ASSUME NEW x \in S, NEW a \in Account PROVE step[<< x, a >>] \in Account
    OBVIOUS
  <2> HIDE DEF step
  <2> QED BY <1>1, <1>4, TakeType
<1>6. PICK k \in [SUBSET S -> Account] : IsFold(k, S, base, pick, step)
  <2>1. \A T \in SUBSET S : T # {} => pick[T] \in T
    BY <1>3
  <2> HIDE DEF S, base, pick, step
  <2> QED BY <1>2, <1>5, <2>1, FoldExists
<1>7. k = [T \in SUBSET S |-> Next1(k, T)]
  <2>1. ASSUME NEW T \in SUBSET S PROVE k[T] = Next1(k, T)
    <3>1. CASE T = {}
      <4> HIDE DEF S, base, pick, step
      <4> QED BY <1>6, <3>1 DEF IsFold
    <3>2. CASE T # {}
      <4>1. pick[T] = Abstract!Max(T) /\ Abstract!Max(T) \in S /\ T \ {Abstract!Max(T)} \in SUBSET S
        BY <1>3, <3>2
      <4>2. k[T] = step[<< Abstract!Max(T), k[T \ {Abstract!Max(T)}] >>]
        <5> HIDE DEF S, base, pick, step
        <5> QED BY <1>6, <3>2, <4>1 DEF IsFold
      <4>3. k[T \ {Abstract!Max(T)}] \in Account
        <5> HIDE DEF S, base, pick, step
        <5> QED BY <1>6, <4>1
      <4> HIDE DEF S, base, pick, step
      <4>4. QED
        BY <1>4, <3>2, <4>1, <4>2, <4>3
    <3>3. QED
      BY <3>1, <3>2
  <2> HIDE DEF S, Next1
  <2>2. QED
    BY <1>6, <2>1
<1>8. g = [T \in SUBSET S |-> Next1(g, T)]
  <2> HIDE DEF S, Next1
  <2> QED BY <1>7
<1>9. Abstract!Outcome(v, c, r) = g[S]
  BY SameBooks DEF Abstract!Outcome, Abstract!FoldLeft, Abstract!MapThenFoldSet, Fits
<1> HIDE DEF g
<1>10. g \in [SUBSET S -> Account]
  <2> DEFINE B == {T \in SUBSET S : g[T] \notin Account}
  <2>1. SUFFICES ASSUME B # {} PROVE FALSE
    <3>1. DOMAIN g = SUBSET S /\ g = [T \in SUBSET S |-> g[T]]
      <4> HIDE DEF S, Next1
      <4> QED BY <1>8
    <3> HIDE DEF S
    <3>2. QED
      BY <2>1, <3>1
  <2>2. PICK T \in B : \A U \in B : U \subseteq T => U = T
    <3>1. B \in SUBSET SUBSET S
      OBVIOUS
    <3> HIDE DEF B, S
    <3>2. QED
      BY <1>2, <2>1, <3>1, MinimalSubset
  <2>3. T # {}
    BY <1>2, <1>8
  <2>4. Abstract!Max(T) \in T /\ T \in SUBSET S
    BY <1>3, <2>3
  <2>5. g[T \ {Abstract!Max(T)}] \in Account
    BY <2>2, <2>4
  <2>6. g[T] = Abstract!Take(g[T \ {Abstract!Max(T)}], c.kind, r, lines[Abstract!Max(T)])
    <3>1. g[T] = Next1(g, T)
      <4> HIDE DEF Next1
      <4> QED BY <1>8, <2>4
    <3>2. QED
      BY <2>3, <3>1
  <2>7. QED
    BY <1>1, <2>4, <2>5, <2>6, TakeType
<1>11. QED
  <2> DEFINE h == [m \in 0..n |-> g[1..m]]
  <2>1. g[{}] = base
    BY <1>8
  <2>2. h \in [0..n -> Account] /\ h[0] = base
    BY <1>1, <1>10, <2>1
  <2>3. ASSUME NEW m \in 1..n
        PROVE  h[m] = Abstract!Take(h[m - 1], c.kind, r, lines[m])
    <3>1. Abstract!Max(1..m) = m /\ 1..m \in SUBSET S /\ 1..m # {} /\ (1..m) \ {m} = 1..(m - 1)
      BY <1>1, MaxUpTo
    <3>2. h[m] = g[1..m] /\ h[m - 1] = g[1..(m - 1)]
      BY <1>1
    <3>3. g[1..m] = Next1(g, 1..m)
      <4> HIDE DEF Next1
      <4> QED BY <1>8, <3>1
    <3>4. QED
      BY <3>1, <3>2, <3>3
  <2>4. h[n] = g[S]
    BY <1>1
  <2> HIDE DEF h
  <2>5. QED
    BY <1>9, <2>2, <2>3, <2>4 DEF IsRun

\* Nothing happens between positions i and k that changes the account.
LEMMA RunStays ==
  ASSUME NEW n \in Nat, NEW h, NEW i \in 0..n, NEW k \in i..n,
         \A m \in (i + 1)..k : h[m - 1] = h[i] => h[m] = h[i]
  PROVE  h[k] = h[i]
<1> DEFINE P == {d \in Nat : i + d <= k => h[i + d] = h[i]}
<1>1. 0 \in P
  OBVIOUS
<1>2. ASSUME NEW d \in P PROVE d + 1 \in P
  <2>1. SUFFICES ASSUME i + (d + 1) <= k PROVE h[i + (d + 1)] = h[i]
    OBVIOUS
  <2>2. d \in Nat /\ h[i + d] = h[i]
    BY <2>1
  <2>3. i + (d + 1) \in (i + 1)..k /\ (i + (d + 1)) - 1 = i + d
    BY <2>1, <2>2
  <2>4. QED
    BY <2>2, <2>3
<1>3. P = Nat
  <2>1. P \in SUBSET Nat
    OBVIOUS
  <2> HIDE DEF P
  <2>2. QED
    BY <1>1, <1>2, <2>1, NaturalInduction
<1>4. k - i \in Nat /\ i + (k - i) = k
  OBVIOUS
<1>5. k - i \in P
  <2> HIDE DEF P
  <2> QED BY <1>3, <1>4
<1>6. QED
  BY <1>4, <1>5

\* The lines of other rows change nothing.
LEMMA SkipLines ==
  ASSUME NEW c \in Calls, NEW r, NEW v, NEW h, IsRun(h, v, c, r),
         NEW i \in 0..Len(c.lines), NEW k \in i..Len(c.lines),
         \A m \in (i + 1)..k : c.lines[m].row # r
  PROVE  h[k] = h[i]
<1>1. Len(c.lines) \in Nat
  BY CallsAssumption
<1>2. \A m \in (i + 1)..k : m \in 1..Len(c.lines)
  BY <1>1
<1>3. ASSUME NEW m \in (i + 1)..k PROVE h[m] = h[m - 1]
  <2>1. c.lines[m].row # r /\ h[m] = Abstract!Take(h[m - 1], c.kind, r, c.lines[m])
    BY <1>2 DEF IsRun
  <2>2. QED
    BY <2>1, TakeSkips
<1>4. QED
  <2>1. PICK n \in Nat : n = Len(c.lines)
    BY <1>1
  <2>2. i \in 0..n /\ k \in i..n
    BY <2>1
  <2>3. \A m \in (i + 1)..k : h[m - 1] = h[i] => h[m] = h[i]
    BY <1>3
  <2>4. QED
    BY <2>2, <2>3, RunStays

\* Once a line did not fit, the verdict stands.
LEMMA VerdictStands ==
  ASSUME NEW c \in Calls, NEW r, NEW v, NEW h, IsRun(h, v, c, r),
         NEW i \in 0..Len(c.lines), NEW k \in i..Len(c.lines),
         h[i].verdict # "fits"
  PROVE  h[k] = h[i]
<1>1. Len(c.lines) \in Nat
  BY CallsAssumption
<1>2. \A m \in (i + 1)..k : m \in 1..Len(c.lines)
  BY <1>1
<1>3. \A m \in (i + 1)..k : h[m - 1] = h[i] => h[m] = h[i]
  BY <1>2, TakeSkips DEF IsRun
<1>4. QED
  BY <1>1, <1>3, RunStays
-----------------------------------------------------------------------------
\* Where a transaction is in its call, and what it has done so far.

\* Line i of t's call has been processed.
Done(t, i) == i \in DOMAIN call[t].lines \ left[t]

\* t has processed the lines of row r among the first k and none of the others.
Split(t, r, k) ==
  /\ k \in 0..Len(call[t].lines)
  /\ \A j \in DOMAIN call[t].lines : RowOf(t, j) = r => (Done(t, j) <=> j <= k)

\* The lines are processed in their order.
DoneFirst ==
  \A t \in Requests : \A i \in left[t], j \in DOMAIN call[t].lines :
    Done(t, j) => Before(t, j, i)

\* A transaction holds the rows of the lines it has processed ...
DoneIsHeld ==
  \A t \in Requests : \A j \in DOMAIN call[t].lines :
    status[t] \in Running /\ Done(t, j) => lock[RowOf(t, j)] = t

\* Row r is there only since t has inserted it, and has not moved yet.
JustInserted(t, r) == cur[r] = Inserted /\ com[r] = Absent /\ added[t][r] = NoEntries

\* ... and besides them at most the row that it has just inserted.
HeldIsDone ==
  \A t \in Requests, r \in Rows :
    lock[r] = t =>
      \E j \in DOMAIN call[t].lines :
        /\ RowOf(t, j) = r
        /\ Done(t, j) \/ JustInserted(t, r)

\* A request that has not begun has processed no line.
FreshHasAll ==
  \A t \in Requests : status[t] = "idle" => left[t] = DOMAIN call[t].lines

\* Its version of a row, and its ledger rows for it, are what the lines that it
\* has processed make of the version it found.
VersionIsRun ==
  \A t \in Requests, r \in Rows : \A k, h :
    /\ status[t] \in Running
    /\ \E j \in DOMAIN call[t].lines : RowOf(t, j) = r /\ Done(t, j)
    /\ Split(t, r, k)
    /\ IsRun(h, com[r], call[t], r)
    => h[k] = Fits(cur[r], added[t][r])

\* The inductive invariant of the refinement.
RInv ==
  /\ IInv
  /\ FreshHasAll
  /\ DoneFirst
  /\ DoneIsHeld
  /\ HeldIsDone
  /\ VersionIsRun
-----------------------------------------------------------------------------
\* A row that was not there takes a line as the row that has been inserted does.
LEMMA FirstLine ==
  ASSUME NEW kind \in Movements, NEW q \in Int
  PROVE  /\ Guard(Absent, kind, q) <=> Guard(Inserted, kind, q)
         /\ Check(Moved(Absent, kind, q)) <=> Check(Moved(Inserted, kind, q))
         /\ [Moved(Absent, kind, q) EXCEPT !.present = TRUE] = Moved(Inserted, kind, q)
<1>1. \A v \in {Absent, Inserted} : v.onHand = 0 /\ v.reserved = 0
  BY DEF Absent, Inserted, Empty
<1>2. Inserted.present = TRUE
  BY DEF Inserted, Empty
<1>3. /\ Guard(Absent, kind, q) <=> Guard(Inserted, kind, q)
  BY <1>1 DEF Guard, Available
<1> DEFINE x == Moved(Absent, kind, q)
           y == Moved(Inserted, kind, q)
<1>4. x.onHand = y.onHand /\ x.reserved = y.reserved /\ y.present = TRUE
  BY <1>1, <1>2 DEF Moved
<1>5. x \in Version /\ y \in Version
  BY EmptyRowSound, MovedIsVersion
<1> HIDE DEF x, y
<1>6. Check(x) <=> Check(y)
  BY <1>4 DEF Check
<1>7. [x EXCEPT !.present = TRUE] = y
  BY <1>4, <1>5 DEF Version
<1>8. QED
  BY <1>3, <1>6, <1>7 DEF x, y

\* A version that is there stays there.
LEMMA MovedStays ==
  ASSUME NEW v \in Version, NEW kind \in Movements, NEW q \in Int, v.present
  PROVE  [Moved(v, kind, q) EXCEPT !.present = TRUE] = Moved(v, kind, q)
<1> DEFINE w == Moved(v, kind, q)
<1>1. w \in Version /\ w.present = TRUE
  <2>1. w \in Version
    BY MovedIsVersion
  <2>2. w.present = v.present /\ v.present = TRUE
    BY DEF Moved, Version
  <2>3. QED
    BY <2>1, <2>2
<1> HIDE DEF w
<1>2. [w EXCEPT !.present = TRUE] = w
  BY <1>1 DEF Version
<1>3. QED
  BY <1>2 DEF w

\* At its next line a transaction has processed exactly the lines before it,
\* and sees what they make of the committed version; its ledger rows are theirs.
LEMMA AtNextLine ==
  ASSUME RInv, NEW t \in Requests, NEW i \in left[t],
         status[t] = "apply", IsNext(t, i),
         NEW h, IsRun(h, com[RowOf(t, i)], call[t], RowOf(t, i))
  PROVE  /\ Split(t, RowOf(t, i), i - 1)
         /\ h[i - 1].verdict = "fits"
         /\ h[i - 1].book = added[t][RowOf(t, i)]
         /\ \/ h[i - 1].row = Seen(t, RowOf(t, i))
            \/ h[i - 1].row = Absent /\ Seen(t, RowOf(t, i)) = Inserted
<1> DEFINE r == RowOf(t, i)
           n == Len(call[t].lines)
<1>1. /\ r \in Rows /\ r \in Int /\ i \in 1..n /\ n \in Nat /\ DOMAIN call[t].lines = 1..n
      /\ call[t] \in Calls
  BY LineTypes, CallsAssumption DEF RInv, IInv, TypeOK
<1>2. \A j \in 1..n : RowOf(t, j) = r => (Done(t, j) <=> j <= i - 1)
  <2> SUFFICES ASSUME NEW j \in 1..n, RowOf(t, j) = r PROVE Done(t, j) <=> j <= i - 1
    OBVIOUS
  <2>1. ASSUME Done(t, j) PROVE j <= i - 1
    <3>1. Before(t, j, i)
      BY <1>1, <2>1 DEF RInv, DoneFirst
    <3>2. j # i
      BY <2>1 DEF Done
    <3> HIDE DEF r
    <3>3. j <= i
      BY <1>1, <3>1 DEF Before, r
    <3>4. QED
      BY <1>1, <3>2, <3>3
  <2>2. ASSUME ~Done(t, j) PROVE ~(j <= i - 1)
    <3>1. j \in left[t]
      BY <1>1, <2>2 DEF Done
    <3>2. Before(t, i, j)
      BY <3>1 DEF IsNext
    <3> HIDE DEF r
    <3>3. i <= j
      BY <1>1, <3>2 DEF Before, r
    <3>4. QED
      BY <1>1, <3>3
  <2>3. QED
    BY <2>1, <2>2
<1>3. Split(t, r, i - 1)
  BY <1>1, <1>2 DEF Split
<1>4. Running = {"ensure", "apply"} /\ status[t] \in Running
  BY DEF Running
<1>5. CASE \E j \in 1..n : RowOf(t, j) = r /\ Done(t, j)
  <2>1. lock[r] = t
    BY <1>1, <1>4, <1>5 DEF RInv, DoneIsHeld
  <2>2. h[i - 1] = Fits(cur[r], added[t][r])
    BY <1>1, <1>3, <1>4, <1>5 DEF RInv, VersionIsRun
  <2>3. QED
    BY <1>3, <2>1, <2>2 DEF Seen, Fits
<1>6. CASE \A j \in 1..n : RowOf(t, j) = r => ~Done(t, j)
  <2>1. h[i - 1] = Fits(com[r], NoEntries)
    <3>1. \A j \in (0 + 1)..(i - 1) : call[t].lines[j].row # r
      <4> SUFFICES ASSUME NEW j \in (0 + 1)..(i - 1), RowOf(t, j) = r PROVE FALSE
        BY DEF RowOf
      <4> HIDE DEF r
      <4>1. j \in 1..n /\ j <= i - 1
        BY <1>1
      <4>2. QED
        BY <1>2, <1>6, <4>1
    <3>2. h[0] = Fits(com[r], NoEntries)
      BY DEF IsRun
    <3>3. 0 \in 0..n /\ i - 1 \in 0..n
      BY <1>1
    <3> DEFINE c == call[t]
    <3>4. c \in Calls /\ IsRun(h, com[r], c, r) /\ \A j \in (0 + 1)..(i - 1) : c.lines[j].row # r
      BY <1>1, <3>1
    <3>5. 0 \in 0..Len(c.lines) /\ i - 1 \in 0..Len(c.lines)
      BY <3>3
    <3> HIDE DEF r, c
    <3>6. h[i - 1] = h[0]
      BY <3>4, <3>5, SkipLines
    <3>7. QED
      BY <3>2, <3>6
  <2>2. lock[r] = t => JustInserted(t, r)
    BY <1>1, <1>6 DEF RInv, HeldIsDone
  <2>3. added[t][r] = NoEntries
    BY <1>1, <2>2 DEF RInv, IInv, HoldersEnter, JustInserted
  <2>4. QED
    BY <1>3, <2>1, <2>2, <2>3 DEF Seen, Fits, JustInserted
<1>7. QED
  BY <1>5, <1>6

\* So the transaction's next statement does to its version of the row what the
\* abstract call does with that line.
LEMMA NextLineTaken ==
  ASSUME RInv, NEW t \in Requests, NEW i \in left[t],
         status[t] = "apply", IsNext(t, i),
         NEW h, IsRun(h, com[RowOf(t, i)], call[t], RowOf(t, i)),
         NEW s, s = Seen(t, RowOf(t, i)),
         NEW v, v = Moved(s, Kind(t), QtyOf(t, i))
  PROVE  h[i] = IF ~Guard(s, Kind(t), QtyOf(t, i))
                  THEN [h[i - 1] EXCEPT !.verdict = "conflict"]
                ELSE IF ~Check(v)
                  THEN [h[i - 1] EXCEPT !.verdict = "integrity"]
                ELSE Fits(v, Entered(added[t][RowOf(t, i)], v, Kind(t), QtyOf(t, i)))
<1> DEFINE r == RowOf(t, i)
           kind == Kind(t)
           q == QtyOf(t, i)
           a == h[i - 1]
           n == Len(call[t].lines)
           w == [Moved(a.row, kind, q) EXCEPT !.present = TRUE]
<1>1. /\ r \in Rows /\ kind \in Movements /\ q \in Int
      /\ i \in 1..n /\ n \in Nat
  BY LineTypes, CallsAssumption DEF RInv, IInv, TypeOK
<1>2. s \in Version /\ s.present
  BY <1>1, SeenSound DEF RInv, IInv, EnsuredIsSeen
<1>3. /\ a \in Account /\ a.verdict = "fits" /\ a.book = added[t][r]
      /\ a.row = s \/ (a.row = Absent /\ s = Inserted)
  <2>1. i - 1 \in 0..n
    BY <1>1
  <2>2. QED
    BY <2>1, AtNextLine DEF IsRun
<1>4. h[i] = Abstract!Take(a, kind, r, call[t].lines[i])
  BY <1>1 DEF IsRun, Kind
<1>5. /\ Guard(a.row, kind, q) <=> Guard(s, kind, q)
      /\ Check(Moved(a.row, kind, q)) <=> Check(Moved(s, kind, q))
      /\ w = Moved(s, kind, q)
  <2>1. CASE a.row = s
    BY <1>1, <1>2, <2>1, MovedStays
  <2>2. CASE a.row = Absent /\ s = Inserted
    BY <1>1, <2>2, FirstLine
  <2>3. QED
    BY <1>3, <2>1, <2>2
<1>6. call[t].lines[i].row = r /\ call[t].lines[i].qty = q
  BY DEF RowOf, QtyOf
<1>7. h[i] = IF ~Guard(a.row, kind, q) THEN [a EXCEPT !.verdict = "conflict"]
             ELSE IF ~Check(Moved(a.row, kind, q)) THEN [a EXCEPT !.verdict = "integrity"]
             ELSE Fits(w, Entered(a.book, w, kind, q))
  <2>1. w = [Moved(a.row, kind, q) EXCEPT !.present = TRUE]
    OBVIOUS
  <2> DEFINE line == call[t].lines[i]
  <2>2. line.row = r /\ line.qty = q /\ h[i] = Abstract!Take(a, kind, r, line)
    BY <1>4, <1>6
  <2> HIDE DEF a, kind, q, r, w, line
  <2>3. w = [Moved(a.row, kind, line.qty) EXCEPT !.present = TRUE]
    BY <2>1, <2>2
  <2>4. Abstract!Take(a, kind, r, line)
          = IF ~Guard(a.row, kind, line.qty) THEN [a EXCEPT !.verdict = "conflict"]
            ELSE IF ~Check(Moved(a.row, kind, line.qty))
              THEN [a EXCEPT !.verdict = "integrity"]
            ELSE Fits(w, Entered(a.book, w, kind, line.qty))
    BY <1>3, <2>2, <2>3, TakeLine
  <2>5. QED
    BY <2>2, <2>4
<1> HIDE DEF a, kind, q, r, w
<1>8. w = v
  BY <1>5 DEF kind, q
<1>9. QED
  BY <1>3, <1>5, <1>7, <1>8 DEF a, kind, q, r
-----------------------------------------------------------------------------
\* The opening tables: nobody has processed a line or holds a row.
LEMMA InitRInv == Init => RInv
<1> SUFFICES ASSUME Init PROVE RInv
  OBVIOUS
<1>1. IInv
  BY InitIInv
<1>2. \A t \in Requests : \A j : ~Done(t, j)
  BY DEF Init, Done
<1>3. FreshHasAll /\ HeldIsDone
  BY NobodyAssumption DEF Init, FreshHasAll, HeldIsDone
<1>4. DoneFirst /\ DoneIsHeld /\ VersionIsRun
  BY <1>2 DEF DoneFirst, DoneIsHeld, VersionIsRun
<1>5. QED
  BY <1>1, <1>3, <1>4 DEF RInv

\* A request that starts has not processed anything.
LEMMA BeginRInv ==
  ASSUME RInv, NEW t \in Requests, Begin(t) PROVE RInv'
<1>1. IInv'
  <2>1. [Next]_vars
    BY DEF Next, Step
  <2>2. QED
    BY <2>1, NextIInv DEF RInv
<1> /\ status[t] = "idle" /\ status' = [status EXCEPT ![t] = "ensure"]
    /\ UNCHANGED << com, cur, ledger, added, lock, call, left >>
  BY DEF Begin
<1>2. status \in [Requests -> {"idle"} \cup Running \cup Ended]
  BY DEF RInv, IInv, TypeOK
<1>3. FreshHasAll'
  BY <1>2 DEF RInv, FreshHasAll
<1>4. DoneFirst' /\ HeldIsDone'
  BY DEF RInv, DoneFirst, HeldIsDone, JustInserted, Done, Before, RowOf
<1>5. \A j : ~Done(t, j)
  BY DEF RInv, FreshHasAll, Done
<1>6. DoneIsHeld'
  BY <1>2, <1>5 DEF RInv, DoneIsHeld, Done, RowOf
<1>7. VersionIsRun'
  <2> SUFFICES ASSUME NEW u \in Requests, NEW r \in Rows, NEW k, NEW h,
                      status'[u] \in Running,
                      \E j \in DOMAIN call[u].lines : RowOf(u, j) = r /\ Done(u, j),
                      Split(u, r, k),
                      IsRun(h, com[r], call[u], r)
               PROVE  h[k] = Fits(cur[r], added[u][r])
    BY DEF VersionIsRun, Split, Done, RowOf
  <2>1. u # t
    BY <1>5
  <2>2. status[u] \in Running
    BY <1>2, <2>1
  <2>3. QED
    BY <2>2 DEF RInv, VersionIsRun
<1>8. QED
  BY <1>1, <1>3, <1>4, <1>6, <1>7 DEF RInv

\* A request that rolls back gives up its rows; nobody else's change.
LEMMA RollbackRInv ==
  ASSUME RInv, IInv', NEW t \in Requests, NEW how \in Ended, Rollback(t, how)
  PROVE  RInv'
<1> /\ cur' = [r \in Rows |-> IF lock[r] = t THEN com[r] ELSE cur[r]]
    /\ added' = [added EXCEPT ![t] = [r \in Rows |-> NoEntries]]
    /\ lock' = [r \in Rows |-> IF lock[r] = t THEN Nobody ELSE lock[r]]
    /\ status' = [status EXCEPT ![t] = how]
    /\ UNCHANGED << com, ledger, call, left >>
  BY DEF Rollback, Unlocked, Cleared
<1>1. /\ status'[t] \notin Running /\ status'[t] # "idle"
      /\ \A u \in Requests : u # t => status'[u] = status[u]
  BY DEF RInv, IInv, TypeOK, Running, Ended
<1>2. \A u \in Requests, r \in Rows :
        /\ lock'[r] = u => u # t /\ lock[r] = u /\ cur'[r] = cur[r] /\ added'[u] = added[u]
        /\ u # t /\ lock[r] = u => lock'[r] = u
  BY NobodyAssumption
<1>3. FreshHasAll' /\ DoneFirst'
  BY <1>1 DEF RInv, FreshHasAll, DoneFirst, Done, Before, RowOf
<1>4. DoneIsHeld'
  <2> SUFFICES ASSUME NEW u \in Requests, NEW j \in DOMAIN call[u].lines,
                      status'[u] \in Running, Done(u, j)
               PROVE  lock'[RowOf(u, j)] = u
    BY DEF DoneIsHeld, Done, RowOf
  <2>1. u # t /\ lock[RowOf(u, j)] = u
    BY <1>1 DEF RInv, DoneIsHeld
  <2>2. RowOf(u, j) \in Rows
    BY RowTypes DEF RInv, IInv
  <2>3. QED
    BY <1>2, <2>1, <2>2
<1>5. HeldIsDone'
  <2> SUFFICES ASSUME NEW u \in Requests, NEW r \in Rows, lock'[r] = u
               PROVE  \E j \in DOMAIN call[u].lines :
                        RowOf(u, j) = r /\ (Done(u, j) \/ JustInserted(u, r)')
    BY DEF HeldIsDone, Done, RowOf
  <2>1. lock[r] = u /\ (JustInserted(u, r) => JustInserted(u, r)')
    BY <1>2 DEF JustInserted
  <2>2. QED
    BY <2>1 DEF RInv, HeldIsDone
<1>6. VersionIsRun'
  <2> SUFFICES ASSUME NEW u \in Requests, NEW r \in Rows, NEW k, NEW h,
                      status'[u] \in Running,
                      \E j \in DOMAIN call[u].lines : RowOf(u, j) = r /\ Done(u, j),
                      Split(u, r, k),
                      IsRun(h, com[r], call[u], r)
               PROVE  h[k] = Fits(cur'[r], added'[u][r])
    BY DEF VersionIsRun, Split, Done, RowOf
  <2>1. u # t /\ status[u] \in Running
    BY <1>1
  <2>2. lock[r] = u
    BY <2>1 DEF RInv, DoneIsHeld
  <2>3. cur'[r] = cur[r] /\ added'[u] = added[u]
    BY <1>2, <2>1, <2>2
  <2>4. QED
    BY <2>1, <2>3 DEF RInv, VersionIsRun
<1>7. QED
  BY <1>3, <1>4, <1>5, <1>6 DEF RInv

\* Inserting a row, or finding it there, processes no line.
LEMMA EnsureRowRInv ==
  ASSUME RInv, NEW t \in Requests, NEW i \in left[t], EnsureRow(t, i) PROVE RInv'
<1> DEFINE r == RowOf(t, i)
<1>1. IInv'
  BY EnsureRowIInv DEF RInv
<1> /\ status[t] = "ensure" /\ IsNext(t, i) /\ status' = [status EXCEPT ![t] = "apply"]
    /\ UNCHANGED << com, ledger, added, call, left >>
  BY DEF EnsureRow
<1>2. r \in Rows /\ r \in Int /\ i \in DOMAIN call[t].lines
  BY LineTypes DEF RInv, IInv, TypeOK
<1>3. /\ status \in [Requests -> {"idle"} \cup Running \cup Ended] /\ status'[t] = "apply"
      /\ \A u \in Requests : u # t => status'[u] = status[u]
  BY DEF RInv, IInv, TypeOK
<1>4. \/ /\ Seen(t, r).present
         /\ UNCHANGED << cur, lock >>
      \/ /\ ~com[r].present /\ lock[r] = Nobody
         /\ cur' = [cur EXCEPT ![r] = Inserted]
         /\ lock' = [lock EXCEPT ![r] = t]
  BY NobodyAssumption DEF EnsureRow, Seen
<1>5. /\ com \in [Rows -> Version] /\ cur \in [Rows -> Version]
      /\ lock \in [Rows -> Requests \cup {Nobody}]
  BY DEF RInv, IInv, TypeOK
<1>6. \A u \in Requests, s \in Rows :
        /\ lock[s] = u => lock'[s] = u /\ cur'[s] = cur[s]
        /\ lock'[s] = u => \/ lock[s] = u /\ cur'[s] = cur[s]
                           \/ u = t /\ s = r /\ lock[s] = Nobody /\ cur'[s] = Inserted
                              /\ ~com[s].present
  BY <1>2, <1>4, <1>5, NobodyAssumption
<1>7. FreshHasAll' /\ DoneFirst'
  BY <1>3 DEF RInv, FreshHasAll, DoneFirst, Done, Before, RowOf
<1>8. \A u \in Requests : status'[u] \in Running => status[u] \in Running
  BY <1>3 DEF Running
<1>9. DoneIsHeld'
  <2> SUFFICES ASSUME NEW u \in Requests, NEW j \in DOMAIN call[u].lines,
                      status'[u] \in Running, Done(u, j)
               PROVE  lock'[RowOf(u, j)] = u
    BY DEF DoneIsHeld, Done, RowOf
  <2>1. lock[RowOf(u, j)] = u
    BY <1>8 DEF RInv, DoneIsHeld
  <2>2. RowOf(u, j) \in Rows
    BY RowTypes DEF RInv, IInv
  <2>3. QED
    BY <1>6, <2>1, <2>2
<1>10. HeldIsDone'
  <2> SUFFICES ASSUME NEW u \in Requests, NEW s \in Rows, lock'[s] = u
               PROVE  \E j \in DOMAIN call[u].lines :
                        RowOf(u, j) = s /\ (Done(u, j) \/ JustInserted(u, s)')
    BY DEF HeldIsDone, Done, RowOf
  <2>1. CASE lock[s] = u /\ cur'[s] = cur[s]
    BY <2>1 DEF RInv, HeldIsDone, JustInserted
  <2>2. CASE u = t /\ s = r /\ lock[s] = Nobody /\ cur'[s] = Inserted /\ ~com[s].present
    <3>1. com[s] = Absent /\ added[u][s] = NoEntries
      BY <2>2, NobodyAssumption DEF RInv, IInv, AbsentIsEmpty, HoldersEnter
    <3>2. QED
      BY <1>2, <2>2, <3>1 DEF JustInserted
  <2>3. QED
    BY <1>6, <2>1, <2>2
<1>11. VersionIsRun'
  <2> SUFFICES ASSUME NEW u \in Requests, NEW s \in Rows, NEW k, NEW h,
                      status'[u] \in Running,
                      \E j \in DOMAIN call[u].lines : RowOf(u, j) = s /\ Done(u, j),
                      Split(u, s, k),
                      IsRun(h, com[s], call[u], s)
               PROVE  h[k] = Fits(cur'[s], added[u][s])
    BY DEF VersionIsRun, Split, Done, RowOf
  <2>1. status[u] \in Running /\ lock[s] = u
    BY <1>8 DEF RInv, DoneIsHeld
  <2>2. cur'[s] = cur[s]
    BY <1>6, <2>1
  <2>3. QED
    BY <2>1, <2>2 DEF RInv, VersionIsRun
<1>12. QED
  BY <1>1, <1>7, <1>9, <1>10, <1>11 DEF RInv

\* Committing gives up the rows, with the new versions.
LEMMA CommitRInv ==
  ASSUME RInv, NEW t \in Requests, Commit(t) PROVE RInv'
<1>1. IInv'
  BY CommitIInv DEF RInv
<1> /\ com' = [r \in Rows |-> IF lock[r] = t THEN cur[r] ELSE com[r]]
    /\ added' = [added EXCEPT ![t] = [r \in Rows |-> NoEntries]]
    /\ lock' = [r \in Rows |-> IF lock[r] = t THEN Nobody ELSE lock[r]]
    /\ status' = [status EXCEPT ![t] = "committed"]
    /\ UNCHANGED << cur, call, left >>
  BY DEF Commit, Unlocked, ComBy, Cleared
<1>2. /\ status'[t] \notin Running /\ status'[t] # "idle"
      /\ \A u \in Requests : u # t => status'[u] = status[u]
  BY DEF RInv, IInv, TypeOK, Running
<1>3. \A u \in Requests, r \in Rows :
        /\ lock'[r] = u => u # t /\ lock[r] = u /\ com'[r] = com[r] /\ added'[u] = added[u]
        /\ u # t /\ lock[r] = u => lock'[r] = u /\ com'[r] = com[r]
  BY NobodyAssumption
<1>4. FreshHasAll' /\ DoneFirst'
  BY <1>2 DEF RInv, FreshHasAll, DoneFirst, Done, Before, RowOf
<1>5. DoneIsHeld'
  <2> SUFFICES ASSUME NEW u \in Requests, NEW j \in DOMAIN call[u].lines,
                      status'[u] \in Running, Done(u, j)
               PROVE  lock'[RowOf(u, j)] = u
    BY DEF DoneIsHeld, Done, RowOf
  <2>1. u # t /\ lock[RowOf(u, j)] = u
    BY <1>2 DEF RInv, DoneIsHeld
  <2>2. RowOf(u, j) \in Rows
    BY RowTypes DEF RInv, IInv
  <2>3. QED
    BY <1>3, <2>1, <2>2
<1>6. HeldIsDone'
  <2> SUFFICES ASSUME NEW u \in Requests, NEW r \in Rows, lock'[r] = u
               PROVE  \E j \in DOMAIN call[u].lines :
                        RowOf(u, j) = r /\ (Done(u, j) \/ JustInserted(u, r)')
    BY DEF HeldIsDone, Done, RowOf
  <2>1. lock[r] = u /\ (JustInserted(u, r) => JustInserted(u, r)')
    BY <1>3 DEF JustInserted
  <2>2. QED
    BY <2>1 DEF RInv, HeldIsDone
<1>7. VersionIsRun'
  <2> SUFFICES ASSUME NEW u \in Requests, NEW r \in Rows, NEW k, NEW h,
                      status'[u] \in Running,
                      \E j \in DOMAIN call[u].lines : RowOf(u, j) = r /\ Done(u, j),
                      Split(u, r, k),
                      IsRun(h, com'[r], call[u], r)
               PROVE  h[k] = Fits(cur[r], added'[u][r])
    BY DEF VersionIsRun, Split, Done, RowOf
  <2>1. u # t /\ status[u] \in Running
    BY <1>2
  <2>2. lock[r] = u
    BY <2>1 DEF RInv, DoneIsHeld
  <2>3. com'[r] = com[r] /\ added'[u] = added[u]
    BY <1>3, <2>1, <2>2
  <2>4. QED
    BY <2>1, <2>3 DEF RInv, VersionIsRun
<1>8. QED
  BY <1>1, <1>4, <1>5, <1>6, <1>7 DEF RInv

\* A line is processed: the transaction's version of its row is what the lines
\* so far make of the committed one.
LEMMA ApplyLineRInv ==
  ASSUME RInv, NEW t \in Requests, NEW i \in left[t], ApplyLine(t, i) PROVE RInv'
<1> DEFINE r == RowOf(t, i)
           v == Moved(Seen(t, r), Kind(t), QtyOf(t, i))
           b == Entered(added[t][r], v, Kind(t), QtyOf(t, i))
           n == Len(call[t].lines)
<1>1. IInv'
  BY ApplyLineIInv DEF RInv
<1> /\ status[t] = "apply" /\ IsNext(t, i) /\ status' = [status EXCEPT ![t] = "ensure"]
    /\ Guard(Seen(t, r), Kind(t), QtyOf(t, i)) /\ Check(v)
    /\ cur' = [cur EXCEPT ![r] = v]
    /\ lock' = [lock EXCEPT ![r] = t]
    /\ left' = [left EXCEPT ![t] = @ \ {i}]
    /\ UNCHANGED << com, ledger, call >>
  BY DEF ApplyLine
<1>2. /\ r \in Rows /\ r \in Int /\ i \in 1..n /\ n \in Nat /\ DOMAIN call[t].lines = 1..n
      /\ call[t] \in Calls
  BY LineTypes, CallsAssumption DEF RInv, IInv, TypeOK
<1>3. /\ status'[t] = "ensure" /\ status[t] \in Running
      /\ \A u \in Requests : u # t => status'[u] = status[u]
  BY DEF RInv, IInv, TypeOK, Running
<1>4. lock[r] \in {Nobody, t}
  BY DEF ApplyLine, Free
<1>5. /\ cur \in [Rows -> Version] /\ lock \in [Rows -> Requests \cup {Nobody}]
      /\ left'[t] = left[t] \ {i}
      /\ \A u \in Requests : u # t => left'[u] = left[u]
      /\ \A u \in Requests : left[u] \subseteq DOMAIN call[u].lines
  <2>1. DOMAIN left = Requests
    BY DEF RInv, IInv, TypeOK
  <2>2. QED
    BY <2>1 DEF RInv, IInv, TypeOK
<1>6. /\ added'[t][r] = b
      /\ \A u \in Requests, s \in Rows : u # t \/ s # r => added'[u][s] = added[u][s]
  <2>1. added \in [Requests -> [Rows -> Book]]
    BY DEF RInv, IInv, TypeOK
  <2>2. added' = [added EXCEPT ![t][r] = Entered(@, v, Kind(t), QtyOf(t, i))]
    BY DEF ApplyLine
  <2> HIDE DEF r, v
  <2>3. QED
    BY <1>2, <2>1, <2>2
<1> HIDE DEF r, v, b
<1>7. /\ \A s \in Rows : s # r => cur'[s] = cur[s] /\ lock'[s] = lock[s]
      /\ cur'[r] = v /\ lock'[r] = t
  BY <1>2, <1>5
<1>8. \A u \in Requests, s \in Rows : u # t /\ lock[s] = u => s # r
  BY <1>4, NobodyAssumption
<1>9. \A u \in Requests : \A j :
        Done(u, j)' <=> Done(u, j) \/ (u = t /\ j = i)
  BY <1>2, <1>5 DEF Done
<1>10. \A u \in Requests : \A j : RowOf(u, j)' = RowOf(u, j)
  BY DEF RowOf
<1>11. FreshHasAll'
  BY <1>3, <1>5 DEF RInv, FreshHasAll
<1>12. DoneFirst'
  <2> SUFFICES ASSUME NEW u \in Requests, NEW k \in left'[u], NEW j \in DOMAIN call[u].lines,
                      Done(u, j)'
               PROVE  Before(u, j, k)
    BY DEF DoneFirst, Before, RowOf
  <2>1. k \in left[u]
    BY <1>5
  <2>2. CASE Done(u, j)
    BY <2>1, <2>2 DEF RInv, DoneFirst
  <2>3. CASE u = t /\ j = i
    BY <2>1, <2>3 DEF IsNext
  <2>4. QED
    BY <1>9, <2>2, <2>3
<1>13. DoneIsHeld'
  <2> SUFFICES ASSUME NEW u \in Requests, NEW j \in DOMAIN call[u].lines,
                      status'[u] \in Running, Done(u, j)'
               PROVE  lock'[RowOf(u, j)] = u
    BY DEF DoneIsHeld, RowOf
  <2>1. CASE Done(u, j)
    <3>1. lock[RowOf(u, j)] = u
      BY <1>3, <2>1 DEF RInv, DoneIsHeld
    <3>2. RowOf(u, j) \in Rows
      BY RowTypes DEF RInv, IInv
    <3>3. QED
      BY <1>7, <1>8, <3>1, <3>2
  <2>2. CASE u = t /\ j = i
    BY <1>7, <2>2 DEF r
  <2>3. QED
    BY <1>9, <2>1, <2>2
<1>14. HeldIsDone'
  <2> SUFFICES ASSUME NEW u \in Requests, NEW s \in Rows, lock'[s] = u
               PROVE  \E j \in DOMAIN call[u].lines :
                        RowOf(u, j) = s /\ (Done(u, j)' \/ JustInserted(u, s)')
    BY DEF HeldIsDone, RowOf
  <2>1. CASE s = r
    <3>1. u = t
      BY <1>7, <2>1
    <3>2. Done(t, i)' /\ RowOf(t, i) = s /\ i \in DOMAIN call[t].lines
      BY <1>2, <1>9, <2>1 DEF r
    <3>3. QED
      BY <3>1, <3>2
  <2>2. CASE s # r
    BY <1>6, <1>7, <1>9, <2>2 DEF RInv, HeldIsDone, JustInserted
  <2>3. QED
    BY <2>1, <2>2
<1>15. VersionIsRun'
  <2> SUFFICES ASSUME NEW u \in Requests, NEW s \in Rows, NEW k, NEW h,
                      status'[u] \in Running,
                      \E j \in DOMAIN call[u].lines : RowOf(u, j) = s /\ Done(u, j)',
                      Split(u, s, k)',
                      IsRun(h, com[s], call[u], s)
               PROVE  h[k] = Fits(cur'[s], added'[u][s])
    BY DEF VersionIsRun, RowOf
  <2>1. status[u] \in Running
    BY <1>3
  <2>2. CASE u = t /\ s = r
    <3>1. h[i] = Fits(v, b)
      <4>1. /\ IsRun(h, com[RowOf(t, i)], call[t], RowOf(t, i))
            /\ v = Moved(Seen(t, RowOf(t, i)), Kind(t), QtyOf(t, i))
            /\ b = Entered(added[t][RowOf(t, i)], v, Kind(t), QtyOf(t, i))
            /\ Guard(Seen(t, RowOf(t, i)), Kind(t), QtyOf(t, i)) /\ Check(v)
        BY <2>2 DEF r, v, b
      <4>2. QED
        BY <4>1, NextLineTaken
    <3>2. k \in 0..n /\ \A j \in 1..n : RowOf(t, j) = r => (Done(t, j)' <=> j <= k)
      BY <1>2, <2>2 DEF Split, RowOf
    <3>3. \A j \in 1..n : RowOf(t, j) = r => (Done(t, j) <=> j <= i - 1)
      BY <1>2, <2>2, AtNextLine DEF r, Split
    <3>4. i <= k
      BY <1>2, <1>9, <3>2 DEF r
    <3>5. \A m \in (i + 1)..k : call[t].lines[m].row # r
      <4> SUFFICES ASSUME NEW m \in (i + 1)..k, RowOf(t, m) = r PROVE FALSE
        BY DEF RowOf
      <4>1. m \in 1..n /\ m <= k /\ m > i
        BY <1>2, <3>2
      <4>2. Done(t, m)' /\ m # i
        BY <1>2, <3>2, <4>1
      <4>3. Done(t, m)
        BY <1>9, <4>2
      <4>4. m <= i - 1
        BY <3>3, <4>1, <4>3
      <4>5. QED
        BY <1>2, <4>1, <4>4
    <3> DEFINE c == call[t]
    <3>6. /\ c \in Calls /\ i \in 0..Len(c.lines) /\ k \in i..Len(c.lines)
          /\ IsRun(h, com[r], c, r) /\ \A m \in (i + 1)..k : c.lines[m].row # r
      BY <1>2, <2>2, <3>2, <3>4, <3>5
    <3> HIDE DEF c
    <3>7. h[k] = h[i]
      BY <3>6, SkipLines
    <3>8. QED
      BY <1>6, <1>7, <2>2, <3>1, <3>7
  <2>3. CASE ~(u = t /\ s = r)
    <3>1. \A j : RowOf(u, j) = s => (Done(u, j)' <=> Done(u, j))
      BY <1>9, <2>3 DEF r
    <3>2. \E j \in DOMAIN call[u].lines : RowOf(u, j) = s /\ Done(u, j)
      BY <3>1
    <3>3. Split(u, s, k)
      BY <1>10, <3>1 DEF Split
    <3>4. lock[s] = u
      BY <2>1, <3>2 DEF RInv, DoneIsHeld
    <3>5. cur'[s] = cur[s] /\ added'[u][s] = added[u][s]
      BY <1>6, <1>7, <1>8, <2>3, <3>4
    <3>6. QED
      BY <2>1, <3>2, <3>3, <3>5 DEF RInv, VersionIsRun
  <2>4. QED
    BY <2>2, <2>3
<1>16. QED
  BY <1>1, <1>11, <1>12, <1>13, <1>14, <1>15 DEF RInv

\* Every step keeps the invariant of the refinement.
LEMMA NextRInv == RInv /\ [Next]_vars => RInv'
<1> SUFFICES ASSUME RInv, [Next]_vars PROVE RInv'
  OBVIOUS
<1>1. IInv'
  BY NextIInv DEF RInv
<1>2. ASSUME NEW t \in Requests, NEW i \in left[t],
             ConflictLine(t, i) \/ ViolateCheck(t, i)
      PROVE  RInv'
  BY <1>1, <1>2, RollbackRInv DEF ConflictLine, ViolateCheck, Ended
<1>3. ASSUME NEW t \in Requests, Lose(t) PROVE RInv'
  BY <1>1, <1>3, RollbackRInv DEF Lose, Ended
<1>4. CASE UNCHANGED vars
  <2> UNCHANGED << com, cur, ledger, added, lock, status, call, left >>
    BY <1>4 DEF vars
  <2>1. FreshHasAll'
    BY DEF RInv, FreshHasAll
  <2>2. DoneFirst' /\ DoneIsHeld' /\ HeldIsDone'
    BY DEF RInv, DoneFirst, DoneIsHeld, HeldIsDone, JustInserted, Done, Before, RowOf
  <2>3. VersionIsRun'
    BY DEF RInv, VersionIsRun, Split, Done, RowOf
  <2>4. QED
    BY <1>1, <2>1, <2>2, <2>3 DEF RInv
<1>5. QED
  BY <1>2, <1>3, <1>4, BeginRInv, EnsureRowRInv, ApplyLineRInv, CommitRInv
     DEF Next, Step, Finished
-----------------------------------------------------------------------------
\* The answer to a request as a caller knows it.
Answer(t) == IF status[t] \in Running THEN "pending" ELSE status[t]

\* The verdict on the line at which the request rolls back is the verdict on
\* the call for that row.
LEMMA FailedLineDecides ==
  ASSUME RInv, NEW t \in Requests, NEW i \in left[t],
         status[t] = "apply", IsNext(t, i),
         NEW s, s = Seen(t, RowOf(t, i)),
         ~(Guard(s, Kind(t), QtyOf(t, i)) /\ Check(Moved(s, Kind(t), QtyOf(t, i))))
  PROVE  Abstract!Outcome(com[RowOf(t, i)], call[t], RowOf(t, i)).verdict
           = IF Guard(s, Kind(t), QtyOf(t, i)) THEN "integrity" ELSE "conflict"
<1> DEFINE r == RowOf(t, i)
           c == call[t]
           n == Len(c.lines)
           verdict == IF Guard(s, Kind(t), QtyOf(t, i)) THEN "integrity" ELSE "conflict"
<1>1. r \in Rows /\ i \in 1..n /\ n \in Nat /\ c \in Calls /\ com[r] \in Version
  BY LineTypes, CallsAssumption DEF RInv, IInv, TypeOK
<1>2. PICK h : IsRun(h, com[r], c, r) /\ Abstract!Outcome(com[r], c, r) = h[n]
  BY <1>1, OutcomeIsRun
<1>3. h[i - 1] \in Account
  <2>1. i - 1 \in 0..n
    BY <1>1
  <2>2. QED
    BY <1>2, <2>1 DEF IsRun
<1>4. h[i] = [h[i - 1] EXCEPT !.verdict = verdict]
  <2> DEFINE v == Moved(s, Kind(t), QtyOf(t, i))
             b == Entered(added[t][r], v, Kind(t), QtyOf(t, i))
  <2>1. h[i] = IF ~Guard(s, Kind(t), QtyOf(t, i))
                  THEN [h[i - 1] EXCEPT !.verdict = "conflict"]
                ELSE IF ~Check(v)
                  THEN [h[i - 1] EXCEPT !.verdict = "integrity"]
                ELSE Fits(v, b)
    BY <1>2, NextLineTaken
  <2>2. ~(Guard(s, Kind(t), QtyOf(t, i)) /\ Check(v))
    OBVIOUS
  <2> HIDE DEF v, b
  <2>3. QED
    BY <2>1, <2>2
<1>5. h[i].verdict = verdict /\ verdict # "fits"
  <2> HIDE DEF verdict
  <2>1. h[i].verdict = verdict
    BY <1>3, <1>4 DEF Account
  <2>2. verdict # "fits"
    BY DEF verdict
  <2>3. QED
    BY <2>1, <2>2
<1>6. i \in 0..n /\ n \in i..n
  BY <1>1
<1> HIDE DEF r, c, verdict
<1>7. h[n] = h[i]
  BY <1>1, <1>2, <1>5, <1>6, VerdictStands
<1>8. QED
  BY <1>2, <1>5, <1>7 DEF r, c, verdict

\* Once a request has processed all its lines, every row fits, and its own
\* versions and ledger rows are what the call makes of the committed ones.
LEMMA FinishedCallFits ==
  ASSUME RInv, NEW t \in Requests, status[t] = "ensure", left[t] = {}, NEW r \in Rows
  PROVE  Abstract!Outcome(com[r], call[t], r)
           = Fits(IF lock[r] = t THEN cur[r] ELSE com[r], added[t][r])
<1> DEFINE c == call[t]
           n == Len(c.lines)
<1>1. /\ n \in Nat /\ c \in Calls /\ com[r] \in Version /\ DOMAIN c.lines = 1..n
      /\ status[t] \in Running
  BY CallsAssumption DEF RInv, IInv, TypeOK, Running
<1>2. PICK h : IsRun(h, com[r], c, r) /\ Abstract!Outcome(com[r], c, r) = h[n]
  BY <1>1, OutcomeIsRun
<1>3. \A j \in 1..n : Done(t, j)
  BY <1>1 DEF Done
<1>4. CASE lock[r] = t
  <2>1. Split(t, r, n)
    BY <1>1, <1>3 DEF Split
  <2>2. \E j \in DOMAIN call[t].lines : RowOf(t, j) = r /\ Done(t, j)
    BY <1>1, <1>3, <1>4 DEF RInv, HeldIsDone
  <2>3. h[n] = Fits(cur[r], added[t][r])
    BY <1>1, <1>2, <2>1, <2>2 DEF RInv, VersionIsRun
  <2>4. QED
    BY <1>2, <1>4, <2>3
<1>5. CASE lock[r] # t
  <2>1. \A j \in (0 + 1)..n : c.lines[j].row # r
    BY <1>1, <1>3, <1>5 DEF RInv, DoneIsHeld, RowOf
  <2>2. 0 \in 0..n /\ n \in 0..n
    BY <1>1
  <2>3. h[0] = Fits(com[r], added[t][r])
    BY <1>2, <1>5 DEF IsRun, RInv, IInv, HoldersEnter
  <2>4. h[n] = h[0]
    <3> HIDE DEF c
    <3> QED BY <1>1, <1>2, <2>1, <2>2, SkipLines
  <2>5. QED
    BY <1>2, <1>5, <2>3, <2>4
<1>6. QED
  BY <1>4, <1>5

\* Initial states map to initial states.
LEMMA InitRefines == Init => Abstract!Init
<1> SUFFICES ASSUME Init PROVE Abstract!Init
  OBVIOUS
<1>1. com \in Openings /\ call \in [Requests -> Calls]
  BY DEF Init
<1>2. [t \in Requests |-> Answer(t)] = [t \in Requests |-> "idle"]
  BY DEF Init, Answer, Running
<1>3. ledger = [r \in Rows |-> Abstract!OpeningBook(com[r])]
  BY SameBooks DEF Init
<1>4. QED
  BY <1>1, <1>2, <1>3 DEF Abstract!Init, Answer

\* Every step maps to a step of the atomic call or to none: beginning asks,
\* committing grants, a failing line refuses, and all other statements stutter.
LEMMA StepRefines == RInv /\ [Next]_vars => [Abstract!Next]_(Abstract!vars)
<1> SUFFICES ASSUME RInv, [Next]_vars PROVE [Abstract!Next]_(Abstract!vars)
  OBVIOUS
<1> DEFINE result == [t \in Requests |-> Answer(t)]
<1>1. /\ status \in [Requests -> {"idle"} \cup Running \cup Ended]
      /\ Running = {"ensure", "apply"} /\ Ended = {"committed", "conflict", "integrity", "lost"}
      /\ com \in [Rows -> Version]
  BY DEF RInv, IInv, TypeOK, Running, Ended
<1>2. ASSUME NEW t \in Requests, NEW how, status' = [status EXCEPT ![t] = how]
      PROVE  result' = [result EXCEPT ![t] = IF how \in Running THEN "pending" ELSE how]
  BY <1>1, <1>2 DEF Answer
<1>3. ASSUME NEW t \in Requests, Begin(t) PROVE Abstract!Next
  <2>1. result[t] = "idle" /\ result' = [result EXCEPT ![t] = "pending"]
    BY <1>1, <1>2, <1>3 DEF Begin, Answer
  <2>2. Abstract!Ask(t)
    BY <1>3, <2>1 DEF Begin, Abstract!Ask, Answer
  <2>3. QED
    BY <2>2 DEF Abstract!Next
<1>4. ASSUME NEW t \in Requests, NEW i \in left[t], EnsureRow(t, i) \/ ApplyLine(t, i)
      PROVE  UNCHANGED Abstract!vars
  <2>1. UNCHANGED << com, ledger, call >> /\ \A u \in Requests : Answer(u)' = Answer(u)
    BY <1>1, <1>4 DEF EnsureRow, ApplyLine, Answer
  <2>2. result' = result
    BY <2>1
  <2>3. QED
    BY <2>1, <2>2 DEF Abstract!vars, Answer
<1>5. ASSUME NEW t \in Requests, NEW i \in left[t], ConflictLine(t, i) \/ ViolateCheck(t, i)
      PROVE  Abstract!Next
  <2> DEFINE r == RowOf(t, i)
             s == Seen(t, r)
             how == IF Guard(s, Kind(t), QtyOf(t, i)) THEN "integrity" ELSE "conflict"
  <2>1. /\ status[t] = "apply" /\ IsNext(t, i)
        /\ ~(Guard(s, Kind(t), QtyOf(t, i)) /\ Check(Moved(s, Kind(t), QtyOf(t, i))))
        /\ status' = [status EXCEPT ![t] = how]
        /\ UNCHANGED << com, ledger, call >>
    BY <1>5 DEF ConflictLine, ViolateCheck, Rollback
  <2>2. r \in Rows
    BY LineTypes DEF RInv, IInv
  <2>3. Abstract!Outcome(com[r], call[t], r).verdict = how
    BY <2>1, FailedLineDecides
  <2>4. how # "fits" /\ how \notin Running
    BY <1>1
  <2>5. result[t] = "pending" /\ result' = [result EXCEPT ![t] = how]
    <3> HIDE DEF how
    <3> QED BY <1>1, <1>2, <2>1, <2>4 DEF Answer
  <2> HIDE DEF r, s, how
  <2>6. Abstract!Refuse(t)
    BY <2>1, <2>2, <2>3, <2>4, <2>5 DEF Abstract!Refuse, Answer
  <2>7. QED
    BY <2>6 DEF Abstract!Next
<1>6. ASSUME NEW t \in Requests, Commit(t) PROVE Abstract!Next
  <2>1. result[t] = "pending" /\ result' = [result EXCEPT ![t] = "committed"]
    BY <1>1, <1>2, <1>6 DEF Commit, Answer
  <2>2. ASSUME NEW r \in Rows
        PROVE  /\ Abstract!Outcome(com[r], call[t], r).row = IF lock[r] = t THEN cur[r] ELSE com[r]
               /\ Abstract!Outcome(com[r], call[t], r).book = added[t][r]
               /\ Abstract!Outcome(com[r], call[t], r).verdict = "fits"
    <3> DEFINE v == IF lock[r] = t THEN cur[r] ELSE com[r]
               o == Abstract!Outcome(com[r], call[t], r)
    <3>1. o = Fits(v, added[t][r])
      BY <1>6, FinishedCallFits DEF Commit
    <3> HIDE DEF v, o
    <3>2. o.row = v /\ o.book = added[t][r] /\ o.verdict = "fits"
      BY <3>1 DEF Fits
    <3>3. QED
      BY <3>2 DEF v, o
  <2>3. com' = [r \in Rows |-> Abstract!Outcome(com[r], call[t], r).row]
    <3>1. com' = [r \in Rows |-> IF lock[r] = t THEN cur[r] ELSE com[r]]
      BY <1>6 DEF Commit, ComBy
    <3>2. QED
      BY <2>2, <3>1
  <2>4. ledger' = [r \in Rows |->
                     Abstract!Followed(ledger[r], Abstract!Outcome(com[r], call[t], r).book)]
    <3>1. ledger' = [r \in Rows |-> Followed(ledger[r], added[t][r])]
      BY <1>6 DEF Commit, LedgerBy
    <3>2. QED
      BY <2>2, <3>1, SameBooks
  <2>5. UNCHANGED call
    BY <1>6 DEF Commit
  <2>6. Abstract!Grant(t)
    BY <2>1, <2>2, <2>3, <2>4, <2>5 DEF Abstract!Grant, Answer
  <2>7. QED
    BY <2>6 DEF Abstract!Next
<1>7. ASSUME NEW t \in Requests, Lose(t) PROVE Abstract!Next
  <2>1. result[t] = "pending" /\ result' = [result EXCEPT ![t] = "lost"]
    BY <1>1, <1>2, <1>7 DEF Lose, Rollback, Answer
  <2>2. Abstract!Lose(t)
    BY <1>7, <2>1 DEF Lose, Rollback, Abstract!Lose, Answer
  <2>3. QED
    BY <2>2 DEF Abstract!Next
<1>8. CASE UNCHANGED vars
  BY <1>8 DEF vars, Abstract!vars
<1>9. QED
  BY <1>3, <1>4, <1>5, <1>6, <1>7, <1>8 DEF Next, Step, Finished

\* The transactions, with their sorted lines, row locks, waits and rollbacks,
\* implement the atomic call of Stock: a caller sees all of its lines applied
\* in the order given, or none, on the stock of one moment
\* (services/inventory.py, _apply).
THEOREM ImplementsStock == Spec => RefinesStock
<1>1. Init => Abstract!Init
  BY InitRefines
<1>2. RInv /\ [Next]_vars => [Abstract!Next]_(Abstract!vars)
  BY StepRefines
<1>3. QED
  BY <1>1, <1>2, InitRInv, NextRInv, PTL DEF Spec, RefinesStock, Abstract!Spec
=============================================================================
