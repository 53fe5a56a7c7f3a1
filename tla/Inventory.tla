----------------------------- MODULE Inventory ------------------------------
(***************************************************************************)
(* services/inventory.py under concurrent requests.  A request is one      *)
(* database transaction that makes one call of reserve, release, receive,  *)
(* issue or adjust with a list of lines, and then commits.  Postgres runs  *)
(* it at READ COMMITTED: a row that a transaction inserted or updated is   *)
(* locked until the transaction ends, and nobody else sees the new version *)
(* before the commit.  Its ledger rows are inserts: they wait for nobody,  *)
(* and appear with the commit whatever has become of the inventory row.    *)
(***************************************************************************)
EXTENDS StockRow, SequencesExt

CONSTANTS
  Rows,       \* the (product, warehouse) pairs, each an integer: its rank in
              \* the order of _sort_key
  Requests,   \* the requests, one transaction each
  Calls,      \* the calls a request may make: [kind, lines]
  Openings,   \* the inventory_items the system may start from
  Nobody      \* the holder of a row that no transaction has locked

Line == [row: Rows, qty: Int]

ASSUME RowsAssumption == Rows \subseteq Int
ASSUME NobodyAssumption == Nobody \notin Requests
ASSUME CallsAssumption ==
  \A c \in Calls :
    /\ c.kind \in Movements
    /\ c.lines \in Seq(Line)
    /\ \A i \in DOMAIN c.lines : LegalQty(c.kind, c.lines[i].qty)
ASSUME OpeningsAssumption ==
  \A o \in Openings :
    /\ o \in [Rows -> Version]
    /\ \A r \in Rows : o[r] = Absent \/ (o[r].present /\ Check(o[r]))

VARIABLES
  com,     \* the committed version of every row
  cur,     \* the newest version: the lock holder's own, else the committed one
  ledger,  \* the committed rows of stock_ledger, by inventory row
  added,   \* the ledger rows that each open transaction has inserted
  lock,    \* who holds the row
  status,  \* where the request's transaction is, or how it ended
  call,    \* the call it makes
  left     \* the positions of its lines that _apply has still to process

vars == << com, cur, ledger, added, lock, status, call, left >>

Running == {"ensure", "apply"}
Ended == {"committed", "conflict", "integrity", "lost"}

Init ==
  /\ com \in Openings
  /\ cur = com
  /\ ledger = [r \in Rows |-> OpeningBook(com[r])]
  /\ added = [t \in Requests |-> [r \in Rows |-> NoEntries]]
  /\ lock = [r \in Rows |-> Nobody]
  /\ status = [t \in Requests |-> "idle"]
  /\ call \in [Requests -> Calls]
  /\ left = [t \in Requests |-> DOMAIN call[t].lines]
-----------------------------------------------------------------------------
Kind(t) == call[t].kind
RowOf(t, i) == call[t].lines[i].row
QtyOf(t, i) == call[t].lines[i].qty

\* A fault: the lines are applied in the order the caller gave them.
BeforeUnsorted(t, i, j) == i <= j

\* sorted(lines, key=_sort_key): by row, lines of one row as the caller gave
\* them.
Before(t, i, j) ==
  \/ RowOf(t, i) < RowOf(t, j)
  \/ RowOf(t, i) = RowOf(t, j) /\ i <= j

\* Line i is the one the loop of _apply is at.
IsNext(t, i) == i \in left[t] /\ \A j \in left[t] : Before(t, i, j)

\* What a statement of t sees of row r: its own version, or the committed one.
Seen(t, r) == IF lock[r] = t THEN cur[r] ELSE com[r]

\* A fault: the UPDATE writes what it computed from the committed row, without
\* waiting for another transaction's.
FreeAlways(t, r) == TRUE

\* t may write row r: nobody else has an uncommitted version of it.
Free(t, r) == lock[r] \in {Nobody, t}

\* The locks once t has ended.
Unlocked(t) == [r \in Rows |-> IF lock[r] = t THEN Nobody ELSE lock[r]]

\* t, about to end, has no ledger rows of its own any more.
Cleared(t) == [added EXCEPT ![t] = [r \in Rows |-> NoEntries]]

\* What t commits: its versions of the rows it holds, and its ledger rows after
\* those of others.
ComBy(t) == [r \in Rows |-> IF lock[r] = t THEN cur[r] ELSE com[r]]
LedgerBy(t) == [r \in Rows |-> Followed(ledger[r], added[t][r])]

\* A fault: a request that fails commits the lines it had already applied.
RollbackKeepingLines(t, how) ==
  /\ com' = ComBy(t) /\ ledger' = LedgerBy(t) /\ added' = Cleared(t)
  /\ lock' = Unlocked(t)
  /\ status' = [status EXCEPT ![t] = how]
  /\ UNCHANGED << cur, call, left >>

\* A fault: a conflict is retried for as long as it lasts.
RollbackAndRetry(t, how) ==
  /\ cur' = [r \in Rows |-> IF lock[r] = t THEN com[r] ELSE cur[r]]
  /\ added' = Cleared(t) /\ lock' = Unlocked(t)
  /\ status' = [status EXCEPT ![t] = IF how = "conflict" THEN "ensure" ELSE how]
  /\ left' = [left EXCEPT ![t] = DOMAIN call[t].lines]
  /\ UNCHANGED << com, ledger, call >>

\* ROLLBACK: what t wrote is gone and its locks are released.
Rollback(t, how) ==
  /\ cur' = [r \in Rows |-> IF lock[r] = t THEN com[r] ELSE cur[r]]
  /\ added' = Cleared(t) /\ lock' = Unlocked(t)
  /\ status' = [status EXCEPT ![t] = how]
  /\ UNCHANGED << com, ledger, call, left >>
-----------------------------------------------------------------------------
\* The request reaches the service and opens its transaction.
Begin(t) ==
  /\ status[t] = "idle"
  /\ status' = [status EXCEPT ![t] = "ensure"]
  /\ UNCHANGED << com, cur, ledger, added, lock, call, left >>

\* _ensure_row: INSERT ... ON CONFLICT DO NOTHING.  A committed row, or one of
\* its own, is left alone; otherwise the row is inserted, once no other
\* transaction has an uncommitted insert of it.
EnsureRow(t, i) ==
  /\ status[t] = "ensure"
  /\ IsNext(t, i)
  /\ status' = [status EXCEPT ![t] = "apply"]
  /\ LET r == RowOf(t, i) IN
       \/ /\ Seen(t, r).present
          /\ UNCHANGED << cur, lock >>
       \/ /\ ~Seen(t, r).present
          /\ lock[r] = Nobody
          /\ cur' = [cur EXCEPT ![r] = Inserted]
          /\ lock' = [lock EXCEPT ![r] = t]
  /\ UNCHANGED << com, ledger, added, call, left >>

\* A fault: the new version is computed from the committed row, not from what
\* an earlier line of the call has made of it.
ApplyLineCommitted(t, i) ==
  /\ status[t] = "apply"
  /\ IsNext(t, i)
  /\ LET r == RowOf(t, i)
         v == Moved(com[r], Kind(t), QtyOf(t, i))
     IN  /\ Guard(Seen(t, r), Kind(t), QtyOf(t, i))
         /\ Free(t, r)
         /\ Check(v)
         /\ cur' = [cur EXCEPT ![r] = v]
         /\ added' = [added EXCEPT ![t][r] = Entered(@, v, Kind(t), QtyOf(t, i))]
         /\ lock' = [lock EXCEPT ![r] = t]
  /\ status' = [status EXCEPT ![t] = "ensure"]
  /\ left' = [left EXCEPT ![t] = @ \ {i}]
  /\ UNCHANGED << com, ledger, call >>

\* The guarded UPDATE finds the row, takes its lock and writes the new version;
\* the ledger row is inserted with what the UPDATE returned.
ApplyLine(t, i) ==
  /\ status[t] = "apply"
  /\ IsNext(t, i)
  /\ LET r == RowOf(t, i)
         v == Moved(Seen(t, r), Kind(t), QtyOf(t, i))
     IN  /\ Guard(Seen(t, r), Kind(t), QtyOf(t, i))
         /\ Free(t, r)
         /\ Check(v)
         /\ cur' = [cur EXCEPT ![r] = v]
         /\ added' = [added EXCEPT ![t][r] = Entered(@, v, Kind(t), QtyOf(t, i))]
         /\ lock' = [lock EXCEPT ![r] = t]
  /\ status' = [status EXCEPT ![t] = "ensure"]
  /\ left' = [left EXCEPT ![t] = @ \ {i}]
  /\ UNCHANGED << com, ledger, call >>

\* The guarded UPDATE returns no row: ConflictError, and the request rolls
\* back.  A row whose committed version fails the WHERE clause is skipped
\* without waiting for its lock; a statement that had to wait evaluates the
\* clause again on the version that was then committed.
ConflictLine(t, i) ==
  /\ status[t] = "apply"
  /\ IsNext(t, i)
  /\ ~Guard(Seen(t, RowOf(t, i)), Kind(t), QtyOf(t, i))
  /\ Rollback(t, "conflict")

\* The UPDATE's new version fails a CHECK constraint: IntegrityError, which no
\* caller maps to a client error, and the request rolls back.
ViolateCheck(t, i) ==
  /\ status[t] = "apply"
  /\ IsNext(t, i)
  /\ LET v == Seen(t, RowOf(t, i)) IN
       /\ Guard(v, Kind(t), QtyOf(t, i))
       /\ Free(t, RowOf(t, i))
       /\ ~Check(Moved(v, Kind(t), QtyOf(t, i)))
  /\ Rollback(t, "integrity")

\* Every line is applied and flushed; the endpoint commits.
Commit(t) ==
  /\ status[t] = "ensure"
  /\ left[t] = {}
  /\ com' = ComBy(t) /\ ledger' = LedgerBy(t) /\ added' = Cleared(t)
  /\ lock' = Unlocked(t)
  /\ status' = [status EXCEPT ![t] = "committed"]
  /\ UNCHANGED << cur, call, left >>

\* The process or its connection dies inside the transaction.
Lose(t) == status[t] \in Running /\ Rollback(t, "lost")

Step(t) ==
  \/ Begin(t)
  \/ \E i \in left[t] : \/ EnsureRow(t, i)
                        \/ ApplyLine(t, i)
                        \/ ConflictLine(t, i)
                        \/ ViolateCheck(t, i)
  \/ Commit(t)

\* All requests have been answered; only then may the system stop.
Finished == (\A t \in Requests : status[t] \in Ended) /\ UNCHANGED vars

Next == \/ \E t \in Requests : Step(t) \/ Lose(t)
        \/ Finished

Spec == Init /\ [][Next]_vars

\* The event loop keeps running the request's task and Postgres grants a free
\* row lock.  Every request holds locks for finitely many steps and is never
\* repeated, so weak fairness is enough.
FairSpec == Spec /\ \A t \in Requests : WF_vars(Step(t))
-----------------------------------------------------------------------------
TypeOK ==
  /\ com \in [Rows -> Version]
  /\ cur \in [Rows -> Version]
  /\ ledger \in [Rows -> Book]
  /\ added \in [Requests -> [Rows -> Book]]
  /\ lock \in [Rows -> Requests \cup {Nobody}]
  /\ status \in [Requests -> {"idle"} \cup Running \cup Ended]
  /\ call \in [Requests -> Calls]
  /\ DOMAIN left = Requests
  /\ \A t \in Requests : left[t] \subseteq DOMAIN call[t].lines

\* The ledger of row r as t sees it.
SeenBook(t, r) == Followed(ledger[r], added[t][r])

\* Book b tells the on_hand of version v: every balance_after is the one before
\* it plus qty_delta, and the last one is on_hand.
TellsOnHand(b, v) ==
  /\ \A k \in 1..Len(b.moved) :
       b.moved[k].balance = b.moved[k].delta + (IF k = 1 THEN 0 ELSE b.moved[k - 1].balance)
  /\ v.onHand = IF b.moved = <<>> THEN 0 ELSE b.moved[Len(b.moved)].balance

\* Replaying the ledger of a row gives its on_hand, step by step, for what is
\* committed and for what the holder of the row would commit.  The ledger rows
\* of two transactions are inserted independently, so an UPDATE that overwrote
\* another's, or a balance_after that another one has overtaken, would show as
\* a difference between the two tables ("stock_ledger is the append-only source
\* of truth", db/models/inventory.py:28).
LedgerExact ==
  \A r \in Rows :
    /\ TellsOnHand(ledger[r], com[r])
    /\ \A t \in Requests : lock[r] = t => TellsOnHand(SeenBook(t, r), cur[r])

\* The WHERE clauses leave nothing for the CHECK constraints to catch, except
\* in a direct issue, whose clause looks at on_hand only: there the constraint
\* is what keeps a counter sale out of the reserved stock.
ChecksOnlyForDirectIssue ==
  \A t \in Requests : status[t] = "integrity" => Kind(t) = "DIRECT_ISSUE"

\* t's next statement cannot run until u gives row r back.
WaitsFor(t, u, r) ==
  /\ u # t /\ lock[r] = u
  /\ \E i \in left[t] :
       /\ IsNext(t, i) /\ RowOf(t, i) = r
       /\ \/ status[t] = "ensure" /\ ~com[r].present
          \/ status[t] = "apply" /\ Guard(com[r], Kind(t), QtyOf(t, i))

\* Along a chain of waiting transactions the rows only climb, so the chain
\* never closes: that is what sorting the lines buys ("every transaction that
\* goes through this module acquires locks in the same global order",
\* services/inventory.py:25).
WaitsClimb ==
  \A t, u, w \in Requests : \A r, s \in Rows :
    WaitsFor(t, u, r) /\ WaitsFor(u, w, s) => r < s

\* The ledger also determines the reserved quantity: RESERVE and RELEASE rows
\* and the ISSUE rows that dispatched a reservation (their ref_type tells
\* them from counter sales) add up to the row's `reserved`, so no reservation of
\* two that compete is overwritten (db/models/inventory.py:56-61, "the audit
\* trail everything else derives from").
DeltasAt(entries, places) == MapThenSumSet(LAMBDA k : entries[k].delta, places)
TellsReserved(b, v) ==
  v.reserved = DeltasAt(b.held, DOMAIN b.held)
             + DeltasAt(b.moved, {k \in DOMAIN b.moved : b.moved[k].unreserves})
ReservedRebuilt ==
  \A r \in Rows :
    /\ TellsReserved(ledger[r], com[r])
    /\ \A t \in Requests : lock[r] = t => TellsReserved(SeenBook(t, r), cur[r])

\* Every request that reaches the service is answered.
EveryRequestEnds == \A t \in Requests : status[t] = "ensure" ~> status[t] \in Ended
-----------------------------------------------------------------------------
\* The transaction with its locks, statements and rollbacks implements the
\* atomic call: no caller can tell sorting, waiting or partial work.
Abstract == INSTANCE Stock WITH
  stock  <- com,
  result <- [t \in Requests |-> IF status[t] \in Running THEN "pending" ELSE status[t]]

RefinesStock == Abstract!Spec
=============================================================================
