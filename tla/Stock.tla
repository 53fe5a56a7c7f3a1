------------------------------- MODULE Stock --------------------------------
(***************************************************************************)
(* What services/inventory.py promises its callers: a call is one atomic   *)
(* step that applies every line or none, takes the lines of a row in the   *)
(* order the caller gave them, and is refused only when, on the stock of   *)
(* that moment, some row cannot take its lines.                            *)
(***************************************************************************)
EXTENDS StockRow, SequencesExt

CONSTANTS Rows, Requests, Calls, Openings

VARIABLES
  stock,   \* the committed rows
  ledger,  \* the committed ledger rows of each of them
  result,  \* the answer to each request: "idle", "pending" or how it ended
  call     \* the call it makes

vars == << stock, ledger, result, call >>

Init ==
  /\ stock \in Openings
  /\ ledger = [r \in Rows |-> OpeningBook(stock[r])]
  /\ result = [t \in Requests |-> "idle"]
  /\ call \in [Requests -> Calls]

\* What a line of a call does to a row that its earlier lines have left in
\* acc: nothing if it is another row's, or if one of them did not fit.
Take(acc, kind, r, line) ==
  IF acc.verdict # "fits" \/ line.row # r THEN acc
  ELSE IF ~Guard(acc.row, kind, line.qty) THEN [acc EXCEPT !.verdict = "conflict"]
  ELSE IF ~Check(Moved(acc.row, kind, line.qty)) THEN [acc EXCEPT !.verdict = "integrity"]
  ELSE LET w == [Moved(acc.row, kind, line.qty) EXCEPT !.present = TRUE] IN
       [row |-> w, book |-> Entered(acc.book, w, kind, line.qty), verdict |-> "fits"]

\* What the lines of call c do to version v of row r, the ledger rows they write
\* for it, and whether they fit.
Outcome(v, c, r) ==
  FoldLeft(LAMBDA acc, line : Take(acc, c.kind, r, line),
           [row |-> v, book |-> NoEntries, verdict |-> "fits"], c.lines)

Ask(t) ==
  /\ result[t] = "idle"
  /\ result' = [result EXCEPT ![t] = "pending"]
  /\ UNCHANGED << stock, ledger, call >>

\* All rows take their lines.
Grant(t) ==
  /\ result[t] = "pending"
  /\ \A r \in Rows : Outcome(stock[r], call[t], r).verdict = "fits"
  /\ stock' = [r \in Rows |-> Outcome(stock[r], call[t], r).row]
  /\ ledger' = [r \in Rows |-> Followed(ledger[r], Outcome(stock[r], call[t], r).book)]
  /\ result' = [result EXCEPT ![t] = "committed"]
  /\ UNCHANGED call

\* Some row does not: nothing changes.
Refuse(t) ==
  /\ result[t] = "pending"
  /\ \E r \in Rows :
       /\ Outcome(stock[r], call[t], r).verdict # "fits"
       /\ result' = [result EXCEPT ![t] = Outcome(stock[r], call[t], r).verdict]
  /\ UNCHANGED << stock, ledger, call >>

Lose(t) ==
  /\ result[t] = "pending"
  /\ result' = [result EXCEPT ![t] = "lost"]
  /\ UNCHANGED << stock, ledger, call >>

Next == \E t \in Requests : Ask(t) \/ Grant(t) \/ Refuse(t) \/ Lose(t)

Spec == Init /\ [][Next]_vars
=============================================================================
