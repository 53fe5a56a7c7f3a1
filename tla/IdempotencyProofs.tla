------------------------- MODULE IdempotencyProofs --------------------------
(***************************************************************************)
(* For any number of requests, bodies and crashes: the row alone, without  *)
(* the Redis lock, keeps the requests with one key apart; and after an     *)
(* answer that can be stored the endpoint does not commit again.           *)
(***************************************************************************)
EXTENDS Idempotency, TLAPS

\* The request that runs the endpoint has its placeholder in the table.
OwnerHasPlaceholder ==
  \A t \in Requests : pc[t] \in Owning => row = [hash |-> body[t], response |-> None]

\* The endpoint has committed and answered with JSON.
Storable == \E t \in effects : outcome[t] = "json"

\* From then on the key is taken: the row stays, nobody is about to call, and
\* whoever still has to settle will store its response.
KeyIsTaken ==
  Storable => /\ row # NoRow
              /\ \A u \in Requests : /\ pc[u] # "call"
                                     /\ pc[u] = "settle" => outcome[u] = "json"

\* A request that settles knows how its endpoint ended, and one whose endpoint
\* has committed had an endpoint that ended so.
OutcomeTold ==
  \A t \in Requests : /\ pc[t] = "settle" => (t \in effects <=> outcome[t] \in {"json", "bytes"})
                      /\ pc[t] \in {"idle", "lock", "insert", "call"} => t \notin effects

\* The stored response is JSON of a request that committed with this hash.
StoredIsEffect ==
  row.response # None => /\ row.response \in effects
                         /\ outcome[row.response] = "json"
                         /\ body[row.response] = row.hash

RowInv == TypeOK /\ OneAtATime /\ OwnerHasPlaceholder
EffectInv == RowInv /\ KeyIsTaken /\ OutcomeTold
IInv == EffectInv /\ StoredIsEffect /\ ReplaysTheEffect

\* With no row, no lock and nobody running, nobody owns the key.
LEMMA InitRowInv == Init => RowInv
BY NoneAssumption DEF Init, RowInv, TypeOK, OneAtATime, OwnerHasPlaceholder, Owning, NoRow,
   Answers, Row

\* The primary key keeps the owners apart: a request enters "call" only by
\* inserting the row, and the row stays until that request settles or dies.
LEMMA NextRowInv == RowInv /\ [Next]_vars => RowInv'
<1> SUFFICES ASSUME RowInv, [Next]_vars PROVE RowInv'
  OBVIOUS
<1> USE NoneAssumption, OutcomesAssumption
    DEF RowInv, TypeOK, OneAtATime, OwnerHasPlaceholder, Owning, NoRow, Answers, Row, Goto
<1>1. ASSUME NEW t \in Requests, ReadKey(t) PROVE RowInv'
  BY <1>1 DEF ReadKey, Answer
<1>2. ASSUME NEW t \in Requests, TakeLock(t) PROVE RowInv'
  BY <1>2 DEF TakeLock, Answer
<1>3. ASSUME NEW t \in Requests, Insert(t) PROVE RowInv'
  BY <1>3 DEF Insert
<1>4. ASSUME NEW t \in Requests, Call(t) PROVE RowInv'
  BY <1>4 DEF Call
<1>5. ASSUME NEW t \in Requests, Settle(t) PROVE RowInv'
  BY <1>5 DEF Settle
<1>6. ASSUME NEW t \in Requests, Unlock(t) PROVE RowInv'
  BY <1>6 DEF Unlock
<1>7. ASSUME NEW t \in Requests, Crash(t) PROVE RowInv'
  BY <1>7 DEF Crash
<1>8. CASE ExpireLock
  BY <1>8 DEF ExpireLock
<1>9. CASE UNCHANGED vars
  BY <1>9 DEF vars
<1>10. QED
  BY <1>1, <1>2, <1>3, <1>4, <1>5, <1>6, <1>7, <1>8, <1>9 DEF Next, Step, Finished

\* A placeholder without an owner is left by a crash: who inserts it owns it, and
\* an owner that gets as far as settling stores a response or deletes the row.
OrphanInv == RowInv /\ crashes \in Nat /\ OrphanNeedsCrash

LEMMA InitOrphanInv == Init => OrphanInv
BY InitRowInv DEF Init, OrphanInv, OrphanNeedsCrash

LEMMA NextOrphanInv ==
  ASSUME OrphanInv, [Next]_vars
  PROVE  OrphanInv'
<1>0. RowInv' /\ RowInv
  BY NextRowInv DEF OrphanInv
<1> USE <1>0, NoneAssumption, OutcomesAssumption
    DEF RowInv, TypeOK, OwnerHasPlaceholder, Owning, NoRow, Row, Goto, OrphanInv, OrphanNeedsCrash
<1>1. ASSUME NEW t \in Requests, ReadKey(t) PROVE OrphanInv'
  BY <1>1 DEF ReadKey, Answer
<1>2. ASSUME NEW t \in Requests, TakeLock(t) PROVE OrphanInv'
  BY <1>2 DEF TakeLock, Answer
<1>3. ASSUME NEW t \in Requests, Insert(t) PROVE OrphanInv'
  BY <1>3 DEF Insert
<1>4. ASSUME NEW t \in Requests, Call(t) PROVE OrphanInv'
  BY <1>4 DEF Call
<1>5. ASSUME NEW t \in Requests, Settle(t) PROVE OrphanInv'
  BY <1>5 DEF Settle
<1>6. ASSUME NEW t \in Requests, Unlock(t) PROVE OrphanInv'
  BY <1>6 DEF Unlock
<1>7. ASSUME NEW t \in Requests, Crash(t) PROVE OrphanInv'
  BY <1>7 DEF Crash
<1>8. CASE ExpireLock
  BY <1>8 DEF ExpireLock
<1>9. CASE UNCHANGED vars
  BY <1>9 DEF vars
<1>10. QED
  BY <1>1, <1>2, <1>3, <1>4, <1>5, <1>6, <1>7, <1>8, <1>9 DEF Next, Step, Finished
-----------------------------------------------------------------------------
\* Before the first request nothing has committed.
LEMMA InitEffectInv == Init => EffectInv
BY InitRowInv DEF Init, EffectInv, KeyIsTaken, Storable, OutcomeTold

\* A commit with JSON is followed by a stored response, or by a crash that
\* leaves the placeholder; in both cases the key stays taken, so nobody calls again.
LEMMA NextEffectInv ==
  ASSUME EffectInv, [Next]_vars
  PROVE  EffectInv'
<1>0. RowInv' /\ RowInv
  BY NextRowInv DEF EffectInv
<1> USE <1>0, NoneAssumption, OutcomesAssumption
    DEF RowInv, TypeOK, OneAtATime, OwnerHasPlaceholder, Owning, NoRow, Row, Goto,
        EffectInv, KeyIsTaken, Storable, OutcomeTold, AllOutcomes
<1>1. ASSUME NEW t \in Requests, ReadKey(t) PROVE EffectInv'
  BY <1>1 DEF ReadKey, Answer
<1>2. ASSUME NEW t \in Requests, TakeLock(t) PROVE EffectInv'
  BY <1>2 DEF TakeLock, Answer
<1>3. ASSUME NEW t \in Requests, Insert(t) PROVE EffectInv'
  BY <1>3 DEF Insert
<1>4. ASSUME NEW t \in Requests, Call(t) PROVE EffectInv'
  <2>1. ~Storable
    BY <1>4 DEF Call
  <2>2. row # NoRow /\ row' = row
    BY <1>4 DEF Call
  <2>3. \A u \in Requests : pc'[u] \in Owning => u = t
    BY <1>4 DEF Call
  <2>4. PICK o \in Outcomes : /\ outcome' = [outcome EXCEPT ![t] = o]
                              /\ effects' = IF o \in {"json", "bytes"}
                                            THEN effects \cup {t} ELSE effects
    BY <1>4 DEF Call
  <2>5. pc' = [pc EXCEPT ![t] = "settle"] /\ pc[t] = "call"
    BY <1>4 DEF Call
  <2>6. KeyIsTaken'
    <3>1. Storable' => o = "json"
      BY <2>1, <2>4
    <3>2. QED
      BY <2>2, <2>3, <2>4, <2>5, <3>1
  <2>7. OutcomeTold'
    BY <2>4, <2>5
  <2>8. QED
    BY <2>6, <2>7
<1>5. ASSUME NEW t \in Requests, Settle(t) PROVE EffectInv'
  BY <1>5 DEF Settle
<1>6. ASSUME NEW t \in Requests, Unlock(t) PROVE EffectInv'
  BY <1>6 DEF Unlock
<1>7. ASSUME NEW t \in Requests, Crash(t) PROVE EffectInv'
  BY <1>7 DEF Crash
<1>8. CASE ExpireLock
  BY <1>8 DEF ExpireLock
<1>9. CASE UNCHANGED vars
  BY <1>9 DEF vars
<1>10. QED
  BY <1>1, <1>2, <1>3, <1>4, <1>5, <1>6, <1>7, <1>8, <1>9 DEF Next, Step, Finished

\* Before the first request nothing is stored and nobody has an answer.
LEMMA InitIInv == Init => IInv
BY InitEffectInv, NoneAssumption DEF Init, IInv, StoredIsEffect, ReplaysTheEffect, NoRow

\* Every step keeps the stored response that of the request that committed,
\* and with it every replayed answer.
LEMMA NextIInv ==
  ASSUME IInv, [Next]_vars
  PROVE  IInv'
<1>0. EffectInv' /\ EffectInv
  BY NextEffectInv DEF IInv
<1> USE <1>0, NoneAssumption, OutcomesAssumption
    DEF RowInv, TypeOK, OneAtATime, OwnerHasPlaceholder, Owning, NoRow, Row, Goto, Answers,
        EffectInv, KeyIsTaken, Storable, OutcomeTold, AllOutcomes, IInv, StoredIsEffect, ReplaysTheEffect
<1>1. ASSUME NEW t \in Requests, ReadKey(t) PROVE IInv'
  BY <1>1 DEF ReadKey, Answer
<1>2. ASSUME NEW t \in Requests, TakeLock(t) PROVE IInv'
  BY <1>2 DEF TakeLock, Answer
<1>3. ASSUME NEW t \in Requests, Insert(t) PROVE IInv'
  BY <1>3 DEF Insert
<1>4. ASSUME NEW t \in Requests, Call(t) PROVE IInv'
  BY <1>4 DEF Call
<1>5. ASSUME NEW t \in Requests, Settle(t) PROVE IInv'
  BY <1>5 DEF Settle
<1>6. ASSUME NEW t \in Requests, Unlock(t) PROVE IInv'
  BY <1>6 DEF Unlock
<1>7. ASSUME NEW t \in Requests, Crash(t) PROVE IInv'
  BY <1>7 DEF Crash
<1>8. CASE ExpireLock
  BY <1>8 DEF ExpireLock
<1>9. CASE UNCHANGED vars
  BY <1>9 DEF vars
<1>10. QED
  BY <1>1, <1>2, <1>3, <1>4, <1>5, <1>6, <1>7, <1>8, <1>9 DEF Next, Step, Finished
-----------------------------------------------------------------------------
\* The row, the lock and what each request knows have their types.
THEOREM TypeCorrect == Spec => []TypeOK
<1>1. RowInv => TypeOK
  BY DEF RowInv
<1>2. QED
  BY InitRowInv, NextRowInv, <1>1, PTL DEF Spec

\* Requests with one key never run the endpoint side by side, even after the
\* Redis lock expired: the primary key of idempotency_keys is enough
\* (core/idempotency.py, dispatch).
THEOREM Exclusion == Spec => []OneAtATime
<1>1. RowInv => OneAtATime
  BY DEF RowInv
<1>2. QED
  BY InitRowInv, NextRowInv, <1>1, PTL DEF Spec

\* Once the endpoint has committed with an answer that can be stored, no request
\* with the key commits again, whatever is retried, crashes or overlaps.
THEOREM NothingTwice == Spec => NothingAfterStorable
<1>1. EffectInv /\ [Next]_vars => [Storable => effects' = effects]_vars
  <2> SUFFICES ASSUME EffectInv, Next, Storable PROVE effects' = effects
    OBVIOUS
  <2>1. ASSUME NEW t \in Requests, Call(t) PROVE effects' = effects
    BY <2>1 DEF Call, EffectInv, KeyIsTaken
  <2>2. QED
    BY <2>1 DEF Next, Step, Finished, ReadKey, TakeLock, Insert, Settle, Unlock, Crash,
       ExpireLock, vars
<1>2. EffectInv /\ [Next]_vars => EffectInv'
  BY NextEffectInv
<1>3. QED
  BY InitEffectInv, <1>1, <1>2, PTL DEF Spec, NothingAfterStorable, Storable

\* Without a crash no placeholder survives the request that inserted it (the
\* `except` and `else` branches of core/idempotency.py, dispatch).
THEOREM OrphansNeedCrash == Spec => []OrphanNeedsCrash
<1>1. OrphanInv => OrphanNeedsCrash
  BY DEF OrphanInv
<1>2. OrphanInv /\ [Next]_vars => OrphanInv'
  BY NextOrphanInv
<1>3. QED
  BY InitOrphanInv, <1>1, <1>2, PTL DEF Spec

\* A replayed response is that of the request that committed, with the body of
\* the one that is answered.
THEOREM ReplayIsFaithful == Spec => []ReplaysTheEffect
<1>1. IInv => ReplaysTheEffect
  BY DEF IInv
<1>2. IInv /\ [Next]_vars => IInv'
  BY NextIInv
<1>3. QED
  BY InitIInv, <1>1, <1>2, PTL DEF Spec
=============================================================================
