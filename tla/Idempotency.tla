---------------------------- MODULE Idempotency -----------------------------
(***************************************************************************)
(* core/idempotency.py: POST requests that carry the same Idempotency-Key  *)
(* in one scope, with the row of idempotency_keys and the Redis lock that  *)
(* they share.  Each of them opens sessions of its own, so every read and  *)
(* every commit is a step; the endpoint behind the middleware is one.      *)
(***************************************************************************)
EXTENDS Naturals

CONSTANTS
  Requests,   \* the requests with the key, retries included
  Bodies,     \* the hashes of their bodies
  Outcomes,   \* how the endpoint may end, see Call
  MaxCrashes, \* bound: requests whose process dies
  None        \* no row, no lock, no response

ASSUME NoneAssumption ==
  /\ None \notin Requests \cup Bodies
  /\ Requests \cap {"conflict", "failure"} = {}

\* The endpoint commits and answers 2xx with JSON, or with bytes that are not;
\* it answers with an error or raises, and has rolled back.
AllOutcomes == {"json", "bytes", "error", "raise"}
ASSUME OutcomesAssumption == Outcomes \subseteq AllOutcomes

VARIABLES
  row,      \* the committed row: the body's hash, and whose response it stores
  lock,     \* the request that set the Redis lock
  pc,       \* where each request is
  body,     \* the hash of its body
  outcome,  \* how its endpoint ended
  answer,   \* what it was answered: a request's response, or a failure
  effects,  \* history: the requests whose endpoint committed, with JSON or bytes
  crashes

vars == << row, lock, pc, body, outcome, answer, effects, crashes >>

Row == [hash: Bodies, response: Requests \cup {None}]
NoRow == [hash |-> None, response |-> None]
Answers == Requests \cup {None, "conflict", "failure"}

Init ==
  /\ row = NoRow
  /\ lock = None
  /\ pc = [t \in Requests |-> "idle"]
  /\ body \in [Requests -> Bodies]
  /\ outcome = [t \in Requests |-> None]
  /\ answer = [t \in Requests |-> None]
  /\ effects = {}
  /\ crashes = 0
-----------------------------------------------------------------------------
Goto(t, where) == pc' = [pc EXCEPT ![t] = where]
Answer(t, what) == Goto(t, "done") /\ answer' = [answer EXCEPT ![t] = what]

\* A fault: the body is not compared.
ReadKeyOfAnyBody(t) ==
  /\ pc[t] = "idle"
  /\ IF row = NoRow
     THEN Goto(t, "lock") /\ UNCHANGED answer
     ELSE Answer(t, IF row.response # None THEN row.response ELSE "conflict")
  /\ UNCHANGED << row, lock, body, outcome, effects, crashes >>

\* The session.get of the key.  A stored response is replayed; a row without
\* one, or with another hash, is a conflict.  expires_at is not looked at.
ReadKey(t) ==
  /\ pc[t] = "idle"
  /\ IF row = NoRow
     THEN Goto(t, "lock") /\ UNCHANGED answer
     ELSE Answer(t, IF row.hash = body[t] /\ row.response # None
                    THEN row.response ELSE "conflict")
  /\ UNCHANGED << row, lock, body, outcome, effects, crashes >>

\* SET NX with LOCK_TTL_SECONDS.
TakeLock(t) ==
  /\ pc[t] = "lock"
  /\ IF lock = None
     THEN lock' = t /\ Goto(t, "insert") /\ UNCHANGED answer
     ELSE Answer(t, "conflict") /\ UNCHANGED lock
  /\ UNCHANGED << row, body, outcome, effects, crashes >>

\* A fault: the placeholder replaces a row that is there.
InsertOver(t) ==
  /\ pc[t] = "insert"
  /\ row' = [hash |-> body[t], response |-> None]
  /\ Goto(t, "call")
  /\ UNCHANGED << lock, body, outcome, answer, effects, crashes >>

\* The placeholder row is committed, or its primary key is taken.
Insert(t) ==
  /\ pc[t] = "insert"
  /\ IF row = NoRow
     THEN /\ row' = [hash |-> body[t], response |-> None]
          /\ Goto(t, "call") /\ UNCHANGED answer
     ELSE /\ answer' = [answer EXCEPT ![t] = "conflict"]
          /\ Goto(t, "unlock") /\ UNCHANGED row
  /\ UNCHANGED << lock, body, outcome, effects, crashes >>

\* call_next: the endpoint runs to its end, with an outcome.
Call(t) ==
  /\ pc[t] = "call"
  /\ \E o \in Outcomes :
       /\ outcome' = [outcome EXCEPT ![t] = o]
       /\ effects' = IF o \in {"json", "bytes"} THEN effects \cup {t} ELSE effects
  /\ Goto(t, "settle")
  /\ UNCHANGED << row, lock, body, answer, crashes >>

\* A fault: the row stays when the endpoint fails.
SettleKeeping(t) ==
  /\ pc[t] = "settle"
  /\ row' = IF outcome[t] = "json" THEN [row EXCEPT !.response = t] ELSE row
  /\ answer' = [answer EXCEPT ![t] = IF t \in effects THEN t ELSE "failure"]
  /\ Goto(t, "unlock")
  /\ UNCHANGED << lock, body, outcome, effects, crashes >>

\* A fault: the response is never stored.
SettleForgetting(t) ==
  /\ pc[t] = "settle"
  /\ row' = NoRow
  /\ answer' = [answer EXCEPT ![t] = IF t \in effects THEN t ELSE "failure"]
  /\ Goto(t, "unlock")
  /\ UNCHANGED << lock, body, outcome, effects, crashes >>

\* A 2xx JSON response is stored in the row; after anything else, an exception
\* included, the row is deleted.
Settle(t) ==
  /\ pc[t] = "settle"
  /\ row' = IF row # NoRow /\ outcome[t] = "json" THEN [row EXCEPT !.response = t] ELSE NoRow
  /\ answer' = [answer EXCEPT ![t] = IF t \in effects THEN t ELSE "failure"]
  /\ Goto(t, "unlock")
  /\ UNCHANGED << lock, body, outcome, effects, crashes >>

\* finally: the lock is deleted, whoever holds it by now.
Unlock(t) ==
  /\ pc[t] = "unlock"
  /\ lock' = None
  /\ Goto(t, "done")
  /\ UNCHANGED << row, body, outcome, answer, effects, crashes >>

\* The lock's time to live runs out.
ExpireLock ==
  /\ lock # None
  /\ lock' = None
  /\ UNCHANGED << row, pc, body, outcome, answer, effects, crashes >>

\* The process dies, or the client goes away and the task is cancelled while
\* the endpoint runs: `except Exception` does not see it.
Crash(t) ==
  /\ pc[t] \notin {"idle", "done"} /\ crashes < MaxCrashes
  /\ crashes' = crashes + 1
  /\ Goto(t, "done")
  /\ UNCHANGED << row, lock, body, outcome, answer, effects >>

Step(t) == \/ ReadKey(t) \/ TakeLock(t) \/ Insert(t) \/ Call(t) \/ Settle(t) \/ Unlock(t)

\* All requests have been answered.
Finished == (\A t \in Requests : pc[t] = "done") /\ UNCHANGED vars

Next == \/ \E t \in Requests : Step(t) \/ Crash(t)
        \/ ExpireLock
        \/ Finished

Spec == Init /\ [][Next]_vars

-----------------------------------------------------------------------------
\* Where a request owns the row.
Owning == {"call", "settle"}

TypeOK ==
  /\ row \in Row \cup {NoRow}
  /\ lock \in Requests \cup {None}
  /\ pc \in [Requests -> {"idle", "lock", "insert", "unlock", "done"} \cup Owning]
  /\ body \in [Requests -> Bodies]
  /\ outcome \in [Requests -> Outcomes \cup {None}]
  /\ answer \in [Requests -> Answers]
  /\ effects \subseteq Requests

\* Requests with one key never run the endpoint side by side, even after the
\* Redis lock has expired or another request's `finally` has deleted it.
OneAtATime == \A t, u \in Requests : pc[t] \in Owning /\ pc[u] \in Owning => t = u

\* "returns the stored response instead of re-executing" (IdempotencyKey): once
\* the endpoint has committed with an answer that can be stored, no request with
\* the key commits again, whatever is retried, crashes or overlaps.
NothingAfterStorable ==
  [][(\E t \in effects : outcome[t] = "json") => effects' = effects]_vars

\* A replayed response is that of the request that committed, and it had the
\* same body.
ReplaysTheEffect ==
  \A t \in Requests :
    answer[t] \in Requests => answer[t] \in effects /\ body[answer[t]] = body[t]

\* "The placeholder row must not survive past this request": only a process that
\* died leaves one behind; every other way out of the endpoint, an exception
\* included, settles the row.
OrphanNeedsCrash ==
  crashes = 0 /\ row # NoRow /\ row.response = None => \E t \in Requests : pc[t] \in Owning

=============================================================================
