------------------------------- MODULE Outbox -------------------------------
(***************************************************************************)
(* services/outbox.py and workers/outbox_publisher.py: events committed    *)
(* with the change they announce, and the worker's runs that post them to  *)
(* n8n, oldest first, with retry and backoff.                              *)
(*                                                                         *)
(* Time is kept relative, so that it never runs out: for each event what   *)
(* is left of its backoff, for each run how long ago it took `now`.        *)
(***************************************************************************)
EXTENDS FiniteSetsExt, Integers

CONSTANTS
  Events,       \* the events, each an integer: its rank by created_at
  Publishers,   \* the worker processes, each running run_once again and again
  BatchSize,    \* DEFAULT_BATCH_SIZE
  MaxAttempts,  \* DEFAULT_MAX_ATTEMPTS
  Base, Cap,    \* _BASE_BACKOFF_SECONDS and _MAX_BACKOFF_SECONDS, in ticks
  MaxCrashes    \* bound: runs that die

ASSUME OutboxAssumption ==
  /\ Events \subseteq Nat /\ IsFiniteSet(Events)
  /\ {BatchSize, MaxAttempts, Base, Cap} \subseteq Nat \ {0}
  /\ MaxCrashes \in Nat

VARIABLES
  table,     \* outbox_events: written, attempts, published
  wait,      \* ticks until last_attempted_at plus the backoff
  pc,        \* where each run is
  run,       \* its batch, the rows as it loaded them, which were due, its lag
  posts,     \* history: POSTs of each event
  received,  \* history: the events n8n has got
  crashes    \* runs that died so far

vars == << table, wait, pc, run, posts, received, crashes >>

NoRun == [left |-> {}, attempts |-> [e \in Events |-> 0], due |-> {}, lag |-> 0,
          success |-> FALSE]

Init ==
  /\ table = [e \in Events |-> [written |-> FALSE, attempts |-> 0, published |-> FALSE]]
  /\ wait = [e \in Events |-> 0]
  /\ pc = [p \in Publishers |-> "idle"]
  /\ run = [p \in Publishers |-> NoRun]
  /\ posts = [e \in Events |-> 0]
  /\ received = {}
  /\ crashes = 0
-----------------------------------------------------------------------------
\* write_event in a transaction that commits.  created_at is when that
\* transaction began, so an older event may appear after a younger one.
Write(e) ==
  /\ ~table[e].written
  /\ table' = [table EXCEPT ![e].written = TRUE]
  /\ UNCHANGED << wait, pc, run, posts, received, crashes >>

Unpublished == {e \in Events : table[e].written /\ ~table[e].published}

\* compute_retry_decision: the delay after n attempts.
Delay(n) == Min({Base * 2 ^ (n - 1), Cap})

Oldest(S) == {e \in S : Cardinality({d \in S : d < e}) < BatchSize}

\* A run takes `now` and loads the oldest unpublished rows.  Whether a row is
\* due is settled here: the decision looks at `now` and at the loaded row only.
Fetch(p) ==
  /\ pc[p] = "idle"
  /\ pc' = [pc EXCEPT ![p] = "loop"]
  /\ run' = [run EXCEPT ![p] =
       [NoRun EXCEPT !.left = Oldest(Unpublished),
                     !.attempts = [e \in Events |-> table[e].attempts],
                     !.due = {e \in Events : wait[e] = 0}]]
  /\ UNCHANGED << table, wait, posts, received, crashes >>

\* The row the loop is at.
At(p, e) == e \in run[p].left /\ \A d \in run[p].left : e <= d

\* A fault: the last attempt is never made.
EligibleOffByOne(p, e) ==
  /\ run[p].attempts[e] < MaxAttempts - 1
  /\ run[p].attempts[e] = 0 \/ e \in run[p].due

\* compute_retry_decision: not exhausted, never tried or past its backoff.
Eligible(p, e) ==
  /\ run[p].attempts[e] < MaxAttempts
  /\ run[p].attempts[e] = 0 \/ e \in run[p].due

Skip(p) ==
  /\ pc[p] = "loop"
  /\ \E e \in run[p].left :
       /\ At(p, e) /\ ~Eligible(p, e)
       /\ run' = [run EXCEPT ![p].left = @ \ {e}]
  /\ UNCHANGED << table, wait, pc, posts, received, crashes >>

\* _post_event: n8n gets the event or not, and answers with a 2xx status or
\* not; a 2xx status means that it has got it, and a timeout nothing.
Post(p) ==
  /\ pc[p] = "loop"
  /\ \E e \in run[p].left, got, ok \in BOOLEAN :
       /\ At(p, e) /\ Eligible(p, e)
       /\ ok => got
       /\ posts' = [posts EXCEPT ![e] = @ + 1]
       /\ received' = IF got THEN received \cup {e} ELSE received
       /\ run' = [run EXCEPT ![p].success = ok]
  /\ pc' = [pc EXCEPT ![p] = "record"]
  /\ UNCHANGED << table, wait, crashes >>

\* A fault: whatever n8n answered, the event counts as published.
RecordAnyAnswer(p) ==
  /\ pc[p] = "record"
  /\ \E e \in run[p].left :
       /\ At(p, e)
       /\ table' = [table EXCEPT ![e].attempts = run[p].attempts[e] + 1, ![e].published = TRUE]
       /\ wait' = [wait EXCEPT ![e] = Max({0, Delay(run[p].attempts[e] + 1) - run[p].lag})]
       /\ run' = [run EXCEPT ![p].left = @ \ {e}]
  /\ pc' = [pc EXCEPT ![p] = "loop"]
  /\ UNCHANGED << posts, received, crashes >>

\* A fault: the run commits once, after its last event.
RecordAtEnd(p) ==
  /\ pc[p] = "record"
  /\ \E e \in run[p].left :
       /\ At(p, e)
       /\ run' = [run EXCEPT ![p].left = @ \ {e}]
       /\ IF run[p].left = {e}
          THEN table' = [d \in Events |->
                 IF d \in run[p].due
                 THEN [table[d] EXCEPT !.attempts = run[p].attempts[d] + 1] ELSE table[d]]
          ELSE UNCHANGED table
  /\ pc' = [pc EXCEPT ![p] = "loop"]
  /\ UNCHANGED << wait, posts, received, crashes >>

\* attempts, last_attempted_at and, after a 2xx status, published_at are
\* committed, event by event.  The UPDATE writes what it computed from the
\* loaded row, and leaves published_at alone after a failure.
Record(p) ==
  /\ pc[p] = "record"
  /\ \E e \in run[p].left :
       /\ At(p, e)
       /\ table' = [table EXCEPT ![e].attempts = run[p].attempts[e] + 1,
                                 ![e].published = @ \/ run[p].success]
       /\ wait' = [wait EXCEPT ![e] = Max({0, Delay(run[p].attempts[e] + 1) - run[p].lag})]
       /\ run' = [run EXCEPT ![p].left = @ \ {e}, ![p].success = FALSE]
  /\ pc' = [pc EXCEPT ![p] = "loop"]
  /\ UNCHANGED << posts, received, crashes >>

\* The batch is done; the worker's schedule starts another run.
Finish(p) ==
  /\ pc[p] = "loop" /\ run[p].left = {}
  /\ pc' = [pc EXCEPT ![p] = "idle"]
  /\ run' = [run EXCEPT ![p] = NoRun]
  /\ UNCHANGED << table, wait, posts, received, crashes >>

\* The process dies at any point of a run.
Crash(p) ==
  /\ pc[p] # "idle" /\ crashes < MaxCrashes
  /\ crashes' = crashes + 1
  /\ pc' = [pc EXCEPT ![p] = "idle"]
  /\ run' = [run EXCEPT ![p] = NoRun]
  /\ UNCHANGED << table, wait, posts, received >>

\* Time passes; beyond the longest backoff it makes no difference.
Tick ==
  /\ wait' = [e \in Events |-> Max({0, wait[e] - 1})]
  /\ run' = [p \in Publishers |-> IF pc[p] = "idle" THEN run[p]
                                  ELSE [run[p] EXCEPT !.lag = Min({Cap, @ + 1})]]
  /\ << wait', run' >> # << wait, run >>
  /\ UNCHANGED << table, pc, posts, received, crashes >>

Work(p) == Fetch(p) \/ Skip(p) \/ Post(p) \/ Record(p) \/ Finish(p)

Next == \/ \E e \in Events : Write(e)
        \/ \E p \in Publishers : Work(p) \/ Crash(p)
        \/ Tick

Spec == Init /\ [][Next]_vars

\* The worker's schedule and its runs go on, and time passes.  n8n may refuse
\* everything.
FairSpec == Spec /\ WF_vars(Tick) /\ \A p \in Publishers : WF_vars(Work(p))
-----------------------------------------------------------------------------
TypeOK ==
  /\ table \in [Events -> [written: BOOLEAN, attempts: 0..MaxAttempts, published: BOOLEAN]]
  /\ wait \in [Events -> 0..Cap]
  /\ pc \in [Publishers -> {"idle", "loop", "record"}]
  /\ \A p \in Publishers : /\ run[p].left \subseteq {e \in Events : table[e].written}
                           /\ run[p].lag \in 0..Cap
  /\ crashes \in 0..MaxCrashes

\* An event is marked published only if n8n has got it, whatever runs overlap,
\* crash or time out: nothing is lost between the two systems.
PublishedMeansReceived == \A e \in Events : table[e].published => e \in received

\* The POSTs that the table does not know of.
Unrecorded == MapThenSumSet(LAMBDA e : posts[e] - table[e].attempts, Events)

\* "a crash mid-batch loses at most the in-flight event's progress": the POSTs
\* the table does not know of are one per crash and the one being recorded.
CrashLosesOneAttempt ==
  Unrecorded <= crashes + Cardinality({p \in Publishers : pc[p] = "record"})

\* An event that was published is not marked unpublished again by a run that
\* loaded it earlier and failed to post it.
PublishedForGood == [][\A e \in Events : table[e].published => table'[e].published]_vars

\* A batch of older events that are exhausted and not published: they are loaded
\* before e at every run (fetch_due_events asks for published_at alone).
HeldUp(e) ==
  Cardinality({d \in Unpublished : d < e /\ table[d].attempts = MaxAttempts}) >= BatchSize

\* Every event is published in the end or tried as often as it may be; a full
\* batch of exhausted older ones is all that ever holds one up, not backoff, nor
\* crashes, nor younger events, nor fewer failures than that
\* (publish_pending, fetch_due_events and compute_retry_decision).
EveryEventSettled ==
  \A e \in Events :
    table[e].written ~>
      (table[e].published \/ table[e].attempts = MaxAttempts \/ HeldUp(e))
=============================================================================
