---------------------------- MODULE OutboxProofs ----------------------------
(***************************************************************************)
(* Theorems of Outbox, for any events, publishers, batch, attempts,        *)
(* backoff and number of crashes: what is published stays published, and   *)
(* has been received; and, for a single publisher, a crash loses count of  *)
(* one attempt at most.                                                    *)
(***************************************************************************)
EXTENDS Outbox, FoldFacts, TLAPS

Run == [left: SUBSET Events, attempts: [Events -> 0..MaxAttempts], due: SUBSET Events,
        lag: 0..Cap, success: BOOLEAN]

\* TypeOK with the type of what a run has loaded.
Types ==
  /\ TypeOK
  /\ run \in [Publishers -> Run]
  /\ received \subseteq Events

\* A run that has posted an event had an attempt left for it, and a 2xx status
\* means that n8n has the event.
PostedOK ==
  \A p \in Publishers : pc[p] = "record" =>
    \A e \in run[p].left : At(p, e) =>
      /\ run[p].attempts[e] < MaxAttempts
      /\ run[p].success => e \in received

\* The inductive invariant.
IInv == Types /\ PostedOK /\ PublishedMeansReceived
-----------------------------------------------------------------------------
\* The larger and the smaller of two numbers.
LEMMA TwoNumbers ==
  ASSUME NEW m \in Int, NEW n \in Int
  PROVE  /\ Max({m, n}) = IF m >= n THEN m ELSE n
         /\ Min({m, n}) = IF m <= n THEN m ELSE n
BY DEF Max, Min

\* Whatever the delay, the rest of a backoff is between nothing and the longest.
LEMMA BackoffBounded ==
  ASSUME NEW n \in Nat \ {0}, NEW lag \in 0..Cap
  PROVE  Max({0, Delay(n) - lag}) \in 0..Cap
<1>1. Base \in Nat /\ Cap \in Nat
  BY OutboxAssumption
<1>2. Base * 2 ^ (n - 1) \in Int
  BY <1>1
<1>3. Delay(n) \in Int /\ Delay(n) <= Cap
  <2>1. \A d \in Int : Min({d, Cap}) \in Int /\ Min({d, Cap}) <= Cap
    BY <1>1, TwoNumbers
  <2>2. QED
    BY <1>2, <2>1, Zenon DEF Delay
<1>4. Delay(n) - lag \in Int /\ Delay(n) - lag <= Cap
  BY <1>1, <1>3
<1>5. QED
  BY <1>1, <1>4, TwoNumbers

\* How long ago a run began is counted up to the longest backoff.
LEMMA LagBounded ==
  ASSUME NEW lag \in 0..Cap
  PROVE  Min({Cap, lag + 1}) \in 0..Cap
<1>1. Cap \in Int /\ lag \in Int /\ lag >= 0 /\ Cap >= 0
  BY OutboxAssumption
<1>2. lag + 1 \in Int
  BY <1>1
<1>3. Min({Cap, lag + 1}) = IF Cap <= lag + 1 THEN Cap ELSE lag + 1
  BY <1>1, <1>2, TwoNumbers, Zenon
<1>4. QED
  BY <1>1, <1>3

\* What a run's record becomes in a step is still one.
LEMMA RunStays ==
  ASSUME NEW r \in Run, NEW left \in SUBSET Events, NEW ok \in BOOLEAN, NEW lag \in 0..Cap
  PROVE  /\ [r EXCEPT !.success = ok] \in Run
         /\ [r EXCEPT !.left = left] \in Run
         /\ [r EXCEPT !.left = left, !.success = ok] \in Run
         /\ [r EXCEPT !.lag = lag] \in Run
BY DEF Run

\* The invariant holds before anything is written.
LEMMA InitIInv == Init => IInv
<1> SUFFICES ASSUME Init PROVE IInv
  OBVIOUS
<1>1. NoRun \in Run
  BY OutboxAssumption DEF NoRun, Run
<1>2. QED
  BY <1>1, OutboxAssumption
     DEF Init, IInv, Types, TypeOK, NoRun, Run, PostedOK, PublishedMeansReceived
-----------------------------------------------------------------------------
\* Every step keeps the invariant.
LEMMA NextIInv == IInv /\ [Next]_vars => IInv'
<1> SUFFICES ASSUME IInv, [Next]_vars PROVE IInv'
  OBVIOUS
<1> USE OutboxAssumption
<1>0. /\ TypeOK /\ run \in [Publishers -> Run] /\ received \subseteq Events
      /\ PostedOK /\ PublishedMeansReceived
      /\ NoRun \in Run
  BY DEF IInv, Types, NoRun, Run
<1>1. ASSUME NEW e \in Events, Write(e) PROVE IInv'
  <2>1. /\ table' = [table EXCEPT ![e].written = TRUE]
        /\ wait' = wait /\ pc' = pc /\ run' = run /\ posts' = posts /\ received' = received
        /\ crashes' = crashes
    BY <1>1 DEF Write
  <2>2. TypeOK'
    BY <1>0, <2>1 DEF TypeOK
  <2>3. Types'
    BY <1>0, <2>1, <2>2 DEF IInv, Types
  <2>4. PostedOK'
    BY <1>0, <2>1 DEF PostedOK, At
  <2>5. PublishedMeansReceived'
    BY <1>0, <2>1 DEF TypeOK, PublishedMeansReceived
  <2> QED
    BY <2>3, <2>4, <2>5 DEF IInv
<1>2. ASSUME NEW p \in Publishers, Fetch(p) PROVE IInv'
  <2>1. Oldest(Unpublished) \subseteq {e \in Events : table[e].written}
    BY DEF Oldest, Unpublished
  <2>2. run'[p] \in Run
    BY <1>0, <1>2, <2>1 DEF Fetch, TypeOK, NoRun, Run
  <2>3. TypeOK' /\ run' \in [Publishers -> Run]
    BY <1>0, <1>2, <2>1, <2>2 DEF Fetch, TypeOK, Run, NoRun
  <2>4. QED
    BY <1>0, <1>2, <2>3 DEF Fetch, IInv, Types, TypeOK, PostedOK, At, PublishedMeansReceived
<1>3. ASSUME NEW p \in Publishers, Skip(p) PROVE IInv'
  <2>1. PICK e \in run[p].left : run' = [run EXCEPT ![p].left = @ \ {e}]
    BY <1>3 DEF Skip
  <2>2. TypeOK' /\ run' \in [Publishers -> Run]
    BY <1>0, <1>3, <2>1 DEF Skip, TypeOK, Run
  <2>3. QED
    BY <1>0, <1>3, <2>1, <2>2 DEF Skip, IInv, Types, TypeOK, PostedOK, At, PublishedMeansReceived
<1>4. ASSUME NEW p \in Publishers, Post(p) PROVE IInv'
  <2>1. PICK e \in run[p].left, got \in BOOLEAN, ok \in BOOLEAN :
          /\ At(p, e) /\ Eligible(p, e)
          /\ ok => got
          /\ received' = IF got THEN received \cup {e} ELSE received
          /\ run' = [run EXCEPT ![p].success = ok]
    BY <1>4 DEF Post
  <2>2. e \in Events /\ run[p].attempts[e] < MaxAttempts
    BY <1>0, <2>1 DEF Run, Eligible
  <2>3. run' \in [Publishers -> Run]
    <3>1. [run[p] EXCEPT !.success = ok] \in Run
      <4>1. run[p] \in Run
        BY <1>0
      <4>2. QED
        BY <4>1 DEF Run
    <3>2. QED
      BY <1>0, <2>1, <3>1
  <2>3a. \A q \in Publishers : run'[q].left = run[q].left /\ run'[q].lag = run[q].lag
    BY <1>0, <2>1 DEF Run
  <2>3b. TypeOK' /\ received' \subseteq Events
    BY <1>0, <1>4, <2>1, <2>2, <2>3a DEF Post, TypeOK
  <2>4. ASSUME NEW d \in run[p].left, At(p, d) PROVE d = e
    <3>1. d <= e /\ e <= d /\ run[p].left \subseteq Events
      BY <1>0, <2>1, <2>4 DEF At, Run
    <3>2. d \in Nat /\ e \in Nat
      BY <3>1
    <3>3. QED
      BY <3>1, <3>2
  <2>5. PostedOK'
    <3> SUFFICES ASSUME NEW q \in Publishers, pc'[q] = "record",
                        NEW d \in run'[q].left, At(q, d)'
                 PROVE  /\ run'[q].attempts[d] < MaxAttempts
                        /\ run'[q].success => d \in received'
      BY DEF PostedOK
    <3>1. run'[q].left = run[q].left /\ run'[q].attempts = run[q].attempts
      BY <1>0, <2>1 DEF Run
    <3>2. CASE q = p
      BY <1>0, <2>1, <2>2, <2>4, <3>1, <3>2 DEF At, Run
    <3>3. CASE q # p
      BY <1>0, <1>4, <2>1, <3>1, <3>3 DEF Post, At, Run, PostedOK, TypeOK
    <3>4. QED
      BY <3>2, <3>3
  <2>6. QED
    BY <1>0, <1>4, <2>1, <2>3, <2>3b, <2>5 DEF Post, IInv, Types, PublishedMeansReceived
<1>5. ASSUME NEW p \in Publishers, Record(p) PROVE IInv'
  <2>1. PICK e \in run[p].left :
          /\ At(p, e)
          /\ table' = [table EXCEPT ![e].attempts = run[p].attempts[e] + 1,
                                    ![e].published = @ \/ run[p].success]
          /\ wait' = [wait EXCEPT ![e] = Max({0, Delay(run[p].attempts[e] + 1) - run[p].lag})]
          /\ run' = [run EXCEPT ![p].left = @ \ {e}, ![p].success = FALSE]
    BY <1>5 DEF Record
  <2>2. /\ e \in Events /\ run[p].attempts[e] + 1 \in 0..MaxAttempts \ {0}
        /\ run[p].lag \in 0..Cap
        /\ run[p].success => e \in received
    BY <1>0, <1>5, <2>1 DEF Record, Run, PostedOK
  <2>3. wait'[e] \in 0..Cap
    BY <1>0, <2>1, <2>2, BackoffBounded DEF TypeOK
  <2>4. table' \in [Events -> [written: BOOLEAN, attempts: 0..MaxAttempts, published: BOOLEAN]]
    <3>1. run[p].attempts[e] + 1 \in 0..MaxAttempts /\ run[p].success \in BOOLEAN
      BY <1>0, <2>2 DEF Run
    <3>2. table[e] \in [written: BOOLEAN, attempts: 0..MaxAttempts, published: BOOLEAN]
      BY <1>0, <2>2 DEF TypeOK
    <3>3. /\ DOMAIN table' = Events
          /\ \A d \in Events \ {e} : table'[d] = table[d]
          /\ table'[e] = [written |-> table[e].written, attempts |-> run[p].attempts[e] + 1,
                          published |-> table[e].published \/ run[p].success]
      BY <1>0, <2>1, <2>2, <3>2 DEF TypeOK
    <3>4. table'[e] \in [written: BOOLEAN, attempts: 0..MaxAttempts, published: BOOLEAN]
      BY <3>1, <3>2, <3>3
    <3>5. QED
      BY <1>0, <2>1, <3>3, <3>4 DEF TypeOK
  <2>5. wait' \in [Events -> 0..Cap]
    BY <1>0, <2>1, <2>3 DEF TypeOK
  <2>6. run' \in [Publishers -> Run]
    BY <1>0, <2>1 DEF Run
  <2>7. \A d \in Events : /\ table'[d].written = table[d].written
                          /\ table'[d].published => d \in received
    BY <1>0, <2>1, <2>2 DEF TypeOK, PublishedMeansReceived, Run
  <2>8. \A q \in Publishers : /\ run'[q].left \subseteq run[q].left
                              /\ run'[q].lag = run[q].lag
    BY <1>0, <2>1 DEF Run
  <2>9. TypeOK'
    BY <1>0, <1>5, <2>4, <2>5, <2>7, <2>8 DEF Record, TypeOK, Run
  <2>10. PostedOK'
    BY <1>0, <1>5, <2>1 DEF Record, PostedOK, At, TypeOK, Run
  <2>11. QED
    BY <1>0, <1>5, <2>6, <2>7, <2>9, <2>10 DEF Record, IInv, Types, PublishedMeansReceived
<1>6. ASSUME NEW p \in Publishers, Finish(p) \/ Crash(p) PROVE IInv'
  <2>1. /\ pc' = [pc EXCEPT ![p] = "idle"] /\ run' = [run EXCEPT ![p] = NoRun]
        /\ UNCHANGED << table, wait >> /\ crashes' \in 0..MaxCrashes
    BY <1>0, <1>6 DEF Finish, Crash, TypeOK
  <2>1a. NoRun.left = {} /\ NoRun.lag = 0
    BY DEF NoRun
  <2>1b. TypeOK' /\ run' \in [Publishers -> Run]
    BY <1>0, <2>1, <2>1a DEF TypeOK
  <2>2. QED
    BY <1>0, <1>6, <2>1, <2>1b DEF Finish, Crash, IInv, Types, TypeOK, PostedOK, At, PublishedMeansReceived
<1>7. CASE Tick
  <2>1. \A p \in Publishers :
          /\ run'[p].lag \in 0..Cap /\ run'[p] \in Run
          /\ run'[p].left = run[p].left /\ run'[p].attempts = run[p].attempts
          /\ run'[p].success = run[p].success
    <3> SUFFICES ASSUME NEW p \in Publishers
                 PROVE  /\ run'[p].lag \in 0..Cap /\ run'[p] \in Run
                        /\ run'[p].left = run[p].left /\ run'[p].attempts = run[p].attempts
                        /\ run'[p].success = run[p].success
      OBVIOUS
    <3>1. run[p] \in Run /\ run[p].lag \in 0..Cap /\ Cap \in Nat
      BY <1>0 DEF Run
    <3>2. Min({Cap, run[p].lag + 1}) \in 0..Cap
      BY <3>1, LagBounded
    <3>3. run'[p] = IF pc[p] = "idle" THEN run[p]
                    ELSE [run[p] EXCEPT !.lag = Min({Cap, run[p].lag + 1})]
      BY <1>7 DEF Tick
    <3>4. run'[p] \in Run
      BY <3>1, <3>2, <3>3, RunStays
    <3>5. QED
      BY <3>1, <3>2, <3>3, <3>4 DEF Run
  <2>2. wait' \in [Events -> 0..Cap]
    <3>1. \A e \in Events : wait[e] \in 0..Cap /\ Cap \in Nat
      BY <1>0 DEF TypeOK
    <3>2. \A e \in Events : Max({0, wait[e] - 1}) \in 0..Cap
      BY <3>1, TwoNumbers
    <3>3. QED
      BY <1>7, <3>2 DEF Tick
  <2>3. TypeOK' /\ run' \in [Publishers -> Run]
    BY <1>0, <1>7, <2>1, <2>2 DEF Tick, TypeOK
  <2>4. QED
    BY <1>0, <1>7, <2>1, <2>3 DEF Tick, IInv, Types, PostedOK, At, PublishedMeansReceived
<1>8. CASE UNCHANGED vars
  BY <1>0, <1>8 DEF vars, IInv, Types, TypeOK, PostedOK, At, PublishedMeansReceived
<1>9. QED
  BY <1>1, <1>2, <1>3, <1>4, <1>5, <1>6, <1>7, <1>8 DEF Next, Work
-----------------------------------------------------------------------------
\* The inductive invariant holds throughout.
THEOREM Inductive == Spec => []IInv
BY InitIInv, NextIInv, PTL DEF Spec

\* Outbox keeps its types: no event is tried more often than it may be, and a
\* run's batch holds rows that are there.
THEOREM TypeCorrect == Spec => []TypeOK
<1>1. IInv => TypeOK
  BY DEF IInv, Types
<1>2. QED
  BY Inductive, <1>1, PTL

\* Whatever runs overlap, crash or time out, an event that the table calls
\* published has reached n8n.
THEOREM PublishedIsReceived == Spec => []PublishedMeansReceived
<1>1. IInv => PublishedMeansReceived
  BY DEF IInv
<1>2. QED
  BY Inductive, <1>1, PTL

\* A run with a stale batch never takes back that an event was published.
THEOREM NeverUnpublished == Spec => PublishedForGood
<1>1. IInv /\ [Next]_vars => [\A e \in Events : table[e].published => table'[e].published]_vars
  <2> SUFFICES ASSUME IInv, Next, NEW e \in Events, table[e].published
               PROVE  table'[e].published
    OBVIOUS
  <2>1. table \in [Events -> [written: BOOLEAN, attempts: 0..MaxAttempts, published: BOOLEAN]]
    BY DEF IInv, Types, TypeOK
  <2>2. CASE \E d \in Events : Write(d)
    BY <2>1, <2>2 DEF Write
  <2>3. CASE \E p \in Publishers : Record(p)
    BY <2>1, <2>3 DEF Record, IInv, Types, Run
  <2>4. CASE Tick \/ \E p \in Publishers : Fetch(p) \/ Skip(p) \/ Post(p) \/ Finish(p) \/ Crash(p)
    BY <2>4 DEF Tick, Fetch, Skip, Post, Finish, Crash
  <2>5. QED
    BY <2>2, <2>3, <2>4 DEF Next, Work
<1>2. QED
  BY Inductive, <1>1, PTL DEF Spec, PublishedForGood
-----------------------------------------------------------------------------
\* The attempts that the table does not know of, event by event.
Gap == [e \in Events |-> posts[e] - table[e].attempts]

\* Unrecorded is their total.
LEMMA UnrecordedIsTotal ==
  (\A e \in Events : Gap[e] \in Int) => Unrecorded = Total(Gap, Events)
<1> SUFFICES ASSUME \A e \in Events : Gap[e] \in Int PROVE Unrecorded = Total(Gap, Events)
  OBVIOUS
<1> DEFINE Body(g, T) == IF T = {} THEN 0
             ELSE (posts[CHOOSE x \in T : TRUE] - table[CHOOSE x \in T : TRUE].attempts)
                  + g[T \ {CHOOSE x \in T : TRUE}]
           Over(g, T) == IF T = {} THEN 0
             ELSE Gap[CHOOSE x \in T : TRUE] + g[T \ {CHOOSE x \in T : TRUE}]
           g == CHOOSE g : g = [T \in SUBSET Events |-> Body(g, T)]
<1>1. IsFiniteSet(Events)
  BY OutboxAssumption
<1>2. \A k : IsSum(k, Gap, Events) <=> k = [T \in SUBSET Events |-> Body(k, T)]
  <2>1. ASSUME NEW k, NEW T \in SUBSET Events PROVE Body(k, T) = Over(k, T)
    <3>1. T # {} => (CHOOSE x \in T : TRUE) \in Events
      OBVIOUS
    <3>2. QED
      BY <3>1 DEF Gap
  <2>2. \A k : IsSum(k, Gap, Events) <=> k = [T \in SUBSET Events |-> Over(k, T)]
    BY DEF IsSum
  <2> HIDE DEF Body, Over
  <2>3. ASSUME NEW k
        PROVE  [T \in SUBSET Events |-> Over(k, T)] = [T \in SUBSET Events |-> Body(k, T)]
    BY <2>1
  <2>4. QED
    BY <2>2, <2>3
<1>3. IsSum(g, Gap, Events)
  <2>1. \E k : IsSum(k, Gap, Events)
    BY <1>1, SumExists
  <2> HIDE DEF Body
  <2>2. QED
    BY <1>2, <2>1
<1>4. Unrecorded = g[Events]
  BY DEF Unrecorded, MapThenSumSet, MapThenFoldSet
<1>5. QED
  <2> HIDE DEF g
  <2> QED BY <1>1, <1>3, <1>4, SumIsTotal

\* There is one publisher at most, and the table counts the attempts as its run
\* has loaded them, until it records one.
Alone == \A p, q \in Publishers : p = q
Loaded ==
  \A p \in Publishers : pc[p] # "idle" =>
    \A e \in run[p].left : run[p].attempts[e] = table[e].attempts

\* The attempts in flight: none or one.
InFlight == Cardinality({p \in Publishers : pc[p] = "record"})

\* The inductive invariant for one publisher.
OneInv == /\ Alone /\ IInv /\ Loaded
          /\ posts \in [Events -> Nat]
          /\ Total(Gap, Events) <= crashes + InFlight

\* With one publisher its place tells what is in flight.
LEMMA OneOrNone ==
  ASSUME Alone, NEW S \in SUBSET Publishers
  PROVE  /\ Cardinality(S) \in {0, 1}
         /\ \A p \in Publishers : Cardinality(S) = IF p \in S THEN 1 ELSE 0
<1>1. ASSUME NEW p \in Publishers PROVE Cardinality(S) = IF p \in S THEN 1 ELSE 0
  <2>1. S = IF p \in S THEN {p} ELSE {}
    BY DEF Alone
  <2>2. Cardinality({p}) = 1 /\ Cardinality({}) = 0
    BY FS_Singleton, FS_EmptySet
  <2>3. QED
    BY <2>1, <2>2
<1>2. CASE Publishers = {}
  BY <1>2, FS_EmptySet
<1>3. CASE Publishers # {}
  BY <1>1, <1>3
<1>4. QED
  BY <1>1, <1>2, <1>3

LEMMA InFlightTold ==
  ASSUME Alone
  PROVE  /\ InFlight \in {0, 1} /\ InFlight' \in {0, 1}
         /\ \A p \in Publishers : /\ InFlight = IF pc[p] = "record" THEN 1 ELSE 0
                                  /\ InFlight' = IF pc'[p] = "record" THEN 1 ELSE 0
<1>1. /\ {q \in Publishers : pc[q] = "record"} \in SUBSET Publishers
      /\ {q \in Publishers : pc'[q] = "record"} \in SUBSET Publishers
  OBVIOUS
<1>2. /\ InFlight \in {0, 1}
      /\ \A p \in Publishers : InFlight = IF pc[p] = "record" THEN 1 ELSE 0
  BY <1>1, OneOrNone DEF InFlight
<1>3. /\ InFlight' \in {0, 1}
      /\ \A p \in Publishers : InFlight' = IF pc'[p] = "record" THEN 1 ELSE 0
  BY <1>1, OneOrNone DEF InFlight
<1>4. QED
  BY <1>2, <1>3

\* The gaps are numbers.
LEMMA GapType ==
  ASSUME IInv, posts \in [Events -> Nat]
  PROVE  /\ IsFiniteSet(Events) /\ \A e \in Events : Gap[e] \in Int
         /\ Total(Gap, Events) \in Int
<1>1. IsFiniteSet(Events) /\ MaxAttempts \in Nat
  BY OutboxAssumption
<1>2. \A e \in Events : table[e].attempts \in 0..MaxAttempts
  BY DEF IInv, Types, TypeOK
<1>3. \A e \in Events : Gap[e] \in Int
  BY <1>1, <1>2 DEF Gap
<1>4. QED
  BY <1>1, <1>3, TotalType

\* Before anything is written nothing is missing.
LEMMA InitOneInv == Alone /\ Init => OneInv
<1> SUFFICES ASSUME Alone, Init PROVE OneInv
  OBVIOUS
<1>1. IInv /\ Loaded /\ posts \in [Events -> Nat]
  BY InitIInv DEF Init, Loaded
<1>2. crashes = 0 /\ InFlight \in {0, 1}
  BY InFlightTold DEF Init
<1>3. \A e \in Events : Gap[e] = 0
  BY DEF Init, Gap
<1>4. Total(Gap, Events) = 0
  <2> DEFINE zero == [e \in Events |-> 0]
  <2>1. Gap = zero
    BY <1>3 DEF Gap
  <2>2. IsFiniteSet(Events)
    BY OutboxAssumption
  <2>3. IsSum([T \in SUBSET Events |-> 0], zero, Events)
    <3>1. ASSUME NEW T \in SUBSET Events
          PROVE  0 = IF T = {} THEN 0
                     ELSE zero[CHOOSE x \in T : TRUE]
                          + [U \in SUBSET Events |-> 0][T \ {CHOOSE x \in T : TRUE}]
      <4>1. T # {} => (CHOOSE x \in T : TRUE) \in Events
        OBVIOUS
      <4>2. QED
        BY <4>1
    <3>2. QED
      BY <3>1 DEF IsSum
  <2>4. QED
    BY <2>1, <2>2, <2>3, SumIsTotal
<1>5. QED
  BY <1>1, <1>2, <1>4 DEF OneInv

\* What a bound does when the total and the bound both move.
LEMMA BoundMoves ==
  ASSUME NEW s \in Int, NEW t \in Int, NEW c \in Int, NEW d \in Int, NEW i \in Int, NEW j \in Int,
         s <= c + i, t - s <= (d + j) - (c + i)
  PROVE  t <= d + j
  OBVIOUS

\* A step that posts nothing, records nothing and puts nothing in flight.
LEMMA GapStays ==
  ASSUME OneInv, IInv', Loaded', posts' = posts,
         \A e \in Events : table'[e].attempts = table[e].attempts,
         crashes' + InFlight' >= crashes + InFlight
  PROVE  OneInv'
<1>1. posts' \in [Events -> Nat] /\ crashes \in Nat /\ crashes' \in Nat
  BY OutboxAssumption DEF OneInv, IInv, Types, TypeOK, Alone
<1>2. InFlight \in {0, 1} /\ InFlight' \in {0, 1}
  BY InFlightTold DEF OneInv
<1>3. Gap' = Gap
  BY DEF Gap
<1>4. Total(Gap, Events) \in Int
  BY GapType DEF OneInv
<1>5. QED
  <2>1. Total(Gap', Events) <= crashes' + InFlight'
    <3>1. /\ Total(Gap, Events) <= crashes + InFlight
          /\ Total(Gap', Events) = Total(Gap, Events)
      BY <1>3 DEF OneInv
    <3>2. /\ crashes \in Int /\ crashes' \in Int /\ InFlight \in Int /\ InFlight' \in Int
      BY <1>1, <1>2
    <3>3. Total(Gap', Events) - Total(Gap, Events) <= (crashes' + InFlight') - (crashes + InFlight)
      BY <1>4, <3>1, <3>2
    <3>4. QED
      BY <1>4, <3>1, <3>2, <3>3, BoundMoves
  <2>2. QED
    BY <1>1, <2>1 DEF OneInv, Alone

\* Every step of a system with one publisher keeps the invariant.
LEMMA NextOneInv == OneInv /\ [Next]_vars => OneInv'
<1> SUFFICES ASSUME OneInv, [Next]_vars PROVE OneInv'
  OBVIOUS
<1> USE OutboxAssumption
<1>0. /\ IInv /\ IInv' /\ Alone /\ Loaded /\ posts \in [Events -> Nat]
      /\ table \in [Events -> [written: BOOLEAN, attempts: 0..MaxAttempts, published: BOOLEAN]]
      /\ pc \in [Publishers -> {"idle", "loop", "record"}]
      /\ run \in [Publishers -> Run] /\ crashes \in Nat
  BY NextIInv DEF OneInv, Alone, IInv, Types, TypeOK
<1>1. /\ InFlight \in {0, 1} /\ InFlight' \in {0, 1}
      /\ \A p \in Publishers : /\ InFlight = IF pc[p] = "record" THEN 1 ELSE 0
                               /\ InFlight' = IF pc'[p] = "record" THEN 1 ELSE 0
  BY <1>0, InFlightTold
<1>2. ASSUME NEW e \in Events, Write(e) PROVE OneInv'
  <2>1. InFlight' = InFlight /\ crashes' = crashes /\ posts' = posts
    BY <1>2 DEF Write, InFlight
  <2>2. \A d \in Events : table'[d].attempts = table[d].attempts
    BY <1>0, <1>2 DEF Write
  <2>3. Loaded'
    BY <1>0, <1>2, <2>2 DEF Write, Loaded, Run
  <2>4. QED
    BY <1>0, <1>1, <2>1, <2>2, <2>3, GapStays
<1>3. ASSUME NEW p \in Publishers, Fetch(p) \/ Skip(p) \/ Finish(p) PROVE OneInv'
  <2>1. UNCHANGED << table, posts, crashes >>
    BY <1>3 DEF Fetch, Skip, Finish
  <2>2. pc[p] # "record" /\ pc'[p] # "record"
    BY <1>0, <1>3 DEF Fetch, Skip, Finish
  <2>3. Loaded'
    <3>1. /\ run'[p].left \subseteq Events
          /\ \A e \in run'[p].left : run'[p].attempts[e] = table[e].attempts
      <4>1. CASE Fetch(p)
        <5>1. /\ run'[p].left = Oldest(Unpublished)
              /\ run'[p].attempts = [e \in Events |-> table[e].attempts]
          BY <1>0, <4>1 DEF Fetch, NoRun
        <5>2. QED
          BY <5>1 DEF Oldest, Unpublished
      <4>2. CASE Skip(p)
        BY <1>0, <4>2 DEF Skip, Loaded, Run
      <4>3. CASE Finish(p)
        BY <1>0, <4>3 DEF Finish, NoRun
      <4>4. QED
        BY <1>3, <4>1, <4>2, <4>3
    <3>2. \A q \in Publishers : q = p
      BY <1>0 DEF Alone
    <3>3. QED
      BY <2>1, <3>1, <3>2 DEF Loaded
  <2>4. InFlight' = InFlight
    BY <1>1, <2>2
  <2>5. crashes' + InFlight' >= crashes + InFlight
    BY <1>0, <1>1, <2>1, <2>4
  <2>6. QED
    BY <1>0, <2>1, <2>3, <2>5, GapStays
<1>4. ASSUME NEW p \in Publishers, Post(p) PROVE OneInv'
  <2>1. PICK e \in run[p].left, ok \in BOOLEAN :
          posts' = [posts EXCEPT ![e] = @ + 1] /\ run' = [run EXCEPT ![p].success = ok]
    BY <1>4 DEF Post
  <2>2. e \in Events
    BY <1>0, <2>1 DEF Run
  <2>3. pc[p] = "loop" /\ pc'[p] = "record" /\ UNCHANGED << table, crashes >>
    BY <1>0, <1>4 DEF Post
  <2>4. posts' \in [Events -> Nat]
    BY <1>0, <2>1, <2>2
  <2>5. Loaded'
    <3>1. run'[p].left = run[p].left /\ run'[p].attempts = run[p].attempts
      BY <1>0, <2>1 DEF Run
    <3>2. \A q \in Publishers : q = p
      BY <1>0 DEF Alone
    <3>3. QED
      BY <1>0, <2>3, <3>1, <3>2 DEF Loaded
  <2>6. /\ Gap'[e] = Gap[e] + 1
        /\ \A d \in Events \ {e} : Gap[d] = Gap'[d]
        /\ \A d \in Events : Gap[d] \in Int /\ Gap'[d] \in Int
    <3>1. /\ posts'[e] = posts[e] + 1 /\ \A d \in Events \ {e} : posts'[d] = posts[d]
          /\ \A d \in Events : posts[d] \in Nat /\ posts'[d] \in Nat
      BY <1>0, <2>1, <2>2, <2>4
    <3>2. \A d \in Events : table[d].attempts \in Int /\ table'[d].attempts = table[d].attempts
      BY <1>0, <2>3
    <3>3. QED
      BY <2>2, <3>1, <3>2 DEF Gap
  <2>7. Total(Gap', Events) = Total(Gap, Events) + (Gap'[e] - Gap[e])
    <3>1. PICK f, h : f = Gap /\ h = Gap'
      OBVIOUS
    <3>2. /\ \A d \in Events : f[d] \in Int /\ h[d] \in Int
          /\ \A d \in Events \ {e} : f[d] = h[d]
      BY <2>6, <3>1
    <3>3. IsFiniteSet(Events)
      OBVIOUS
    <3>4. Total(h, Events) = Total(f, Events) + (h[e] - f[e])
      BY ONLY <2>2, <3>2, <3>3, TotalChange
    <3>5. QED
      BY <3>1, <3>4
  <2>8. Total(Gap, Events) \in Int
    BY <1>0, GapType
  <2>9. Total(Gap', Events) <= crashes' + InFlight'
    <3>1. InFlight = 0 /\ InFlight' = 1 /\ Total(Gap, Events) <= crashes + InFlight
      BY <1>1, <2>3 DEF OneInv
    <3> HIDE DEF Gap, InFlight
    <3>2. /\ crashes \in Int /\ crashes' = crashes
          /\ Gap[e] \in Int /\ Gap'[e] \in Int /\ Total(Gap', Events) \in Int
      <4>1. crashes \in Int /\ crashes' = crashes
        BY <1>0, <2>3
      <4>2. Gap[e] \in Int /\ Gap'[e] \in Int
        BY <2>2, <2>6
      <4>3. PICK total \in Int, from \in Int, to \in Int :
              total = Total(Gap, Events) /\ from = Gap[e] /\ to = Gap'[e]
        BY <2>8, <4>2
      <4>4. Total(Gap', Events) = total + (to - from)
        BY <2>7, <4>3
      <4>5. QED
        BY <4>1, <4>2, <4>4
    <3>3. Total(Gap', Events) - Total(Gap, Events) = 1
      BY <2>6, <2>7, <2>8, <3>2
    <3>4. Total(Gap', Events) - Total(Gap, Events) <= (crashes' + InFlight') - (crashes + InFlight)
      BY <3>1, <3>2, <3>3
    <3>5. QED
      BY <2>8, <3>1, <3>2, <3>4, BoundMoves
  <2>10. QED
    BY <1>0, <2>4, <2>5, <2>9 DEF OneInv, Alone
<1>5. ASSUME NEW p \in Publishers, Record(p) PROVE OneInv'
  <2>1. PICK e \in run[p].left :
          /\ table' = [table EXCEPT ![e].attempts = run[p].attempts[e] + 1,
                                    ![e].published = @ \/ run[p].success]
          /\ run' = [run EXCEPT ![p].left = @ \ {e}, ![p].success = FALSE]
    BY <1>5 DEF Record
  <2>2. e \in Events /\ run[p].attempts[e] = table[e].attempts
    BY <1>0, <1>5, <2>1 DEF Run, Loaded, Record
  <2>3. pc[p] = "record" /\ pc'[p] = "loop" /\ UNCHANGED << posts, crashes >>
    BY <1>0, <1>5 DEF Record
  <2>4. /\ table'[e].attempts = table[e].attempts + 1
        /\ \A d \in Events \ {e} : table'[d].attempts = table[d].attempts
        /\ \A d \in Events : table[d].attempts \in Int
    BY <1>0, <2>1, <2>2
  <2>5. Loaded'
    <3>1. run'[p].left = run[p].left \ {e} /\ run'[p].attempts = run[p].attempts
          /\ run[p].left \subseteq Events
      BY <1>0, <2>1 DEF Run
    <3>2. \A q \in Publishers : q = p
      BY <1>0 DEF Alone
    <3>3. \A d \in run[p].left : run[p].attempts[d] = table[d].attempts
      BY <1>0, <2>3 DEF Loaded
    <3>4. QED
      BY <2>4, <3>1, <3>2, <3>3 DEF Loaded
  <2>6. /\ Gap'[e] = Gap[e] - 1
        /\ \A d \in Events \ {e} : Gap[d] = Gap'[d]
        /\ \A d \in Events : Gap[d] \in Int /\ Gap'[d] \in Int
    <3>1. \A d \in Events : posts[d] \in Int /\ posts'[d] = posts[d]
      BY <1>0, <2>3
    <3>2. \A d \in Events : table'[d].attempts \in Int
      BY <2>2, <2>4
    <3>3. \A d \in Events : /\ Gap[d] = posts[d] - table[d].attempts
                            /\ Gap'[d] = posts[d] - table'[d].attempts
      BY <3>1 DEF Gap
    <3>4. posts[e] - (table[e].attempts + 1) = (posts[e] - table[e].attempts) - 1
      <4>1. PICK x \in Int, y \in Int : x = posts[e] /\ y = table[e].attempts
        BY <2>2, <2>4, <3>1
      <4>2. x - (y + 1) = (x - y) - 1
        OBVIOUS
      <4>3. QED
        BY <4>1, <4>2
    <3>5. Gap'[e] = Gap[e] - 1
      BY <2>2, <2>4, <3>3, <3>4
    <3>6. \A d \in Events \ {e} : Gap[d] = Gap'[d]
      BY <2>4, <3>3
    <3>7. \A d \in Events : Gap[d] \in Int /\ Gap'[d] \in Int
      <4> HIDE DEF Gap
      <4> QED BY <2>4, <3>1, <3>2, <3>3
    <3>8. QED
      BY <3>5, <3>6, <3>7
  <2>7. Total(Gap', Events) = Total(Gap, Events) + (Gap'[e] - Gap[e])
    <3>1. PICK f, h : f = Gap /\ h = Gap'
      OBVIOUS
    <3>2. /\ \A d \in Events : f[d] \in Int /\ h[d] \in Int
          /\ \A d \in Events \ {e} : f[d] = h[d]
      BY <2>6, <3>1
    <3>3. IsFiniteSet(Events)
      OBVIOUS
    <3>4. Total(h, Events) = Total(f, Events) + (h[e] - f[e])
      BY ONLY <2>2, <3>2, <3>3, TotalChange
    <3>5. QED
      BY <3>1, <3>4
  <2>8. Total(Gap, Events) \in Int
    BY <1>0, GapType
  <2>9. Total(Gap', Events) <= crashes' + InFlight'
    <3>1. InFlight = 1 /\ InFlight' = 0 /\ Total(Gap, Events) <= crashes + InFlight
      BY <1>1, <2>3 DEF OneInv
    <3> HIDE DEF Gap, InFlight
    <3>2. /\ crashes \in Int /\ crashes' = crashes
          /\ Gap[e] \in Int /\ Gap'[e] \in Int /\ Total(Gap', Events) \in Int
      <4>1. crashes \in Int /\ crashes' = crashes
        BY <1>0, <2>3
      <4>2. Gap[e] \in Int /\ Gap'[e] \in Int
        BY <2>2, <2>6
      <4>3. PICK total \in Int, from \in Int, to \in Int :
              total = Total(Gap, Events) /\ from = Gap[e] /\ to = Gap'[e]
        BY <2>8, <4>2
      <4>4. Total(Gap', Events) = total + (to - from)
        BY <2>7, <4>3
      <4>5. QED
        BY <4>1, <4>2, <4>4
    <3>3. Total(Gap', Events) - Total(Gap, Events) = -1
      BY <2>6, <2>7, <2>8, <3>2
    <3>4. Total(Gap', Events) - Total(Gap, Events) <= (crashes' + InFlight') - (crashes + InFlight)
      BY <3>1, <3>2, <3>3
    <3>5. QED
      BY <2>8, <3>1, <3>2, <3>4, BoundMoves
  <2>10. QED
    BY <1>0, <2>3, <2>5, <2>9 DEF OneInv, Alone
<1>6. ASSUME NEW p \in Publishers, Crash(p) PROVE OneInv'
  <2>1. /\ UNCHANGED << table, posts >> /\ crashes' = crashes + 1
        /\ pc'[p] = "idle"
    BY <1>0, <1>6 DEF Crash
  <2>2. Loaded'
    <3>1. \A q \in Publishers : q = p
      BY <1>0 DEF Alone
    <3>2. QED
      BY <2>1, <3>1 DEF Loaded
  <2>3. crashes' + InFlight' >= crashes + InFlight
    <3>1. PICK n \in Int : n = crashes /\ crashes' = n + 1
      BY <1>0, <2>1
    <3>2. PICK i \in {0, 1}, k \in {0, 1} : i = InFlight /\ k = InFlight'
      BY <1>1
    <3> HIDE DEF InFlight
    <3>3. i <= 1 /\ 0 <= k /\ i \in Int /\ k \in Int
      OBVIOUS
    <3>4. (n + 1) + k >= n + i
      BY ONLY <3>3
    <3>5. QED
      BY <3>1, <3>2, <3>4, Zenon
  <2>4. QED
    BY <1>0, <2>1, <2>2, <2>3, GapStays
<1>7. CASE Tick
  <2>1. UNCHANGED << table, pc, posts, crashes >>
    BY <1>7 DEF Tick
  <2>2. \A p \in Publishers : run'[p].left = run[p].left /\ run'[p].attempts = run[p].attempts
    BY <1>0, <1>7 DEF Tick, Run
  <2>3. Loaded' /\ InFlight' = InFlight
    BY <1>0, <2>1, <2>2 DEF Loaded, InFlight
  <2>4. QED
    BY <1>0, <1>1, <2>1, <2>3, GapStays
<1>8. CASE UNCHANGED vars
  BY <1>0, <1>1, <1>8, GapStays DEF vars, Loaded, InFlight
<1>9. QED
  BY <1>2, <1>3, <1>4, <1>5, <1>6, <1>7, <1>8 DEF Next, Work

\* With a single publisher a crash costs the table the count of one attempt at
\* most, whatever n8n answers and however many events a batch holds
\* (services/outbox.py commits event by event).
THEOREM CrashCostsOneAttempt == Alone /\ Spec => []CrashLosesOneAttempt
<1>1. OneInv => CrashLosesOneAttempt
  BY GapType, UnrecordedIsTotal DEF OneInv, CrashLosesOneAttempt, InFlight
<1>2. QED
  BY InitOneInv, NextOneInv, <1>1, PTL DEF Spec
=============================================================================
