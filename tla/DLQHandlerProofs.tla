-------------------------- MODULE DLQHandlerProofs --------------------------
(***************************************************************************)
(* Safety of the dead-letter queue, for any number of events and workers,  *)
(* any limits, any delays and any history of crashes: of DLQHandler, whose *)
(* operations are single steps, and then of DLQBackend, whose operations   *)
(* are several statements.                                                 *)
(***************************************************************************)
EXTENDS DLQBackend, FiniteSetTheorems, TLAPS

\* A delay drawn by FullJitterBackoff is never negative.
LEMMA BackoffType ==
  ASSUME NEW attempt, NEW delay \in FullJitterBackoff(attempt)
  PROVE  delay \in Nat
BY DEF FullJitterBackoff

\* MarkRetried rewrites a record into a record, keeping its creation time.
LEMMA AfterRetryType ==
  ASSUME NEW rec \in DLQEvent, NEW success \in BOOLEAN, NEW count \in Nat,
         NEW at \in Nat
  PROVE  AfterRetry(rec, success, count, at) \in DLQEvent
BY Zenon DEF AfterRetry, DLQEvent, Statuses

\* Every operation of the handler keeps the types.
LEMMA TypeStep == TypeOK /\ [Next]_dlqVars => TypeOK'
<1> USE DLQAssumption
<1> SUFFICES ASSUME TypeOK, [Next]_dlqVars
             PROVE  TypeOK'
  BY Zenon
<1>1. ASSUME NEW e \in Events, NEW at \in 0 .. now, RecordFailure(e, at)
      PROVE  TypeOK'
  <2>1. [status |-> "pending", retryCount |-> 0,
         nextRetryAt |-> at + RetryDelay, createdAt |-> at] \in DLQEvent
    BY DEF DLQEvent, Statuses, TypeOK
  <2>2. QED
    BY Zenon, <1>1, <2>1 DEF RecordFailure, TypeOK
<1>2. ASSUME NEW e \in Events, AppendFailure(e)
      PROVE  TypeOK'
  BY Zenon, <1>2 DEF AppendFailure, TypeOK, dlqVars
<1>3. ASSUME NEW w \in Workers, NEW limit, NEW asOf,
             ClaimRetryableEvents(w, limit, asOf)
      PROVE  TypeOK'
  <2>1. PICK b \in Batches(Candidates(asOf), limit) :
          /\ Claimed(b)
          /\ held' = [held EXCEPT ![w] = @ \cup b]
          /\ now' = now
    BY Zenon, <1>3 DEF ClaimRetryableEvents
  <2>2. b \subseteq Events
    BY Zenon, <2>1 DEF Batches, Candidates
  <2>3. events' \in [Events -> DLQEvent]
    BY <2>1 DEF Claimed, TypeOK, DLQEvent, Statuses
  <2>4. claims' \in [Events -> Nat]
    BY <2>1 DEF Claimed, TypeOK
  <2>5. QED
    BY Zenon, <2>1, <2>2, <2>3, <2>4 DEF TypeOK
<1>4. ASSUME NEW w \in Workers, NEW e \in Events, NEW success \in BOOLEAN,
             MarkRetried(w, e, success)
      PROVE  TypeOK'
  <2>1. events' \in [Events -> DLQEvent]
    <3>1. CASE RecordRetry(e, success)
      <4>1. PICK at \in 0 .. now,
                 delay \in FullJitterBackoff(events[e].retryCount + 1) :
              events' = [events EXCEPT ![e] =
                AfterRetry(@, success, @.retryCount + 1, at + delay)]
        BY Zenon, <3>1 DEF RecordRetry
      <4>2. /\ events[e] \in DLQEvent
            /\ events[e].retryCount + 1 \in Nat
        BY DEF TypeOK, DLQEvent
      <4>3. at + delay \in Nat
        BY BackoffType DEF TypeOK
      <4>4. QED
        BY Zenon, <4>1, <4>2, <4>3, AfterRetryType DEF TypeOK
    <3>2. CASE RefuseRetry(e)
      BY Zenon, <3>2 DEF RefuseRetry, TypeOK
    <3>3. QED
      BY Zenon, <1>4, <3>1, <3>2 DEF MarkRetried
  <2>2. QED
    BY Zenon, <1>4, <2>1 DEF MarkRetried, TypeOK
<1>5. ASSUME NEW maxAge, NEW at, PurgeExpiredEvents(maxAge, at)
      PROVE  TypeOK'
  <2>1. NoRecord \in DLQEvent
    BY Zenon DEF NoRecord, DLQEvent, Statuses
  <2>2. QED
    BY Zenon, <1>5, <2>1 DEF PurgeExpiredEvents, TypeOK
<1>6. ASSUME NEW w \in Workers, WorkerCrash(w)
      PROVE  TypeOK'
  BY Zenon, <1>6 DEF WorkerCrash, TypeOK
<1>7. CASE Tick
  BY <1>7 DEF Tick, TypeOK
<1>8. CASE UNCHANGED dlqVars
  BY Zenon, <1>8 DEF dlqVars, TypeOK
<1>9. QED
  BY Zenon, <1>1, <1>2, <1>3, <1>4, <1>5, <1>6, <1>7, <1>8
  DEF Next, PublishToDLQ, Claim, Mark, Purge

(***************************************************************************)
(* Type correctness of every operation of the handler.                     *)
(***************************************************************************)
THEOREM TypeCorrect == Spec => []TypeOK
<1>1. Init => TypeOK
  BY DLQAssumption DEF Init, TypeOK, NoRecord, DLQEvent, Statuses
<1>2. QED
  BY <1>1, TypeStep, PTL DEF Spec

(***************************************************************************)
(* RetryCount is exact in every record of the handler, whatever crashes    *)
(* and purges happen: claims hand an event out once per counted retry, and *)
(* MarkRetried gives it up after MaxRetries of them and not before.        *)
(***************************************************************************)
THEOREM RetryAccountingHolds == Spec => []RetryAccounting
<1> USE DLQAssumption
<1>1. Init => RetryAccounting
  BY DEF Init, RetryAccounting, NoRecord
<1>2. TypeOK /\ RetryAccounting /\ [Next]_dlqVars => RetryAccounting'
  <2> SUFFICES ASSUME TypeOK, RetryAccounting, [Next]_dlqVars
               PROVE  RetryAccounting'
    BY Zenon
  <2>1. ASSUME NEW e \in Events, NEW at \in 0 .. now, RecordFailure(e, at)
        PROVE  RetryAccounting'
    BY <2>1 DEF RecordFailure, RetryAccounting, TypeOK
  <2>2. ASSUME NEW e \in Events, AppendFailure(e)
        PROVE  RetryAccounting'
    BY Zenon, <2>2 DEF AppendFailure, RetryAccounting, dlqVars
  <2>3. ASSUME NEW w \in Workers, NEW limit, NEW asOf,
               ClaimRetryableEvents(w, limit, asOf)
        PROVE  RetryAccounting'
    <3>1. PICK b \in Batches(Candidates(asOf), limit) : Claimed(b)
      BY Zenon, <2>3 DEF ClaimRetryableEvents
    <3>2. \A e \in b : events[e].status = "pending"
      BY Zenon, <3>1 DEF Batches, Candidates
    <3>3. QED
      BY <3>1, <3>2 DEF Claimed, RetryAccounting, TypeOK, DLQEvent
  <2>4. ASSUME NEW w \in Workers, NEW e \in Events, NEW success \in BOOLEAN,
               MarkRetried(w, e, success)
        PROVE  RetryAccounting'
    <3>1. CASE RecordRetry(e, success)
      <4>1. PICK at \in 0 .. now,
                 delay \in FullJitterBackoff(events[e].retryCount + 1) :
              events' = [events EXCEPT ![e] =
                AfterRetry(@, success, @.retryCount + 1, at + delay)]
        BY Zenon, <3>1 DEF RecordRetry
      <4>2. /\ events[e].status = "retrying"
            /\ claims' = claims
        BY Zenon, <2>4, <3>1 DEF RecordRetry, MarkRetried
      <4>3. events[e] \in DLQEvent /\ claims[e] \in Nat
        BY Zenon DEF TypeOK
      <4>4. /\ events'[e].retryCount = claims[e]
            /\ events'[e].retryCount <= MaxRetries
            /\ events'[e].status \in {"pending", "exhausted", "resolved"}
            /\ events'[e].status = "pending" => claims[e] < MaxRetries
            /\ events'[e].status = "exhausted" => claims[e] >= MaxRetries
        BY <4>1, <4>2, <4>3 DEF AfterRetry, DLQEvent, TypeOK, RetryAccounting
      <4>5. \A f \in Events \ {e} : events'[f] = events[f]
        BY Zenon, <4>1 DEF TypeOK
      <4>6. QED
        BY <4>2, <4>3, <4>4, <4>5 DEF RetryAccounting
    <3>2. CASE RefuseRetry(e)
      BY Zenon, <2>4, <3>2 DEF RefuseRetry, MarkRetried, RetryAccounting
    <3>3. QED
      BY Zenon, <2>4, <3>1, <3>2 DEF MarkRetried
  <2>5. ASSUME NEW maxAge, NEW at, PurgeExpiredEvents(maxAge, at)
        PROVE  RetryAccounting'
    BY <2>5 DEF PurgeExpiredEvents, RetryAccounting, NoRecord, TypeOK
  <2>6. ASSUME NEW w \in Workers, WorkerCrash(w)
        PROVE  RetryAccounting'
    BY Zenon, <2>6 DEF WorkerCrash, RetryAccounting
  <2>7. CASE Tick
    BY Zenon, <2>7 DEF Tick, RetryAccounting
  <2>8. CASE UNCHANGED dlqVars
    BY Zenon, <2>8 DEF dlqVars, RetryAccounting
  <2>9. QED
    BY Zenon, <2>1, <2>2, <2>3, <2>4, <2>5, <2>6, <2>7, <2>8
    DEF Next, PublishToDLQ, Claim, Mark, Purge
<1>3. QED
  BY <1>1, <1>2, TypeCorrect, PTL DEF Spec

(***************************************************************************)
(* ClaimRetryableEvents keeps its promise of a single claimant as long as  *)
(* PurgeExpiredEvents is called with ages no record reaches: a record that *)
(* is purged while claimed can be published and claimed anew.              *)
(***************************************************************************)
THEOREM ClaimExclusiveHolds ==
  ASSUME \A maxAge \in PurgeAges : MaxTime <= maxAge
  PROVE  Spec => []ClaimExclusive
<1> USE DLQAssumption
<1>1. Init => ClaimExclusive
  BY Zenon DEF Init, ClaimExclusive
<1>2. TypeOK /\ ClaimExclusive /\ [Next]_dlqVars => ClaimExclusive'
  <2> SUFFICES ASSUME TypeOK, ClaimExclusive, [Next]_dlqVars
               PROVE  ClaimExclusive'
    BY Zenon
  <2>1. ASSUME NEW e \in Events, NEW at \in 0 .. now, RecordFailure(e, at)
        PROVE  ClaimExclusive'
    BY Zenon, <2>1 DEF RecordFailure, ClaimExclusive, TypeOK
  <2>2. ASSUME NEW e \in Events, AppendFailure(e)
        PROVE  ClaimExclusive'
    BY Zenon, <2>2 DEF AppendFailure, ClaimExclusive, dlqVars
  <2>3. ASSUME NEW w \in Workers, NEW limit, NEW asOf,
               ClaimRetryableEvents(w, limit, asOf)
        PROVE  ClaimExclusive'
    <3>1. PICK b \in Batches(Candidates(asOf), limit) :
            /\ Claimed(b)
            /\ held' = [held EXCEPT ![w] = @ \cup b]
      BY Zenon, <2>3 DEF ClaimRetryableEvents
    <3>2. b \subseteq Events /\ \A e \in b : events[e].status = "pending"
      BY Zenon, <3>1 DEF Batches, Candidates
    <3>3. \A e \in b : \A v \in Workers : e \notin held[v]
      BY Zenon, <3>2 DEF ClaimExclusive
    <3>4. /\ \A e \in b : events'[e].status = "retrying"
          /\ \A e \in Events \ b : events'[e] = events[e]
      BY Zenon, <3>1, <3>2 DEF Claimed, TypeOK, DLQEvent
    <3>5. /\ held'[w] = held[w] \cup b
          /\ \A v \in Workers \ {w} : held'[v] = held[v]
      BY Zenon, <3>1 DEF TypeOK
    <3>6. QED
      BY <3>2, <3>3, <3>4, <3>5 DEF ClaimExclusive, TypeOK
  <2>4. ASSUME NEW w \in Workers, NEW e \in Events, NEW success \in BOOLEAN,
               MarkRetried(w, e, success)
        PROVE  ClaimExclusive'
    <3>1. /\ e \in held[w]
          /\ held'[w] = held[w] \ {e}
          /\ \A v \in Workers \ {w} : held'[v] = held[v]
      BY Zenon, <2>4 DEF MarkRetried, TypeOK
    <3>2. \A f \in Events \ {e} : events'[f] = events[f]
      BY Zenon, <2>4 DEF MarkRetried, RecordRetry, RefuseRetry, TypeOK
    <3>3. \A v \in Workers : e \notin held'[v]
      BY Zenon, <3>1 DEF ClaimExclusive
    <3>4. QED
      BY <3>1, <3>2, <3>3 DEF ClaimExclusive, TypeOK
  <2>5. ASSUME NEW maxAge \in PurgeAges, NEW at \in 0 .. now,
               PurgeExpiredEvents(maxAge, at)
        PROVE  ClaimExclusive'
    <3>1. \A e \in Events : ~(events[e].createdAt < at - maxAge)
      <4>1. at <= maxAge
        BY DEF TypeOK
      <4>2. \A e \in Events : events[e].createdAt \in Nat
        BY Zenon DEF TypeOK, DLQEvent
      <4>3. QED
        BY <4>1, <4>2
    <3>2. \A e \in Events : events[e].status = "retrying" =>
            events'[e] = events[e]
      BY Zenon, <2>5, <3>1 DEF PurgeExpiredEvents, Terminal, TypeOK
    <3>3. held' = held
      BY Zenon, <2>5 DEF PurgeExpiredEvents
    <3>4. QED
      BY Zenon, <3>2, <3>3 DEF ClaimExclusive, TypeOK
  <2>6. ASSUME NEW w \in Workers, WorkerCrash(w)
        PROVE  ClaimExclusive'
    BY <2>6 DEF WorkerCrash, ClaimExclusive, TypeOK
  <2>7. CASE Tick
    BY Zenon, <2>7 DEF Tick, ClaimExclusive
  <2>8. CASE UNCHANGED dlqVars
    BY Zenon, <2>8 DEF dlqVars, ClaimExclusive
  <2>9. QED
    BY Zenon, <2>1, <2>2, <2>3, <2>4, <2>5, <2>6, <2>7, <2>8
    DEF Next, PublishToDLQ, Claim, Mark, Purge
<1>3. QED
  BY <1>1, <1>2, TypeCorrect, PTL DEF Spec

(***************************************************************************)
(* No operation reopens a resolved or an exhausted record.                 *)
(***************************************************************************)
THEOREM TerminalIsFinalHolds == Spec => TerminalIsFinal
<1>1. TypeOK /\ [Next]_dlqVars =>
        [\A e \in Events :
           events[e].status \in Terminal =>
             events'[e] = events[e] \/ events'[e] = NoRecord]_dlqVars
  <2> SUFFICES ASSUME TypeOK, Next, NEW e \in Events,
                      events[e].status \in Terminal
               PROVE  events'[e] = events[e] \/ events'[e] = NoRecord
    BY Zenon
  <2>1. ASSUME NEW f \in Events, PublishToDLQ(f)
        PROVE  events'[e] = events[e]
    BY Zenon, <2>1 DEF PublishToDLQ, RecordFailure, AppendFailure, Terminal,
       TypeOK,
                dlqVars
  <2>2. ASSUME NEW w \in Workers, Claim(w)
        PROVE  events'[e] = events[e]
    BY <2>2 DEF Claim, ClaimRetryableEvents, Claimed, Batches, Candidates,
                Terminal
  <2>3. ASSUME NEW w \in Workers, NEW f \in Events, Mark(w, f)
        PROVE  events'[e] = events[e]
    BY Zenon, <2>3 DEF Mark, MarkRetried, RecordRetry, RefuseRetry, Terminal,
       TypeOK
  <2>4. CASE Purge
    BY Zenon, <2>4 DEF Purge, PurgeExpiredEvents
  <2>5. CASE Tick \/ \E w \in Workers : WorkerCrash(w)
    BY Zenon, <2>5 DEF Tick, WorkerCrash
  <2>6. QED
    BY Zenon, <2>1, <2>2, <2>3, <2>4, <2>5 DEF Next
<1>2. QED
  BY <1>1, TypeCorrect, PTL DEF Spec, TerminalIsFinal

\* What a claim does to the records.
LEMMA ClaimedEffect ==
  ASSUME TypeOK, NEW asOf, NEW limit,
         NEW b \in Batches(Candidates(asOf), limit), Claimed(b)
  PROVE  /\ b \subseteq Events
         /\ events' \in [Events -> DLQEvent]
         /\ claims' \in [Events -> Nat]
         /\ \A e \in b : /\ events[e].status = "pending"
                         /\ events'[e].status = "retrying"
                         /\ events'[e].retryCount = events[e].retryCount
                         /\ claims'[e] = claims[e] + 1
         /\ \A e \in Events \ b : events'[e] = events[e] /\ claims'[e] = claims[e]
<1>1. b \subseteq Events /\ \A e \in b : events[e].status = "pending"
  BY Zenon DEF Batches, Candidates
<1>2. events' \in [Events -> DLQEvent]
  BY DEF Claimed, TypeOK, DLQEvent, Statuses
<1>3. claims' \in [Events -> Nat]
  BY DEF Claimed, TypeOK
<1>4. QED
  BY Zenon, <1>1, <1>2, <1>3 DEF Claimed, TypeOK, DLQEvent

\* Every record in "retrying" is in the hands of a worker.
NothingStranded == \A e \in Events : ~Stranded(e)

\* Records change and workers let go: if a worker lets go only of what is not,
\* or no longer, "retrying", and what becomes "retrying" is in a worker's
\* hands, then nothing is stranded.
LEMMA HandsKeepRecords ==
  ASSUME NothingStranded,
         \A e \in Events : events'[e].status = "retrying" =>
           \/ \E w \in Workers : e \in held'[w]
           \/ /\ events[e].status = "retrying"
              /\ \A w \in Workers : e \in held[w] => e \in held'[w]
  PROVE  NothingStranded'
BY Zenon DEF NothingStranded, Stranded

(***************************************************************************)
(* A record is stranded in "retrying", where no later claim finds it, only *)
(* by the crash of a worker: purging claimed records, publishing them anew *)
(* and reporting on an event that another worker has claimed since do not  *)
(* strand one.                                                             *)
(***************************************************************************)
THEOREM NothingStrandedHolds ==
  ASSUME ~Crashes
  PROVE  Spec => []NothingStranded
<1> USE DLQAssumption
<1>1. Init => NothingStranded
  BY DEF Init, NothingStranded, Stranded, NoRecord
<1>2. TypeOK /\ NothingStranded /\ [Next]_dlqVars => NothingStranded'
  <2> SUFFICES ASSUME TypeOK, NothingStranded, [Next]_dlqVars
               PROVE  NothingStranded'
    BY Zenon
  <2>1. ASSUME NEW e \in Events, PublishToDLQ(e)
        PROVE  NothingStranded'
    <3>1. /\ held' = held
          /\ \A f \in Events : events'[f].status = "retrying" =>
               events[f].status = "retrying"
      BY <2>1 DEF PublishToDLQ, RecordFailure, AppendFailure, dlqVars, TypeOK
    <3>2. QED
      BY Zenon, <3>1, HandsKeepRecords
  <2>2. ASSUME NEW w \in Workers, NEW limit, NEW asOf,
               ClaimRetryableEvents(w, limit, asOf)
        PROVE  NothingStranded'
    <3>1. PICK b \in Batches(Candidates(asOf), limit) :
            /\ Claimed(b)
            /\ held' = [held EXCEPT ![w] = @ \cup b]
      BY Zenon, <2>2 DEF ClaimRetryableEvents
    <3>2. \A e \in Events \ b : events'[e] = events[e]
      BY <3>1, ClaimedEffect
    <3>3. /\ b \subseteq held'[w]
          /\ \A v \in Workers : held[v] \subseteq held'[v]
      BY Zenon, <3>1 DEF TypeOK
    <3>4. QED
      BY Zenon, <3>2, <3>3, HandsKeepRecords
  <2>3. ASSUME NEW w \in Workers, NEW e \in Events, NEW success \in BOOLEAN,
               MarkRetried(w, e, success)
        PROVE  NothingStranded'
    <3>1. \A v \in Workers : held[v] \ {e} \subseteq held'[v]
      BY Zenon, <2>3 DEF MarkRetried, TypeOK
    <3>2. \A f \in Events \ {e} : events'[f] = events[f]
      BY Zenon, <2>3 DEF MarkRetried, RecordRetry, RefuseRetry, TypeOK
    <3>3. events'[e].status # "retrying"
      <4>1. CASE RefuseRetry(e)
        BY Zenon, <4>1 DEF RefuseRetry
      <4>2. CASE RecordRetry(e, success)
        BY <4>2 DEF RecordRetry, AfterRetry, TypeOK, DLQEvent
      <4>3. QED
        BY Zenon, <2>3, <4>1, <4>2 DEF MarkRetried
    <3>4. QED
      BY Zenon, <3>1, <3>2, <3>3, HandsKeepRecords
  <2>4. CASE Purge
    <3>1. /\ held' = held
          /\ \A e \in Events : events'[e].status = "retrying" =>
               events[e].status = "retrying"
      BY <2>4 DEF Purge, PurgeExpiredEvents, NoRecord
    <3>2. QED
      BY Zenon, <3>1, HandsKeepRecords
  <2>5. ASSUME NEW w \in Workers, WorkerCrash(w)
        PROVE  FALSE
    BY Zenon, <2>5 DEF WorkerCrash
  <2>6. CASE Tick \/ UNCHANGED dlqVars
    BY Zenon, <2>6 DEF Tick, dlqVars, NothingStranded, Stranded
  <2>7. QED
    BY Zenon, <2>1, <2>2, <2>3, <2>4, <2>5, <2>6 DEF Next, Claim, Mark
<1>3. QED
  BY <1>1, <1>2, TypeCorrect, PTL DEF Spec

-----------------------------------------------------------------------------
(* The database backends.  BackendInv is inductive for SpecBackend.         *)

ClaimCall == [left : Nat \ {0}, asOf : Nat]
MarkCall == [event : Events, success : BOOLEAN, at : Nat, retryCount : Nat]

\* A worker inside a Mongo claim is inside nothing else, and claims as of a
\* time that has come.
ClaimingOK ==
  \A w \in Workers :
    claiming[w] # Idle => marking[w] = Idle /\ claiming[w].asOf <= now

\* An event that has not been shared is in one worker's hand at most.
OneHand ==
  \A e \in Events \ shared : \A v, w \in Workers :
    e \in held[v] /\ e \in held[w] => v = w

\* Between the statements of MarkRetried the event is in the worker's hand.
\* Nobody else settles its record, unless the event is shared; and where no
\* statement fails the record is the one that was counted, or is gone.
MarkingOK ==
  \A w \in Workers :
    marking[w] # Idle =>
      LET m == marking[w]
          rec == events[m.event]
      IN  /\ m.event \in held[w]
          /\ m.at <= now
          /\ m.event \notin shared => rec.status \notin Terminal
          /\ /\ ~faulty
             /\ m.event \notin shared /\ m.event \notin stale
             /\ rec.status # "absent"
             => rec.status = "retrying" /\ rec.retryCount = m.retryCount

\* The workers whose finalize may put the event back.
Owing(e) == {w \in Workers : /\ marking[w] # Idle
                             /\ marking[w].event = e
                             /\ marking[w].retryCount < MaxRetries}

\* The attempts made, and those that finalizes under way may lead to, are
\* covered by the count: each was paid for by an increment below MaxRetries,
\* but the one that the record started with.
Covered(status, attempts, count) ==
  LET paid == IF count < MaxRetries THEN count ELSE MaxRetries - 1
  IN  status # "absent" =>
        /\ attempts <= paid + 1
        /\ status = "pending" => attempts <= paid

AttemptsCovered ==
  \A e \in Events \ stale :
    Covered(events[e].status, claims[e] + Cardinality(Owing(e)),
            events[e].retryCount)

BackendInv ==
  /\ TypeOKBackend
  /\ ClaimingOK
  /\ OneHand
  /\ MarkingOK
  /\ AttemptsCovered

\* The argument of a call under way is not the mark of an idle worker.
LEMMA CallsNotIdle ==
  /\ \A c \in ClaimCall : c # Idle
  /\ \A m \in MarkCall : m # Idle
<1>1. \A c \in ClaimCall : "left" \in DOMAIN c
  BY Zenon DEF ClaimCall
<1>2. \A m \in MarkCall : "event" \in DOMAIN m
  BY Zenon DEF MarkCall
<1>3. "left" \notin DOMAIN Idle /\ "event" \notin DOMAIN Idle
  BY Zenon DEF Idle
<1>4. QED
  BY Zenon, <1>1, <1>2, <1>3

\* What the second statement of MarkRetried does to the records.
LEMMA FinalizedEffect ==
  ASSUME TypeOK, NEW m \in MarkCall, Finalized(m)
  PROVE  /\ events' \in [Events -> DLQEvent]
         /\ \A e \in Events \ {m.event} : events'[e] = events[e]
         /\ events[m.event].status = "absent" => events' = events
         /\ events[m.event].status # "absent" =>
              /\ events'[m.event].status \in {"pending", "exhausted", "resolved"}
              /\ events'[m.event].retryCount = events[m.event].retryCount
              /\ events'[m.event].status = "pending" => m.retryCount < MaxRetries
<1> USE DLQAssumption
<1>1. CASE events[m.event].status = "absent"
  BY Zenon, <1>1 DEF Finalized, TypeOK
<1>2. CASE events[m.event].status # "absent"
  <2>1. PICK delay \in FullJitterBackoff(m.retryCount) :
          events' = [events EXCEPT ![m.event] =
            [AfterRetry(@, m.success, m.retryCount, m.at + delay)
               EXCEPT !.retryCount = events[m.event].retryCount]]
    BY Zenon, <1>2 DEF Finalized
  <2> DEFINE rec == events[m.event]
             after == AfterRetry(rec, m.success, m.retryCount, m.at + delay)
  <2>2. /\ m.event \in Events /\ m.success \in BOOLEAN
        /\ m.at \in Nat /\ m.retryCount \in Nat
    BY Zenon DEF MarkCall
  <2>3. rec \in DLQEvent
    BY Zenon, <2>2 DEF TypeOK
  <2>4. m.at + delay \in Nat
    BY <2>2, BackoffType
  <2>5. after \in DLQEvent
    BY Zenon, <2>2, <2>3, <2>4, AfterRetryType
  <2>6. /\ after.status \in {"pending", "exhausted", "resolved"}
        /\ after.status = "pending" => m.retryCount < MaxRetries
    BY <2>2, <2>3 DEF AfterRetry, DLQEvent
  <2>7. events'[m.event] = [after EXCEPT !.retryCount = rec.retryCount]
    BY Zenon, <2>1, <2>2 DEF TypeOK
  <2> HIDE DEF after
  <2>8. /\ events'[m.event] \in DLQEvent
        /\ events'[m.event].status = after.status
        /\ events'[m.event].retryCount = rec.retryCount
    BY Zenon, <2>3, <2>5, <2>7 DEF DLQEvent
  <2>9. QED
    BY Zenon, <1>2, <2>1, <2>2, <2>6, <2>8 DEF TypeOK
<1>3. QED
  BY Zenon, <1>1, <1>2

\* How the operations keep the attempts covered.
LEMMA CoveredSteps ==
  ASSUME NEW n \in Nat, NEW count \in Nat, NEW status, NEW after
  PROVE  /\ Covered("pending", 0, 0)
         /\ Covered("pending", n, count) => Covered("retrying", n + 1, count)
         /\ Covered("retrying", n, count) =>
              /\ Covered("retrying", n, count + 1)
              /\ count + 1 < MaxRetries => Covered("retrying", n + 1, count + 1)
         /\ status # "absent" /\ Covered(status, n + 1, count) =>
              Covered(after, n, count)
         /\ Covered(status, n + 1, count) => Covered(status, n, count)
         /\ Covered("absent", n, count)
BY DLQAssumption DEF Covered

\* A record that is not put back needs no attempt more.
LEMMA CoveredSettled ==
  ASSUME NEW n, NEW count, NEW status, NEW after,
         status # "absent", after # "pending", Covered(status, n, count)
  PROVE  Covered(after, n, count)
BY Zenon DEF Covered

\* The finalizes under way are finitely many.
LEMMA OwingFinite ==
  ASSUME NEW e
  PROVE  IsFiniteSet(Owing(e)) /\ Cardinality(Owing(e)) \in Nat
<1>1. Owing(e) \in SUBSET Workers
  BY Zenon DEF Owing
<1>2. IsFiniteSet(Owing(e))
  BY Zenon, <1>1, FS_Subset, BackendAssumption
<1>3. QED
  BY Zenon, <1>2, FS_CardinalityType

\* They stay what they are while no worker begins or ends one.
LEMMA OwingUnchanged ==
  ASSUME NEW e, marking' = marking
  PROVE  Owing(e)' = Owing(e)
BY Zenon DEF Owing

\* A worker that ends one leaves them.
LEMMA OwingLeaves ==
  ASSUME TypeOKBackend, NEW w \in Workers, NEW e,
         marking' = [marking EXCEPT ![w] = Idle]
  PROVE  /\ w \notin Owing(e) => Cardinality(Owing(e)') = Cardinality(Owing(e))
         /\ w \in Owing(e) =>
              Cardinality(Owing(e)) = Cardinality(Owing(e)') + 1
         /\ Cardinality(Owing(e)') \in Nat
<1>1. Owing(e)' = Owing(e) \ {w}
  BY Zenon DEF Owing, TypeOKBackend
<1>2. IsFiniteSet(Owing(e)) /\ Cardinality(Owing(e)) \in Nat
  BY Zenon, OwingFinite
<1>3. /\ IsFiniteSet(Owing(e) \ {w})
      /\ Cardinality(Owing(e) \ {w}) =
           IF w \in Owing(e) THEN Cardinality(Owing(e)) - 1
           ELSE Cardinality(Owing(e))
  BY Zenon, <1>2, FS_RemoveElement
<1>4. Cardinality(Owing(e) \ {w}) \in Nat
  BY Zenon, <1>3, FS_CardinalityType
<1>5. QED
  BY <1>1, <1>2, <1>3, <1>4

\* A worker that begins one with a count below MaxRetries joins them.
LEMMA OwingJoins ==
  ASSUME TypeOKBackend, NEW w \in Workers, NEW e, NEW m \in MarkCall,
         marking[w] = Idle, m # Idle, marking' = [marking EXCEPT ![w] = m]
  PROVE  Cardinality(Owing(e)') =
           IF m.event = e /\ m.retryCount < MaxRetries
           THEN Cardinality(Owing(e)) + 1
           ELSE Cardinality(Owing(e))
<1>1. w \notin Owing(e)
  BY Zenon DEF Owing
<1>2. CASE m.event = e /\ m.retryCount < MaxRetries
  <2>1. Owing(e)' = Owing(e) \cup {w}
    BY Zenon, <1>2 DEF Owing, TypeOKBackend
  <2>2. Cardinality(Owing(e) \cup {w}) = Cardinality(Owing(e)) + 1
    BY Zenon, <1>1, OwingFinite, FS_AddElement
  <2>3. QED
    BY Zenon, <1>2, <2>1, <2>2
<1>3. CASE ~(m.event = e /\ m.retryCount < MaxRetries)
  <2>1. Owing(e)' = Owing(e)
    BY Zenon, <1>3 DEF Owing, TypeOKBackend
  <2>2. QED
    BY Zenon, <1>3, <2>1
<1>4. QED
  BY Zenon, <1>2, <1>3

\* PublishToDLQ's upsert: a new record starts with no attempts; a record
\* there is stays as it is.
LEMMA UpsertStep ==
  ASSUME BackendInv, NEW e \in Events, UpsertDLQEvent(e)
  PROVE  BackendInv'
<1> USE DLQAssumption
<1>1. TypeOK'
  BY Zenon, TypeStep DEF BackendInv, TypeOKBackend, UpsertDLQEvent, Next
<1>2. /\ UNCHANGED <<now, held, backendVars, shared>>
      /\ stale' = IF events[e].status = "absent" /\ Marked(e)
                  THEN stale \cup {e} ELSE stale
  BY Zenon DEF UpsertDLQEvent, PublishToDLQ, RecordFailure, AppendFailure, dlqVars
<1>3. TypeOKBackend' /\ stale \subseteq stale'
  BY Zenon, <1>1, <1>2 DEF BackendInv, TypeOKBackend, backendVars
<1>4. ClaimingOK' /\ OneHand'
  BY Zenon, <1>2 DEF BackendInv, ClaimingOK, OneHand, backendVars
<1>5. \A f : Owing(f)' = Owing(f)
  BY Zenon, <1>2, OwingUnchanged DEF backendVars
<1>6. CASE AppendFailure(e)
  <2>1. UNCHANGED <<events, claims>> /\ stale' = stale
    BY Zenon, <1>2, <1>6 DEF AppendFailure, dlqVars
  <2>2. MarkingOK'
    BY Zenon, <1>2, <2>1 DEF BackendInv, MarkingOK, backendVars
  <2>3. AttemptsCovered'
    BY Zenon, <1>5, <2>1 DEF BackendInv, AttemptsCovered
  <2>4. QED
    BY Zenon, <1>3, <1>4, <2>2, <2>3 DEF BackendInv
<1>7. ASSUME NEW at \in 0 .. now, RecordFailure(e, at)
      PROVE  BackendInv'
  <2>1. /\ events[e].status = "absent"
        /\ events'[e].status = "pending" /\ events'[e].retryCount = 0
        /\ claims'[e] = 0
        /\ \A f \in Events \ {e} : events'[f] = events[f] /\ claims'[f] = claims[f]
    BY Zenon, <1>7 DEF RecordFailure, BackendInv, TypeOKBackend, TypeOK
  <2>2. MarkingOK'
    <3> SUFFICES ASSUME NEW w \in Workers, marking[w] # Idle
                 PROVE  LET m == marking[w]
                            rec == events'[m.event]
                        IN  /\ m.event \in held[w]
                            /\ m.at <= now
                            /\ m.event \notin shared => rec.status \notin Terminal
                            /\ /\ ~faulty
                               /\ m.event \notin shared /\ m.event \notin stale'
                               /\ rec.status # "absent"
                               => /\ rec.status = "retrying"
                                  /\ rec.retryCount = m.retryCount
      BY Zenon, <1>2 DEF MarkingOK, backendVars
    <3>1. marking[w].event \in Events
      BY Zenon DEF BackendInv, TypeOKBackend
    <3>2. CASE marking[w].event = e
      <4>1. e \in stale'
        BY Zenon, <1>2, <2>1, <3>2 DEF Marked
      <4>2. marking[w].event \in held[w] /\ marking[w].at <= now
        BY Zenon DEF BackendInv, MarkingOK
      <4>3. events'[e].status \notin Terminal
        BY Zenon, <2>1 DEF Terminal
      <4>4. QED
        BY Zenon, <3>2, <4>1, <4>2, <4>3
    <3>3. CASE marking[w].event # e
      BY Zenon, <1>3, <2>1, <3>1, <3>3 DEF BackendInv, MarkingOK
    <3>4. QED
      BY Zenon, <3>2, <3>3
  <2>3. AttemptsCovered'
    <3> SUFFICES ASSUME NEW f \in Events, f \notin stale'
                 PROVE  Covered(events'[f].status,
                                claims'[f] + Cardinality(Owing(f)),
                                events'[f].retryCount)
      BY Zenon, <1>5 DEF AttemptsCovered
    <3>1. CASE f = e
      <4>1. Owing(e) = {}
        BY Zenon, <1>2, <2>1, <3>1 DEF Marked, Owing
      <4>2. claims'[e] + Cardinality(Owing(e)) = 0
        <5>1. Cardinality({}) = 0
          BY Zenon, FS_EmptySet
        <5>2. QED
          BY <2>1, <4>1, <5>1
      <4>3. Covered("pending", 0, 0)
        BY CoveredSteps
      <4>4. QED
        BY Zenon, <2>1, <3>1, <4>2, <4>3
    <3>2. CASE f # e
      BY Zenon, <1>3, <2>1, <3>2 DEF BackendInv, AttemptsCovered
    <3>3. QED
      BY Zenon, <3>1, <3>2
  <2>4. QED
    BY Zenon, <1>3, <1>4, <2>2, <2>3 DEF BackendInv
<1>8. QED
  BY Zenon, <1>6, <1>7 DEF UpsertDLQEvent, PublishToDLQ

\* PurgeExpiredEvents' delete: a record is as it was, or gone.
LEMMA PurgeStep ==
  ASSUME BackendInv, PurgeStatement
  PROVE  BackendInv'
<1>1. TypeOK'
  BY Zenon, TypeStep DEF BackendInv, TypeOKBackend, PurgeStatement, Next
<1>2. /\ \A e \in Events : events'[e] = events[e] \/ events'[e] = NoRecord
      /\ UNCHANGED <<now, held, claims, backendVars, history>>
  BY Zenon DEF PurgeStatement, Purge, PurgeExpiredEvents, BackendInv,
     TypeOKBackend, TypeOK
<1>3. TypeOKBackend' /\ ClaimingOK' /\ OneHand'
  BY Zenon, <1>1, <1>2 DEF BackendInv, TypeOKBackend, ClaimingOK, OneHand,
     backendVars, history
<1>4. NoRecord.status = "absent"
  BY Zenon DEF NoRecord
<1>5. MarkingOK'
  <2> SUFFICES ASSUME NEW w \in Workers, marking[w] # Idle
               PROVE  LET m == marking[w]
                          rec == events'[m.event]
                      IN  /\ m.event \in held[w]
                          /\ m.at <= now
                          /\ m.event \notin shared => rec.status \notin Terminal
                          /\ /\ ~faulty
                             /\ m.event \notin shared /\ m.event \notin stale
                             /\ rec.status # "absent"
                             => /\ rec.status = "retrying"
                                /\ rec.retryCount = m.retryCount
    BY Zenon, <1>2 DEF MarkingOK, backendVars, history
  <2>1. marking[w].event \in Events
    BY Zenon DEF BackendInv, TypeOKBackend
  <2>2. CASE events'[marking[w].event] = events[marking[w].event]
    BY Zenon, <2>2 DEF BackendInv, MarkingOK
  <2>3. CASE events'[marking[w].event] = NoRecord
    BY Zenon, <1>4, <2>3 DEF BackendInv, MarkingOK, Terminal
  <2>4. QED
    BY Zenon, <1>2, <2>1, <2>2, <2>3
<1>6. AttemptsCovered'
  <2> SUFFICES ASSUME NEW e \in Events \ stale
               PROVE  Covered(events'[e].status,
                              claims[e] + Cardinality(Owing(e)),
                              events'[e].retryCount)
    BY Zenon, <1>2, OwingUnchanged DEF AttemptsCovered, backendVars, history
  <2>1. CASE events'[e] = events[e]
    BY Zenon, <2>1 DEF BackendInv, AttemptsCovered
  <2>2. CASE events'[e] = NoRecord
    BY Zenon, <1>4, <2>2 DEF Covered
  <2>3. QED
    BY Zenon, <1>2, <2>1, <2>2
<1>7. QED
  BY Zenon, <1>3, <1>5, <1>6 DEF BackendInv

\* Time passes.
LEMMA BackendTickStep ==
  ASSUME BackendInv, Tick, UNCHANGED <<backendVars, history>>
  PROVE  BackendInv'
<1>1. TypeOK'
  BY Zenon, TypeStep DEF BackendInv, TypeOKBackend, Next
<1>2. /\ now' = now + 1
      /\ UNCHANGED <<events, held, claims, backend, faulty, claiming, marking,
                     shared, stale>>
  BY Zenon DEF Tick, backendVars, history
<1>3. TypeOKBackend' /\ OneHand'
  BY Zenon, <1>1, <1>2 DEF BackendInv, TypeOKBackend, OneHand
<1>4. ClaimingOK'
  BY <1>2 DEF BackendInv, ClaimingOK, TypeOKBackend, TypeOK
<1>5. MarkingOK'
  <2>1. \A w \in Workers : marking[w] # Idle => marking[w].at <= now'
    BY <1>2 DEF BackendInv, MarkingOK, TypeOKBackend, TypeOK
  <2>2. QED
    BY Zenon, <1>2, <2>1 DEF BackendInv, MarkingOK
<1>6. AttemptsCovered'
  BY Zenon, <1>2, OwingUnchanged DEF BackendInv, AttemptsCovered
<1>7. QED
  BY Zenon, <1>3, <1>4, <1>5, <1>6 DEF BackendInv

\* A statement that claims the records of b, in Postgres or in Mongo.  An event
\* that another worker has in hand becomes a shared one.
LEMMA ClaimStatementStep ==
  ASSUME BackendInv, NEW w \in Workers, marking[w] = Idle, NEW asOf, NEW limit,
         NEW b \in Batches(Candidates(asOf), limit), Claimed(b),
         UNCHANGED <<now, marking, backend, faulty, stale>>,
         \/ Given(w, b)
         \/ UNCHANGED <<held, shared>>,
         claiming' \in [Workers -> {Idle} \cup ClaimCall],
         \A v \in Workers \ {w} : claiming'[v] = claiming[v],
         claiming'[w] # Idle => claiming'[w].asOf <= now
  PROVE  BackendInv'
<1> USE DLQAssumption
<1>1. TypeOK
  BY Zenon DEF BackendInv, TypeOKBackend
<1>2. /\ b \subseteq Events
      /\ events' \in [Events -> DLQEvent]
      /\ claims' \in [Events -> Nat]
      /\ \A e \in b : /\ events[e].status = "pending"
                      /\ events'[e].status = "retrying"
                      /\ events'[e].retryCount = events[e].retryCount
                      /\ claims'[e] = claims[e] + 1
      /\ \A e \in Events \ b : events'[e] = events[e] /\ claims'[e] = claims[e]
  BY <1>1, ClaimedEffect
<1>3. /\ held' \in [Workers -> SUBSET Events]
      /\ shared' \subseteq Events /\ shared \subseteq shared'
      /\ \A v \in Workers : held[v] \subseteq held'[v]
      /\ \A v \in Workers \ {w} : held'[v] = held[v]
  <2>1. shared \subseteq Events /\ held \in [Workers -> SUBSET Events]
    BY Zenon, <1>1 DEF TypeOK, BackendInv, TypeOKBackend
  <2>2. CASE Given(w, b)
    <3>1. shared' \subseteq Events /\ shared \subseteq shared'
      BY Zenon, <1>2, <2>1, <2>2 DEF Given
    <3>2. held[w] \cup b \in SUBSET Events
      BY Zenon, <1>2, <2>1
    <3>3. held' = [held EXCEPT ![w] = held[w] \cup b]
      BY Zenon, <2>2 DEF Given
    <3>4. QED
      BY Zenon, <2>1, <3>1, <3>2, <3>3
  <2>3. CASE UNCHANGED <<held, shared>>
    BY Zenon, <2>1, <2>3
  <2>4. QED
    BY Zenon, <2>2, <2>3
<1>4. TypeOKBackend'
  BY Zenon, <1>2, <1>3 DEF BackendInv, TypeOKBackend, TypeOK, ClaimCall
<1>5. ClaimingOK'
  BY Zenon DEF BackendInv, ClaimingOK
<1>6. OneHand'
  <2> SUFFICES ASSUME NEW e \in Events, e \notin shared',
                      NEW u \in Workers, NEW v \in Workers,
                      e \in held'[u], e \in held'[v], u # v
               PROVE  FALSE
    BY Zenon DEF OneHand
  <2>1. \A x, y \in Workers : e \in held[x] /\ e \in held[y] => x = y
    BY Zenon, <1>3 DEF BackendInv, OneHand
  <2>2. CASE Given(w, b)
    <3>1. held'[w] = held[w] \cup b
      BY Zenon, <1>1, <2>2 DEF Given, TypeOK
    <3>2. e \in b => \A x \in Workers \ {w} : e \notin held[x]
      BY Zenon, <2>2 DEF Given
    <3>3. QED
      BY Zenon, <1>3, <2>1, <3>1, <3>2
  <2>3. CASE UNCHANGED <<held, shared>>
    BY Zenon, <2>1, <2>3
  <2>4. QED
    BY Zenon, <2>2, <2>3
<1>7. MarkingOK'
  <2> SUFFICES ASSUME NEW v \in Workers, marking[v] # Idle
               PROVE  LET m == marking[v]
                          rec == events'[m.event]
                      IN  /\ m.event \in held'[v]
                          /\ m.at <= now
                          /\ m.event \notin shared' => rec.status \notin Terminal
                          /\ /\ ~faulty
                             /\ m.event \notin shared' /\ m.event \notin stale
                             /\ rec.status # "absent"
                             => /\ rec.status = "retrying"
                                /\ rec.retryCount = m.retryCount
    BY Zenon DEF MarkingOK
  <2>1. /\ marking[v].event \in Events
        /\ marking[v].event \in held'[v] /\ marking[v].at <= now
    BY Zenon, <1>3 DEF BackendInv, TypeOKBackend, MarkingOK
  <2>2. CASE marking[v].event \in b
    <3>1. /\ events[marking[v].event].status = "pending"
          /\ events'[marking[v].event].status = "retrying"
      BY Zenon, <1>2, <2>2
    <3>2. \/ faulty \/ marking[v].event \in shared
          \/ marking[v].event \in stale
      BY Zenon, <3>1 DEF BackendInv, MarkingOK
    <3>3. QED
      BY Zenon, <1>3, <2>1, <3>1, <3>2 DEF Terminal
  <2>3. CASE marking[v].event \notin b
    <3>1. events'[marking[v].event] = events[marking[v].event]
      BY Zenon, <1>2, <2>1, <2>3
    <3>2. marking[v].event \in shared => marking[v].event \in shared'
      BY Zenon, <1>3
    <3>3. QED
      BY Zenon, <2>1, <3>1, <3>2 DEF BackendInv, MarkingOK
  <2>4. QED
    BY Zenon, <2>2, <2>3
<1>8. AttemptsCovered'
  <2> SUFFICES ASSUME NEW e \in Events \ stale
               PROVE  Covered(events'[e].status,
                              claims'[e] + Cardinality(Owing(e)),
                              events'[e].retryCount)
    BY Zenon, OwingUnchanged DEF AttemptsCovered
  <2>1. Covered(events[e].status, claims[e] + Cardinality(Owing(e)),
                events[e].retryCount)
    BY Zenon DEF BackendInv, AttemptsCovered
  <2>2. CASE e \in b
    <3> DEFINE n == claims[e] + Cardinality(Owing(e))
    <3>1. events[e].retryCount \in Nat /\ claims[e] \in Nat
      BY Zenon, <1>1 DEF TypeOK, DLQEvent
    <3>2. Cardinality(Owing(e)) \in Nat
      BY Zenon, OwingFinite
    <3>3. n \in Nat /\ claims'[e] + Cardinality(Owing(e)) = n + 1
      BY <1>2, <2>2, <3>1, <3>2
    <3>4. Covered("pending", n, events[e].retryCount)
      BY Zenon, <1>2, <2>1, <2>2
    <3> HIDE DEF n
    <3>5. Covered("retrying", n + 1, events[e].retryCount)
      BY Zenon, <3>1, <3>3, <3>4, CoveredSteps
    <3>6. QED
      BY Zenon, <1>2, <2>2, <3>3, <3>5
  <2>3. CASE e \notin b
    BY Zenon, <1>2, <2>1, <2>3
  <2>4. QED
    BY Zenon, <2>2, <2>3
<1>9. QED
  BY Zenon, <1>4, <1>5, <1>6, <1>7, <1>8 DEF BackendInv

\* ClaimRetryableEvents in Postgres, and the steps it has in Mongo.
LEMMA ClaimStepKeeps ==
  ASSUME BackendInv, NEW w \in Workers, ClaimStep(w)
  PROVE  BackendInv'
<1> USE DLQAssumption
<1>1. /\ claiming \in [Workers -> {Idle} \cup ClaimCall]
      /\ now \in Nat
  BY DEF BackendInv, TypeOKBackend, TypeOK, ClaimCall
<1>2. ASSUME NEW limit \in ClaimLimits, NEW asOf \in 0 .. now,
             ClaimPostgres(w, limit, asOf)
      PROVE  BackendInv'
  <2>1. PICK b \in Batches(Candidates(asOf), ClaimLimit(limit)) :
          /\ Claimed(b)
          /\ \/ Given(w, b)
             \/ UNCHANGED <<held, shared>>
    BY Zenon, <1>2 DEF ClaimPostgres
  <2>2. /\ marking[w] = Idle /\ claiming[w] = Idle
        /\ UNCHANGED <<now, marking, backend, faulty, claiming, stale>>
    BY Zenon, <1>2 DEF ClaimPostgres, Free, backendVars
  <2>3. QED
    BY Zenon, <1>1, <2>1, <2>2, ClaimStatementStep
<1>3. ASSUME UNCHANGED <<now, events, held, claims, marking, backend, faulty,
                         shared, stale>>,
             claiming' \in [Workers -> {Idle} \cup ClaimCall],
             \A v \in Workers : claiming'[v] # Idle =>
               marking[v] = Idle /\ claiming'[v].asOf <= now
      PROVE  BackendInv'
  <2>1. TypeOKBackend' /\ ClaimingOK'
    BY Zenon, <1>3 DEF BackendInv, TypeOKBackend, TypeOK, ClaimCall, ClaimingOK
  <2>2. OneHand' /\ MarkingOK'
    BY Zenon, <1>3 DEF BackendInv, OneHand, MarkingOK
  <2>3. AttemptsCovered'
    BY Zenon, <1>3, OwingUnchanged DEF BackendInv, AttemptsCovered
  <2>4. QED
    BY Zenon, <2>1, <2>2, <2>3 DEF BackendInv
<1>4. ASSUME NEW limit \in ClaimLimits, NEW asOf \in 0 .. now,
             ClaimMongoStart(w, limit, asOf)
      PROVE  BackendInv'
  <2> DEFINE call == [left |-> ClaimLimit(limit), asOf |-> asOf]
  <2>1. call \in ClaimCall /\ call.asOf <= now
    BY <1>1 DEF ClaimCall, ClaimLimit
  <2>2. /\ claiming' = [claiming EXCEPT ![w] = call]
        /\ marking[w] = Idle
        /\ UNCHANGED <<now, events, held, claims, marking, backend, faulty,
                       shared, stale>>
    BY Zenon, <1>4 DEF ClaimMongoStart, Free, dlqVars, history
  <2> HIDE DEF call
  <2>3. /\ claiming' \in [Workers -> {Idle} \cup ClaimCall]
        /\ claiming'[w] = call
        /\ \A v \in Workers \ {w} : claiming'[v] = claiming[v]
    BY Zenon, <1>1, <2>1, <2>2
  <2>4. QED
    BY Zenon, <1>3, <2>1, <2>2, <2>3 DEF BackendInv, ClaimingOK
<1>5. CASE ClaimMongoOne(w)
  <2> DEFINE call == claiming[w]
             next == IF call.left = 1 THEN Idle ELSE [call EXCEPT !.left = @ - 1]
  <2>1. /\ call # Idle /\ marking[w] = Idle /\ call \in ClaimCall
        /\ call.asOf <= now
        /\ UNCHANGED <<now, marking, backend, faulty, stale>>
    BY Zenon, <1>1, <1>5 DEF ClaimMongoOne, BackendInv, ClaimingOK
  <2>2. next \in {Idle} \cup ClaimCall /\ (next # Idle => next.asOf <= now)
    BY <2>1 DEF ClaimCall
  <2>3. CASE /\ claiming' = [claiming EXCEPT ![w] = Idle]
             /\ UNCHANGED <<events, held, claims, shared>>
    <3>1. /\ claiming' \in [Workers -> {Idle} \cup ClaimCall]
          /\ claiming'[w] = Idle
          /\ \A v \in Workers \ {w} : claiming'[v] = claiming[v]
      BY Zenon, <1>1, <2>3
    <3>2. QED
      BY Zenon, <1>3, <2>1, <2>3, <3>1 DEF BackendInv, ClaimingOK
  <2>4. ASSUME NEW b \in Batches(Candidates(call.asOf), 1), Claimed(b),
               \/ /\ Given(w, b)
                  /\ claiming' = [claiming EXCEPT ![w] = next]
               \/ /\ UNCHANGED <<held, shared>>
                  /\ claiming' = [claiming EXCEPT ![w] = Idle]
        PROVE  BackendInv'
    <3> HIDE DEF next
    <3>1. /\ claiming' \in [Workers -> {Idle} \cup ClaimCall]
          /\ claiming'[w] \in {next, Idle}
          /\ \A v \in Workers \ {w} : claiming'[v] = claiming[v]
      BY Zenon, <1>1, <2>2, <2>4
    <3>2. QED
      BY Zenon, <2>1, <2>2, <2>4, <3>1, ClaimStatementStep
  <2>5. QED
    BY Zenon, <1>5, <2>3, <2>4 DEF ClaimMongoOne
<1>6. QED
  BY Zenon, <1>2, <1>4, <1>5 DEF ClaimStep

\* The first statement of MarkRetried: one attempt more is paid for.
LEMMA IncrementStep ==
  ASSUME BackendInv, NEW w \in Workers, NEW e \in Events,
         NEW success \in BOOLEAN, IncrementRetryCount(w, e, success)
  PROVE  BackendInv'
<1>1. TypeOK /\ marking \in [Workers -> {Idle} \cup MarkCall]
  BY Zenon DEF BackendInv, TypeOKBackend, MarkCall
<1>2. PICK at \in 0 .. now :
        marking' = [marking EXCEPT ![w] =
          [event |-> e, success |-> success, at |-> at,
           retryCount |-> events[e].retryCount + 1]]
  BY Zenon DEF IncrementRetryCount
<1> DEFINE m == [event |-> e, success |-> success, at |-> at,
                 retryCount |-> events[e].retryCount + 1]
<1>3. /\ e \in held[w] /\ marking[w] = Idle /\ claiming[w] = Idle
      /\ events[e].status = "retrying"
      /\ events' = [events EXCEPT ![e].retryCount = @ + 1]
      /\ UNCHANGED <<now, held, claims, claiming, backend, faulty, shared, stale>>
  BY Zenon DEF IncrementRetryCount, Free, history
<1>4. events[e] \in DLQEvent /\ events[e].retryCount \in Nat /\ now \in Nat
      /\ claims[e] \in Nat
  BY <1>1, DLQAssumption DEF TypeOK, DLQEvent
<1>5. /\ events' \in [Events -> DLQEvent]
      /\ events'[e].status = "retrying"
      /\ events'[e].retryCount = events[e].retryCount + 1
      /\ \A f \in Events \ {e} : events'[f] = events[f]
  <2> DEFINE r == [events[e] EXCEPT !.retryCount = @ + 1]
  <2>1. /\ r \in DLQEvent
        /\ r.status = "retrying"
        /\ r.retryCount = events[e].retryCount + 1
    BY <1>3, <1>4 DEF DLQEvent
  <2>2. events' = [events EXCEPT ![e] = r]
    BY Zenon, <1>3
  <2> HIDE DEF r
  <2>3. QED
    BY Zenon, <1>1, <2>1, <2>2 DEF TypeOK
<1>6. /\ m \in MarkCall /\ m.event = e /\ m.at <= now
      /\ m.retryCount = events[e].retryCount + 1
  BY <1>4 DEF MarkCall
<1> HIDE DEF m
<1>7. /\ marking' = [marking EXCEPT ![w] = m] /\ m # Idle
      /\ marking' \in [Workers -> {Idle} \cup MarkCall]
      /\ marking'[w] = m
      /\ \A v \in Workers \ {w} : marking'[v] = marking[v]
  BY Zenon, <1>1, <1>2, <1>6, CallsNotIdle DEF m
<1>8. TypeOKBackend'
  BY Zenon, <1>3, <1>5, <1>7 DEF BackendInv, TypeOKBackend, TypeOK, MarkCall
<1>9. ClaimingOK' /\ OneHand'
  BY Zenon, <1>3, <1>7 DEF BackendInv, ClaimingOK, OneHand
<1>10. MarkingOK'
  <2> SUFFICES ASSUME NEW v \in Workers, marking'[v] # Idle
               PROVE  LET n == marking'[v]
                          rec == events'[n.event]
                      IN  /\ n.event \in held[v]
                          /\ n.at <= now
                          /\ n.event \notin shared => rec.status \notin Terminal
                          /\ /\ ~faulty
                             /\ n.event \notin shared /\ n.event \notin stale
                             /\ rec.status # "absent"
                             => /\ rec.status = "retrying"
                                /\ rec.retryCount = n.retryCount
    BY Zenon, <1>3 DEF MarkingOK
  <2>1. CASE v = w
    BY Zenon, <1>3, <1>5, <1>6, <1>7, <2>1 DEF Terminal
  <2>2. CASE v # w
    <3>1. /\ marking'[v] = marking[v]
          /\ marking[v].event \in Events /\ marking[v].event \in held[v]
          /\ marking[v].at <= now
      BY Zenon, <1>1, <1>7, <2>2 DEF BackendInv, MarkingOK, MarkCall
    <3>2. CASE marking[v].event = e
      <4>1. e \in shared
        BY Zenon, <1>3, <2>2, <3>1, <3>2 DEF BackendInv, OneHand
      <4>2. QED
        BY Zenon, <3>1, <3>2, <4>1
    <3>3. CASE marking[v].event # e
      <4>1. events'[marking[v].event] = events[marking[v].event]
        BY Zenon, <1>5, <3>1, <3>3
      <4>2. QED
        BY Zenon, <2>2, <3>1, <4>1 DEF BackendInv, MarkingOK
    <3>4. QED
      BY Zenon, <3>2, <3>3
  <2>3. QED
    BY Zenon, <2>1, <2>2
<1>11. AttemptsCovered'
  <2> SUFFICES ASSUME NEW f \in Events \ stale
               PROVE  Covered(events'[f].status,
                              claims[f] + Cardinality(Owing(f)'),
                              events'[f].retryCount)
    BY Zenon, <1>3 DEF AttemptsCovered
  <2>1. Covered(events[f].status, claims[f] + Cardinality(Owing(f)),
                events[f].retryCount)
    BY Zenon DEF BackendInv, AttemptsCovered
  <2>2. Cardinality(Owing(f)') =
          IF m.event = f /\ m.retryCount < MaxRetries
          THEN Cardinality(Owing(f)) + 1
          ELSE Cardinality(Owing(f))
    BY Zenon, <1>3, <1>6, <1>7, OwingJoins DEF BackendInv
  <2>3. CASE f = e
    <3> DEFINE n == claims[e] + Cardinality(Owing(e))
               count == events[e].retryCount
    <3>1. Cardinality(Owing(e)) \in Nat
      BY Zenon, OwingFinite
    <3>2. n \in Nat /\ claims[e] + (Cardinality(Owing(e)) + 1) = n + 1
      BY <1>4, <3>1
    <3>3. Covered("retrying", n, count) /\ count \in Nat
      BY Zenon, <1>3, <1>4, <2>1, <2>3
    <3> HIDE DEF n, count
    <3>4. /\ Covered("retrying", n, count + 1)
          /\ count + 1 < MaxRetries => Covered("retrying", n + 1, count + 1)
      BY Zenon, <3>2, <3>3, CoveredSteps
    <3>5. CASE m.retryCount < MaxRetries
      BY Zenon, <1>5, <1>6, <2>2, <2>3, <3>2, <3>4, <3>5 DEF count
    <3>6. CASE ~(m.retryCount < MaxRetries)
      BY Zenon, <1>5, <1>6, <2>2, <2>3, <3>4, <3>6 DEF count, n
    <3>7. QED
      BY Zenon, <3>5, <3>6
  <2>4. CASE f # e
    BY Zenon, <1>5, <1>6, <2>1, <2>2, <2>4
  <2>5. QED
    BY Zenon, <2>3, <2>4
<1>12. QED
  BY Zenon, <1>8, <1>9, <1>10, <1>11 DEF BackendInv

\* A worker ends MarkRetried, or crashes in it: its second statement has run,
\* or it has not.  What it wrote concerns the workers that share the event.
LEMMA FinalizeStep ==
  ASSUME BackendInv, NEW w \in Workers,
         marking' = [marking EXCEPT ![w] = Idle],
         events' = events \/ (marking[w] # Idle /\ Finalized(marking[w])),
         held' \in [Workers -> SUBSET Events],
         held'[w] \subseteq held[w],
         \A v \in Workers \ {w} : held'[v] = held[v],
         claiming' \in [Workers -> {Idle} \cup ClaimCall],
         \A v \in Workers : claiming'[v] = claiming[v] \/ claiming'[v] = Idle,
         UNCHANGED <<now, claims, backend, faulty, shared, stale>>
  PROVE  BackendInv'
<1> DEFINE m == marking[w]
           e == marking[w].event
<1>1. TypeOK /\ TypeOKBackend /\ marking \in [Workers -> {Idle} \cup MarkCall]
  BY Zenon DEF BackendInv, TypeOKBackend, MarkCall
<1>2. ASSUME m # Idle
      PROVE  /\ m \in MarkCall /\ e \in Events /\ e \in held[w]
             /\ m.retryCount \in Nat
  BY Zenon, <1>1, <1>2 DEF BackendInv, MarkingOK, MarkCall
<1>3. \/ events' = events
      \/ /\ m # Idle
         /\ events' \in [Events -> DLQEvent]
         /\ events[e].status # "absent"
         /\ events'[e].status \in {"pending", "exhausted", "resolved"}
         /\ events'[e].retryCount = events[e].retryCount
         /\ events'[e].status = "pending" => m.retryCount < MaxRetries
         /\ \A f \in Events \ {e} : events'[f] = events[f]
  <2> SUFFICES ASSUME m # Idle, Finalized(m), events' # events
               PROVE  /\ events' \in [Events -> DLQEvent]
                      /\ events[e].status # "absent"
                      /\ events'[e].status \in {"pending", "exhausted", "resolved"}
                      /\ events'[e].retryCount = events[e].retryCount
                      /\ events'[e].status = "pending" => m.retryCount < MaxRetries
                      /\ \A f \in Events \ {e} : events'[f] = events[f]
    BY Zenon
  <2>1. m \in MarkCall
    BY Zenon, <1>2
  <2> HIDE DEF m
  <2>2. QED
    BY Zenon, <1>1, <2>1, FinalizedEffect DEF m
<1>4. events' \in [Events -> DLQEvent]
  BY Zenon, <1>1, <1>3 DEF TypeOK
<1>5. /\ marking' \in [Workers -> {Idle} \cup MarkCall]
      /\ marking'[w] = Idle
      /\ \A v \in Workers \ {w} : marking'[v] = marking[v]
  BY Zenon, <1>1
<1>6. TypeOKBackend'
  BY Zenon, <1>4, <1>5 DEF BackendInv, TypeOKBackend, TypeOK, MarkCall, ClaimCall
<1>7. ClaimingOK'
  BY Zenon, <1>5 DEF BackendInv, ClaimingOK
<1>8. OneHand'
  <2>1. \A v \in Workers : held'[v] \subseteq held[v]
    BY Zenon
  <2>2. QED
    BY Zenon, <2>1 DEF BackendInv, OneHand
<1>9. MarkingOK'
  <2> SUFFICES ASSUME NEW v \in Workers, v # w, marking[v] # Idle
               PROVE  LET n == marking[v]
                          rec == events'[n.event]
                      IN  /\ n.event \in held[v]
                          /\ n.at <= now
                          /\ n.event \notin shared => rec.status \notin Terminal
                          /\ /\ ~faulty
                             /\ n.event \notin shared /\ n.event \notin stale
                             /\ rec.status # "absent"
                             => /\ rec.status = "retrying"
                                /\ rec.retryCount = n.retryCount
    BY Zenon, <1>5 DEF MarkingOK
  <2>1. /\ marking[v].event \in Events /\ marking[v].event \in held[v]
        /\ marking[v].at <= now
    BY Zenon, <1>1 DEF BackendInv, MarkingOK, MarkCall
  <2>2. CASE m # Idle /\ marking[v].event = e
    <3>1. e \in shared
      BY Zenon, <1>2, <2>1, <2>2 DEF BackendInv, OneHand
    <3>2. QED
      BY Zenon, <2>1, <2>2, <3>1
  <2>3. CASE ~(m # Idle /\ marking[v].event = e)
    <3>1. events'[marking[v].event] = events[marking[v].event]
      BY Zenon, <1>3, <2>1, <2>3
    <3>2. QED
      BY Zenon, <3>1 DEF BackendInv, MarkingOK
  <2>4. QED
    BY Zenon, <2>2, <2>3
<1>10. AttemptsCovered'
  <2> SUFFICES ASSUME NEW f \in Events \ stale
               PROVE  Covered(events'[f].status,
                              claims[f] + Cardinality(Owing(f)'),
                              events'[f].retryCount)
    BY Zenon DEF AttemptsCovered
  <2> DEFINE n == claims[f] + Cardinality(Owing(f)')
             count == events[f].retryCount
             status == events[f].status
  <2>1. /\ w \notin Owing(f) => Cardinality(Owing(f)') = Cardinality(Owing(f))
        /\ w \in Owing(f) =>
             Cardinality(Owing(f)) = Cardinality(Owing(f)') + 1
        /\ Cardinality(Owing(f)') \in Nat
    BY Zenon, <1>1, OwingLeaves
  <2>2. claims[f] \in Nat /\ count \in Nat
    BY Zenon, <1>1 DEF TypeOK, DLQEvent
  <2>3. /\ n \in Nat
        /\ w \in Owing(f) => claims[f] + Cardinality(Owing(f)) = n + 1
        /\ w \notin Owing(f) => claims[f] + Cardinality(Owing(f)) = n
    BY <2>1, <2>2
  <2>4. Covered(status, claims[f] + Cardinality(Owing(f)), count)
    BY Zenon DEF BackendInv, AttemptsCovered
  <2> HIDE DEF n, count, status
  <2>5. Covered(status, n, count)
    BY Zenon, <2>2, <2>3, <2>4, CoveredSteps
  <2>6. CASE events'[f] = events[f]
    BY Zenon, <2>5, <2>6 DEF n, count, status
  <2>7. CASE events'[f] # events[f]
    <3>1. /\ m # Idle /\ f = e
          /\ status # "absent"
          /\ events'[f].retryCount = count
          /\ events'[f].status = "pending" => m.retryCount < MaxRetries
      BY Zenon, <1>3, <2>7 DEF status, count
    <3>2. CASE w \in Owing(f)
      <4>1. Covered(status, n + 1, count)
        BY Zenon, <2>3, <2>4, <3>2
      <4>2. Covered(events'[f].status, n, count)
        BY Zenon, <2>2, <2>3, <3>1, <4>1, CoveredSteps
      <4>3. QED
        BY Zenon, <3>1, <4>2 DEF n
    <3>3. CASE w \notin Owing(f)
      <4>1. events'[f].status # "pending"
        BY Zenon, <3>1, <3>3 DEF Owing
      <4>2. Covered(events'[f].status, n, count)
        BY Zenon, <2>5, <3>1, <4>1, CoveredSettled
      <4>3. QED
        BY Zenon, <3>1, <4>2 DEF n
    <3>4. QED
      BY Zenon, <3>2, <3>3
  <2>8. QED
    BY Zenon, <2>6, <2>7
<1>11. QED
  BY Zenon, <1>6, <1>7, <1>8, <1>9, <1>10 DEF BackendInv

\* MarkRetried, statement by statement.
LEMMA MarkStepKeeps ==
  ASSUME BackendInv, NEW w \in Workers, MarkStep(w)
  PROVE  BackendInv'
<1>0. /\ held \in [Workers -> SUBSET Events]
      /\ claiming \in [Workers -> {Idle} \cup ClaimCall]
  BY Zenon DEF BackendInv, TypeOKBackend, TypeOK, ClaimCall
<1>1. ASSUME NEW e \in Events, NEW success \in BOOLEAN,
             IncrementRetryCount(w, e, success)
      PROVE  BackendInv'
  BY Zenon, <1>1, IncrementStep
<1>2. ASSUME NEW e \in Events, IncrementMatchesNothing(w, e)
      PROVE  BackendInv'
  <2>1. /\ marking[w] = Idle
        /\ held' = [held EXCEPT ![w] = @ \ {e}]
        /\ UNCHANGED <<now, events, claims, claiming, marking, backend, faulty,
                       shared, stale>>
    BY Zenon, <1>2 DEF IncrementMatchesNothing, Free, backendVars, history
  <2>2. /\ held' \in [Workers -> SUBSET Events]
        /\ held'[w] \subseteq held[w]
        /\ \A v \in Workers \ {w} : held'[v] = held[v]
    BY Zenon, <1>0, <2>1
  <2>3. marking' = [marking EXCEPT ![w] = Idle]
    BY Zenon, <2>1 DEF BackendInv, TypeOKBackend
  <2>4. QED
    BY Zenon, <1>0, <2>1, <2>2, <2>3, FinalizeStep
<1>3. ASSUME marking[w] # Idle,
             events' = events \/ Finalized(marking[w]),
             \/ held' = held
             \/ held' = [held EXCEPT ![w] = @ \ {marking[w].event}],
             marking' = [marking EXCEPT ![w] = Idle],
             UNCHANGED <<now, claims, claiming, backend, faulty, shared, stale>>
      PROVE  BackendInv'
  <2>1. /\ held' \in [Workers -> SUBSET Events]
        /\ held'[w] \subseteq held[w]
        /\ \A v \in Workers \ {w} : held'[v] = held[v]
    BY Zenon, <1>0, <1>3
  <2>2. QED
    BY Zenon, <1>0, <1>3, <2>1, FinalizeStep
<1>4. CASE Finalize(w)
  BY Zenon, <1>3, <1>4 DEF Finalize, history
<1>5. CASE FinalizeErrs(w)
  BY Zenon, <1>3, <1>5 DEF FinalizeErrs, history
<1>6. QED
  BY Zenon, <1>1, <1>2, <1>4, <1>5 DEF MarkStep

\* A crash, with whatever operation the worker was in.
LEMMA CrashStep ==
  ASSUME BackendInv, NEW w \in Workers, BackendCrash(w)
  PROVE  BackendInv'
<1>1. /\ held \in [Workers -> SUBSET Events]
      /\ claiming \in [Workers -> {Idle} \cup ClaimCall]
  BY Zenon DEF BackendInv, TypeOKBackend, TypeOK, ClaimCall
<1>2. /\ held' = [held EXCEPT ![w] = {}]
      /\ claiming' = [claiming EXCEPT ![w] = Idle]
      /\ marking' = [marking EXCEPT ![w] = Idle]
      /\ UNCHANGED <<now, events, claims, backend, faulty, shared, stale>>
  BY Zenon DEF BackendCrash, WorkerCrash, history
<1>3. /\ held' \in [Workers -> SUBSET Events]
      /\ held'[w] \subseteq held[w]
      /\ \A v \in Workers \ {w} : held'[v] = held[v]
  BY Zenon, <1>1, <1>2
<1>4. /\ claiming' \in [Workers -> {Idle} \cup ClaimCall]
      /\ \A v \in Workers : claiming'[v] = claiming[v] \/ claiming'[v] = Idle
  BY Zenon, <1>1, <1>2
<1>5. QED
  BY Zenon, <1>2, <1>3, <1>4, FinalizeStep

\* The invariant of the database handlers.
LEMMA BackendInvHolds == SpecBackend => []BackendInv
<1>1. InitBackend => BackendInv
  <2> SUFFICES ASSUME InitBackend
               PROVE  BackendInv
    BY Zenon
  <2> USE DLQAssumption
  <2>1. TypeOKBackend
    BY BackendAssumption DEF InitBackend, Init, TypeOKBackend, TypeOK, NoRecord,
       DLQEvent, Statuses
  <2>2. ClaimingOK /\ OneHand /\ MarkingOK
    BY Zenon DEF InitBackend, Init, ClaimingOK, OneHand, MarkingOK
  <2>3. AttemptsCovered
    BY Zenon DEF InitBackend, Init, NoRecord, AttemptsCovered, Covered
  <2>4. QED
    BY Zenon, <2>1, <2>2, <2>3 DEF BackendInv
<1>2. BackendInv /\ [NextBackend]_allVars => BackendInv'
  <2> SUFFICES ASSUME BackendInv, [NextBackend]_allVars
               PROVE  BackendInv'
    BY Zenon
  <2>1. CASE UNCHANGED allVars
    <3>1. UNCHANGED <<now, events, held, claims, backend, faulty, claiming,
                      marking, shared, stale>>
      BY Zenon, <2>1 DEF allVars, backendVars, history
    <3>2. TypeOKBackend' /\ ClaimingOK' /\ OneHand' /\ MarkingOK'
      BY Zenon, <3>1 DEF BackendInv, TypeOKBackend, TypeOK, ClaimingOK, OneHand,
         MarkingOK
    <3>3. AttemptsCovered'
      BY Zenon, <3>1, OwingUnchanged DEF BackendInv, AttemptsCovered
    <3>4. QED
      BY Zenon, <3>2, <3>3 DEF BackendInv
  <2>2. QED
    BY Zenon, <2>1, UpsertStep, PurgeStep, BackendTickStep, ClaimStepKeeps,
       MarkStepKeeps, CrashStep DEF NextBackend
<1>3. QED
  BY <1>1, <1>2, PTL DEF SpecBackend

(***************************************************************************)
(* Whatever the number of workers, crashes between the statements of       *)
(* MarkRetried, failed statements, lost replies and calls that are made    *)
(* again never buy an event an extra attempt, in Postgres or in Mongo: an  *)
(* increment pays for every finalize that puts a record back.  Only a      *)
(* record that was published under a MarkRetried of a purged one may have  *)
(* got its finalize for nothing.                                           *)
(***************************************************************************)
THEOREM AttemptsBoundedHolds == SpecBackend => []AttemptsBounded
<1>1. BackendInv => AttemptsBounded
  <2> SUFFICES ASSUME BackendInv, NEW e \in Events \ stale,
                      events[e].status # "absent"
               PROVE  /\ claims[e] <= MaxRetries
                      /\ claims[e] <= events[e].retryCount + 1
    BY Zenon DEF AttemptsBounded
  <2>1. claims[e] \in Nat /\ events[e].retryCount \in Nat
    BY Zenon DEF BackendInv, TypeOKBackend, TypeOK, DLQEvent
  <2>2. Cardinality(Owing(e)) \in Nat
    BY Zenon, OwingFinite
  <2>3. Covered(events[e].status, claims[e] + Cardinality(Owing(e)),
                events[e].retryCount)
    BY Zenon DEF BackendInv, AttemptsCovered
  <2>4. QED
    BY <2>1, <2>2, <2>3, DLQAssumption DEF Covered
<1>2. QED
  BY <1>1, BackendInvHolds, PTL

(***************************************************************************)
(* Nor do they reopen a resolved or an exhausted record, unless its event  *)
(* has been in two workers' hands at a time: MarkRetried's second          *)
(* statement names the record by its id alone, and only another worker can *)
(* have settled it since the first one.                                    *)
(***************************************************************************)
THEOREM BackendReopenedOnlyIfShared == SpecBackend => ReopenedOnlyIfShared
<1>1. BackendInv /\ [NextBackend]_allVars =>
        [\A e \in Events \ shared :
           events[e].status \in Terminal =>
             events'[e] = events[e] \/ events'[e] = NoRecord]_dlqVars
  <2> SUFFICES ASSUME BackendInv, NextBackend, NEW e \in Events, e \notin shared,
                      events[e].status \in Terminal
               PROVE  events'[e] = events[e] \/ events'[e] = NoRecord
    BY Zenon DEF allVars, dlqVars
  <2>1. TypeOK
    BY Zenon DEF BackendInv, TypeOKBackend
  <2>2. ASSUME NEW f \in Events, UpsertDLQEvent(f)
        PROVE  events'[e] = events[e]
    BY Zenon, <2>1, <2>2 DEF UpsertDLQEvent, PublishToDLQ, RecordFailure,
       AppendFailure, Terminal, TypeOK, dlqVars
  <2>3. ASSUME NEW w \in Workers, ClaimStep(w)
        PROVE  events'[e] = events[e]
    <3>1. ASSUME NEW asOf, NEW limit,
                 NEW b \in Batches(Candidates(asOf), limit), Claimed(b)
          PROVE  events'[e] = events[e]
      BY Zenon, <3>1 DEF Claimed, Batches, Candidates, Terminal
    <3>2. QED
      BY Zenon, <2>3, <3>1 DEF ClaimStep, ClaimPostgres, ClaimMongoStart,
         ClaimMongoOne, dlqVars
  <2>4. ASSUME NEW w \in Workers, MarkStep(w)
        PROVE  events'[e] = events[e]
    <3>1. ASSUME NEW f \in Events, NEW success \in BOOLEAN,
                 IncrementRetryCount(w, f, success)
          PROVE  events'[e] = events[e]
      BY Zenon, <2>1, <3>1 DEF IncrementRetryCount, Terminal, TypeOK
    <3>2. ASSUME marking[w] # Idle, Finalized(marking[w])
          PROVE  events'[e] = events[e]
      <4>1. marking[w] \in MarkCall /\ marking[w].event # e
        BY Zenon, <2>1, <3>2 DEF BackendInv, TypeOKBackend, MarkCall, MarkingOK
      <4>2. QED
        BY Zenon, <2>1, <3>2, <4>1, FinalizedEffect
    <3>3. QED
      BY Zenon, <2>4, <3>1, <3>2 DEF MarkStep, IncrementMatchesNothing,
         Finalize, FinalizeErrs
  <2>5. CASE PurgeStatement
    BY Zenon, <2>5 DEF PurgeStatement, Purge, PurgeExpiredEvents
  <2>6. CASE Tick \/ \E w \in Workers : BackendCrash(w)
    BY Zenon, <2>6 DEF Tick, BackendCrash, WorkerCrash
  <2>7. QED
    BY Zenon, <2>2, <2>3, <2>4, <2>5, <2>6 DEF NextBackend
<1>2. QED
  BY <1>1, BackendInvHolds, PTL DEF SpecBackend, ReopenedOnlyIfShared

\* Whether a behaviour has faults does not change in it.
LEMMA SameFaults ==
  ASSUME [NextBackend]_allVars
  PROVE  faulty' = faulty
<1>1. CASE UNCHANGED allVars
  BY Zenon, <1>1 DEF allVars, backendVars
<1>2. ASSUME NEW w \in Workers, ClaimStep(w) \/ MarkStep(w) \/ BackendCrash(w)
      PROVE  faulty' = faulty
  BY Zenon, <1>2 DEF backendVars, ClaimStep, ClaimPostgres, ClaimMongoStart,
     ClaimMongoOne, MarkStep, IncrementRetryCount, IncrementMatchesNothing,
     Finalize, FinalizeErrs, BackendCrash
<1>3. CASE \/ \E e \in Events : UpsertDLQEvent(e)
           \/ PurgeStatement
           \/ Tick /\ UNCHANGED <<backendVars, history>>
  BY Zenon, <1>3 DEF UpsertDLQEvent, PurgeStatement, backendVars
<1>4. QED
  BY Zenon, <1>1, <1>2, <1>3 DEF NextBackend

(***************************************************************************)
(* The two promises of ClaimRetryableEvents, made for one mutex, hold over *)
(* a database too, where claiming and reporting take several statements.   *)
(* As long as no statement fails and PurgeExpiredEvents is called with     *)
(* ages no record reaches, a record in hand is in one worker's hands and   *)
(* says "retrying"; and a record that says so is in some worker's hands.   *)
(***************************************************************************)
THEOREM BackendClaimExclusive ==
  ASSUME \A maxAge \in PurgeAges : MaxTime <= maxAge
  PROVE  SpecBackend => [](~faulty => ClaimExclusive)
<1> USE DLQAssumption
<1>1. InitBackend => ClaimExclusive
  BY Zenon DEF InitBackend, Init, ClaimExclusive
<1>2. /\ BackendInv /\ (~faulty => ClaimExclusive)
      /\ [NextBackend]_allVars
      => (~faulty' => ClaimExclusive')
  <2> SUFFICES ASSUME BackendInv, ~faulty, ClaimExclusive, NextBackend
               PROVE  ClaimExclusive'
    <3>1. [NextBackend]_allVars => faulty' = faulty
      BY Zenon, SameFaults
    <3>2. UNCHANGED allVars /\ ClaimExclusive => ClaimExclusive'
      BY Zenon DEF allVars, ClaimExclusive
    <3>3. QED
      BY Zenon, <3>1, <3>2
  <2>1. TypeOK
    BY Zenon DEF BackendInv, TypeOKBackend
  <2>2. ASSUME NEW e \in Events, UpsertDLQEvent(e)
        PROVE  ClaimExclusive'
    <3>1. /\ held' = held
          /\ \A f \in Events : events[f].status = "retrying" =>
               events'[f] = events[f]
      BY Zenon, <2>1, <2>2 DEF UpsertDLQEvent, PublishToDLQ, RecordFailure,
         AppendFailure, dlqVars, TypeOK
    <3>2. QED
      BY Zenon, <2>1, <3>1 DEF ClaimExclusive, TypeOK
  <2>3. ASSUME NEW w \in Workers, NEW asOf, NEW limit,
               NEW b \in Batches(Candidates(asOf), limit), Claimed(b),
               held' = [held EXCEPT ![w] = @ \cup b]
        PROVE  ClaimExclusive'
    <3>1. /\ b \subseteq Events
          /\ \A e \in b : /\ events[e].status = "pending"
                          /\ events'[e].status = "retrying"
          /\ \A e \in Events \ b : events'[e] = events[e]
      BY <2>1, <2>3, ClaimedEffect
    <3>2. \A e \in b : \A v \in Workers : e \notin held[v]
      BY Zenon, <3>1 DEF ClaimExclusive
    <3>3. /\ held'[w] = held[w] \cup b
          /\ \A v \in Workers \ {w} : held'[v] = held[v]
      BY Zenon, <2>1, <2>3 DEF TypeOK
    <3>4. QED
      BY <2>1, <3>1, <3>2, <3>3 DEF ClaimExclusive, TypeOK
  <2>4. CASE UNCHANGED <<events, held>>
    BY Zenon, <2>4 DEF ClaimExclusive
  <2>5. ASSUME NEW w \in Workers, ClaimStep(w)
        PROVE  ClaimExclusive'
    BY Zenon, <2>3, <2>4, <2>5 DEF ClaimStep, ClaimPostgres, ClaimMongoStart,
       ClaimMongoOne, Given, dlqVars
  <2>6. ASSUME NEW w \in Workers, NEW e \in Events, NEW success \in BOOLEAN,
               IncrementRetryCount(w, e, success)
        PROVE  ClaimExclusive'
    <3>1. /\ held' = held /\ events'[e].status = events[e].status
          /\ \A f \in Events \ {e} : events'[f] = events[f]
      <4> DEFINE r == [events[e] EXCEPT !.retryCount = @ + 1]
      <4>1. r.status = events[e].status
        BY Zenon, <2>1 DEF TypeOK, DLQEvent
      <4>2. held' = held /\ events' = [events EXCEPT ![e] = r]
        BY Zenon, <2>6 DEF IncrementRetryCount
      <4> HIDE DEF r
      <4>3. QED
        BY Zenon, <2>1, <4>1, <4>2 DEF TypeOK
    <3>2. QED
      BY Zenon, <2>1, <3>1 DEF ClaimExclusive, TypeOK
  <2>7. ASSUME NEW w \in Workers, NEW e \in held[w],
               held' = [held EXCEPT ![w] = @ \ {e}],
               \A f \in Events \ {e} : events'[f] = events[f]
        PROVE  ClaimExclusive'
    <3>1. /\ held'[w] = held[w] \ {e}
          /\ \A v \in Workers \ {w} : held'[v] = held[v]
      BY Zenon, <2>1, <2>7 DEF TypeOK
    <3>2. \A v \in Workers : e \notin held'[v]
      BY Zenon, <2>7, <3>1 DEF ClaimExclusive
    <3>3. QED
      BY <2>1, <2>7, <3>1, <3>2 DEF ClaimExclusive, TypeOK
  <2>8. ASSUME NEW w \in Workers, Finalize(w)
        PROVE  ClaimExclusive'
    <3>1. /\ marking[w] \in MarkCall /\ marking[w].event \in held[w]
          /\ Finalized(marking[w])
          /\ held' = [held EXCEPT ![w] = @ \ {marking[w].event}]
      BY Zenon, <2>8 DEF Finalize, BackendInv, TypeOKBackend, MarkCall, MarkingOK
    <3>2. \A f \in Events \ {marking[w].event} : events'[f] = events[f]
      BY Zenon, <2>1, <3>1, FinalizedEffect
    <3>3. QED
      BY Zenon, <2>7, <3>1, <3>2
  <2>9. ASSUME NEW w \in Workers, NEW e \in Events, IncrementMatchesNothing(w, e)
        PROVE  ClaimExclusive'
    BY Zenon, <2>7, <2>9 DEF IncrementMatchesNothing
  <2>10. CASE PurgeStatement
    <3>1. PICK maxAge \in PurgeAges, at \in 0 .. now :
            PurgeExpiredEvents(maxAge, at)
      BY Zenon, <2>10 DEF PurgeStatement, Purge
    <3>2. at <= maxAge
      BY <2>1 DEF TypeOK
    <3>3. \A e \in Events : events[e].createdAt \in Nat
      BY Zenon, <2>1 DEF TypeOK, DLQEvent
    <3>4. \A e \in Events : ~(events[e].createdAt < at - maxAge)
      BY <3>2, <3>3
    <3>5. /\ held' = held
          /\ \A e \in Events : events[e].status = "retrying" =>
               events'[e] = events[e]
      BY Zenon, <2>1, <3>1, <3>4 DEF PurgeExpiredEvents, Terminal, TypeOK
    <3>6. QED
      BY Zenon, <2>1, <3>5 DEF ClaimExclusive, TypeOK
  <2>11. CASE Tick
    BY Zenon, <2>4, <2>11 DEF Tick
  <2>12. QED
    BY Zenon, <2>2, <2>5, <2>6, <2>8, <2>9, <2>10, <2>11
    DEF NextBackend, MarkStep, FinalizeErrs, BackendCrash
<1>3. QED
  BY <1>1, <1>2, BackendInvHolds, PTL DEF SpecBackend

\* Only a fault strands a record.
THEOREM BackendNothingStranded == SpecBackend => [](~faulty => NothingStranded)
<1>1. InitBackend => NothingStranded
  BY DEF InitBackend, Init, NothingStranded, Stranded, NoRecord
<1>2. /\ BackendInv /\ (~faulty => NothingStranded)
      /\ [NextBackend]_allVars
      => (~faulty' => NothingStranded')
  <2> SUFFICES ASSUME BackendInv, ~faulty, NothingStranded, NextBackend
               PROVE  NothingStranded'
    <3>1. [NextBackend]_allVars => faulty' = faulty
      BY Zenon, SameFaults
    <3>2. UNCHANGED allVars /\ NothingStranded => NothingStranded'
      BY Zenon DEF allVars, NothingStranded, Stranded
    <3>3. QED
      BY Zenon, <3>1, <3>2
  <2>1. TypeOK
    BY Zenon DEF BackendInv, TypeOKBackend
  <2>2. ASSUME NEW e \in Events, UpsertDLQEvent(e)
        PROVE  NothingStranded'
    <3>1. /\ held' = held
          /\ \A f \in Events : events'[f].status = "retrying" =>
               events[f].status = "retrying"
      BY <2>1, <2>2 DEF UpsertDLQEvent, PublishToDLQ, RecordFailure,
         AppendFailure, dlqVars, TypeOK
    <3>2. QED
      BY Zenon, <3>1, HandsKeepRecords
  <2>3. ASSUME NEW w \in Workers, NEW asOf, NEW limit,
               NEW b \in Batches(Candidates(asOf), limit), Claimed(b),
               held' = [held EXCEPT ![w] = @ \cup b]
        PROVE  NothingStranded'
    <3>1. \A e \in Events \ b : events'[e] = events[e]
      BY <2>1, <2>3, ClaimedEffect
    <3>2. /\ b \subseteq held'[w]
          /\ \A v \in Workers : held[v] \subseteq held'[v]
      BY Zenon, <2>1, <2>3 DEF TypeOK
    <3>3. QED
      BY Zenon, <3>1, <3>2, HandsKeepRecords
  <2>4. CASE UNCHANGED <<events, held>>
    BY Zenon, <2>4 DEF NothingStranded, Stranded
  <2>5. ASSUME NEW w \in Workers, ClaimStep(w)
        PROVE  NothingStranded'
    BY Zenon, <2>3, <2>4, <2>5 DEF ClaimStep, ClaimPostgres, ClaimMongoStart,
       ClaimMongoOne, Given, dlqVars
  <2>6. ASSUME NEW w \in Workers, NEW e \in Events, NEW success \in BOOLEAN,
               IncrementRetryCount(w, e, success)
        PROVE  NothingStranded'
    <3>1. held' = held /\ events[e].status = "retrying"
      BY Zenon, <2>6 DEF IncrementRetryCount
    <3>2. \A f \in Events \ {e} : events'[f] = events[f]
      BY Zenon, <2>1, <2>6 DEF IncrementRetryCount, TypeOK
    <3>3. QED
      BY Zenon, <3>1, <3>2, HandsKeepRecords
  <2>7. ASSUME NEW w \in Workers, NEW e \in Events, IncrementMatchesNothing(w, e)
        PROVE  NothingStranded'
    <3>1. events' = events /\ events[e].status # "retrying"
      BY Zenon, <2>7 DEF IncrementMatchesNothing
    <3>2. \A v \in Workers : held[v] \ {e} \subseteq held'[v]
      BY Zenon, <2>1, <2>7 DEF IncrementMatchesNothing, TypeOK
    <3>3. QED
      BY Zenon, <3>1, <3>2, HandsKeepRecords
  <2>8. ASSUME NEW w \in Workers, Finalize(w)
        PROVE  NothingStranded'
    <3> DEFINE m == marking[w]
    <3>1. m \in MarkCall /\ m.event \in Events
      BY Zenon, <2>1, <2>8 DEF Finalize, BackendInv, TypeOKBackend, MarkCall
    <3>2. Finalized(m) /\ held' = [held EXCEPT ![w] = @ \ {m.event}]
      BY Zenon, <2>8 DEF Finalize
    <3> HIDE DEF m
    <3>3. /\ \A e \in Events \ {m.event} : events'[e] = events[e]
          /\ events'[m.event].status # "retrying"
      BY Zenon, <2>1, <3>1, <3>2, FinalizedEffect
    <3>4. \A v \in Workers : held[v] \ {m.event} \subseteq held'[v]
      BY Zenon, <2>1, <3>2 DEF TypeOK
    <3>5. QED
      BY Zenon, <3>1, <3>3, <3>4, HandsKeepRecords
  <2>9. CASE PurgeStatement
    <3>1. /\ held' = held
          /\ \A e \in Events : events'[e].status = "retrying" =>
               events[e].status = "retrying"
      BY <2>9 DEF PurgeStatement, Purge, PurgeExpiredEvents, NoRecord
    <3>2. QED
      BY Zenon, <3>1, HandsKeepRecords
  <2>10. CASE Tick
    BY Zenon, <2>4, <2>10 DEF Tick
  <2>11. QED
    BY Zenon, <2>2, <2>5, <2>6, <2>7, <2>8, <2>9, <2>10
    DEF NextBackend, MarkStep, FinalizeErrs, BackendCrash
<1>3. QED
  BY <1>1, <1>2, BackendInvHolds, PTL DEF SpecBackend

-----------------------------------------------------------------------------
(* The statements implement the operations of DLQHandler.                   *)

\* A record whose MarkRetried is between its statements differs from the one
\* the contract has in its count alone.
LEMMA CommittedRecords ==
  ASSUME TypeOK, NEW e \in Events
  PROVE  /\ CommittedEvents[e].status = events[e].status
         /\ CommittedEvents[e].nextRetryAt = events[e].nextRetryAt
         /\ CommittedEvents[e].createdAt = events[e].createdAt
         /\ ~Marked(e) \/ events[e].status # "retrying" =>
              CommittedEvents[e] = events[e]
BY Zenon DEF CommittedEvents, TypeOK, DLQEvent

\* The contract counts as its implementation does.
LEMMA SameCardinality ==
  ASSUME NEW S
  PROVE  Contract!Cardinality(S) = Cardinality(S)
BY Zenon DEF Contract!Cardinality, Cardinality

\* So the contract has the same candidates, and the same batches of them.
LEMMA SameBatches ==
  ASSUME TypeOK, NEW asOf, NEW limit
  PROVE  Contract!Batches(Contract!Candidates(asOf), limit)
           = Batches(Candidates(asOf), limit)
<1>1. Contract!Candidates(asOf) = Candidates(asOf)
  BY Zenon, CommittedRecords DEF Contract!Candidates, Candidates
<1>2. Candidates(asOf) \subseteq Events
  BY Zenon DEF Candidates
<1>3. \A b \in SUBSET Candidates(asOf) : \A e \in b, f \in Candidates(asOf) \ b :
        /\ CommittedEvents[e].nextRetryAt = events[e].nextRetryAt
        /\ CommittedEvents[f].nextRetryAt = events[f].nextRetryAt
  BY Zenon, <1>2, CommittedRecords
<1>4. QED
  BY Zenon, <1>1, <1>3, SameCardinality DEF Contract!Batches, Batches

\* A MarkRetried under way is one that is under way afterwards, if no worker
\* begins or ends one.
LEMMA MarkedUnchanged ==
  ASSUME marking' = marking
  PROVE  \A e \in Events : Marked(e)' <=> Marked(e)
BY Zenon DEF Marked

\* Up to the moment the contract is broken.
Undisturbed == ~faulty /\ shared = {} /\ stale = {}

\* Until then a record between the statements of MarkRetried is the claimed one
\* that was counted, or has been purged.
LEMMA MarkedIsClaimed ==
  ASSUME BackendInv, Undisturbed, NEW e \in Events, Marked(e)
  PROVE  events[e].status \in {"retrying", "absent"}
BY Zenon DEF BackendInv, MarkingOK, Marked, Undisturbed

\* Nor is another worker inside MarkRetried of an event in hand.
LEMMA NobodyElseMarks ==
  ASSUME BackendInv, Undisturbed, NEW w \in Workers, NEW e \in Events,
         e \in held[w]
  PROVE  \A v \in Workers \ {w} : marking[v] # Idle => marking[v].event # e
<1>1. e \in Events \ shared
  BY Zenon DEF Undisturbed
<1>2. \A v \in Workers : e \in held[v] => v = w
  BY Zenon, <1>1 DEF BackendInv, OneHand
<1>3. \A v \in Workers : marking[v] # Idle => marking[v].event \in held[v]
  BY Zenon DEF BackendInv, MarkingOK
<1>4. QED
  BY Zenon, <1>2, <1>3

\* An event that has been shared, or published under a MarkRetried of a purged
\* record, stays one that has.
LEMMA HistoryGrows ==
  ASSUME [NextBackend]_allVars
  PROVE  shared \subseteq shared' /\ stale \subseteq stale'
<1>1. CASE UNCHANGED history
  BY Zenon, <1>1 DEF history
<1>2. ASSUME NEW e \in Events, UpsertDLQEvent(e)
      PROVE  shared \subseteq shared' /\ stale \subseteq stale'
  BY Zenon, <1>2 DEF UpsertDLQEvent
<1>3. ASSUME NEW w \in Workers, ClaimStep(w)
      PROVE  shared \subseteq shared' /\ stale \subseteq stale'
  <2>1. ASSUME NEW b, Given(w, b)
        PROVE  shared \subseteq shared'
    BY Zenon, <2>1 DEF Given
  <2>2. QED
    BY Zenon, <1>3, <2>1 DEF ClaimStep, ClaimPostgres, ClaimMongoStart,
       ClaimMongoOne, history
<1>4. ASSUME NEW w \in Workers, MarkStep(w) \/ BackendCrash(w)
      PROVE  UNCHANGED history
  BY Zenon, <1>4 DEF MarkStep, IncrementRetryCount, IncrementMatchesNothing,
     Finalize, FinalizeErrs, BackendCrash, history
<1>5. QED
  BY Zenon, <1>1, <1>2, <1>3, <1>4 DEF NextBackend, PurgeStatement, allVars

\* The upsert is PublishToDLQ.
LEMMA UpsertImplements ==
  ASSUME BackendInv, NEW e \in Events, UpsertDLQEvent(e), stale' = {}
  PROVE  Contract!PublishToDLQ(e)
<1>1. TypeOK /\ marking' = marking
  BY Zenon DEF BackendInv, TypeOKBackend, UpsertDLQEvent, backendVars
<1>2. \A f \in Events : Marked(f)' <=> Marked(f)
  BY Zenon, <1>1, MarkedUnchanged
<1>3. CommittedEvents[e].status = events[e].status
  BY Zenon, <1>1, CommittedRecords
<1>4. CASE AppendFailure(e)
  <2>1. CommittedEvents' = CommittedEvents
    BY Zenon, <1>2, <1>4 DEF CommittedEvents, AppendFailure, dlqVars
  <2>2. QED
    BY Zenon, <1>1, <1>3, <1>4, <2>1
    DEF AppendFailure, dlqVars, Contract!PublishToDLQ, Contract!AppendFailure,
        Contract!dlqVars
<1>5. ASSUME NEW at \in 0 .. now, RecordFailure(e, at)
      PROVE  Contract!PublishToDLQ(e)
  <2> DEFINE rec == [status |-> "pending", retryCount |-> 0,
                     nextRetryAt |-> at + RetryDelay, createdAt |-> at]
  <2>1. ~Marked(e)
    BY Zenon, <1>5 DEF RecordFailure, UpsertDLQEvent
  <2>2. /\ events[e].status = "absent"
        /\ events' = [events EXCEPT ![e] = rec]
        /\ claims' = [claims EXCEPT ![e] = 0]
        /\ UNCHANGED <<now, held>>
    BY Zenon, <1>5 DEF RecordFailure
  <2> HIDE DEF rec
  <2>3. CommittedEvents' = [CommittedEvents EXCEPT ![e] = rec]
    BY Zenon, <1>1, <1>2, <2>1, <2>2 DEF CommittedEvents, TypeOK
  <2>4. Contract!RecordFailure(e, at)
    BY Zenon, <1>1, <1>3, <2>2, <2>3 DEF Contract!RecordFailure, rec
  <2>5. QED
    BY Zenon, <2>4 DEF Contract!PublishToDLQ
<1>6. QED
  BY Zenon, <1>4, <1>5 DEF UpsertDLQEvent, PublishToDLQ

\* The delete is PurgeExpiredEvents: it takes the records the contract would.
LEMMA PurgeImplements ==
  ASSUME BackendInv, PurgeStatement
  PROVE  Contract!Purge
<1>1. TypeOK /\ marking' = marking
  BY Zenon DEF BackendInv, TypeOKBackend, PurgeStatement, backendVars
<1>2. \A f \in Events : Marked(f)' <=> Marked(f)
  BY Zenon, <1>1, MarkedUnchanged
<1>3. PICK maxAge \in PurgeAges, at \in 0 .. now : PurgeExpiredEvents(maxAge, at)
  BY Zenon DEF PurgeStatement, Purge
<1> DEFINE purged == {e \in Events : \/ events[e].status \in Terminal
                                     \/ /\ events[e].status # "absent"
                                        /\ events[e].createdAt < at - maxAge}
<1>4. /\ purged # {}
      /\ events' = [e \in Events |-> IF e \in purged THEN NoRecord ELSE events[e]]
      /\ UNCHANGED <<now, held, claims>>
  BY Zenon, <1>3 DEF PurgeExpiredEvents
<1>5. purged = {e \in Events : \/ CommittedEvents[e].status \in Terminal
                               \/ /\ CommittedEvents[e].status # "absent"
                                  /\ CommittedEvents[e].createdAt < at - maxAge}
  BY Zenon, <1>1, CommittedRecords
<1>6. NoRecord.status # "retrying"
  BY Zenon DEF NoRecord
<1> HIDE DEF purged
<1>7. CommittedEvents' = [e \in Events |-> IF e \in purged THEN NoRecord
                                           ELSE CommittedEvents[e]]
  BY Zenon, <1>2, <1>4, <1>6 DEF CommittedEvents
<1>8. Contract!PurgeExpiredEvents(maxAge, at)
  BY Zenon, <1>1, <1>4, <1>5, <1>7
  DEF Contract!PurgeExpiredEvents, Contract!Terminal, Contract!NoRecord,
      Terminal, NoRecord
<1>9. QED
  BY Zenon, <1>8 DEF Contract!Purge

\* A statement that claims a batch is ClaimRetryableEvents with that limit.
LEMMA ClaimImplements ==
  ASSUME BackendInv, Undisturbed, NEW w \in Workers, NEW asOf \in 0 .. now,
         NEW limit \in {1} \cup {ClaimLimit(l) : l \in ClaimLimits},
         NEW b \in Batches(Candidates(asOf), limit), b # {}, Claimed(b),
         held' = [held EXCEPT ![w] = @ \cup b],
         UNCHANGED <<now, marking>>
  PROVE  Contract!Claim(w)
<1>1. TypeOK
  BY Zenon DEF BackendInv, TypeOKBackend
<1>2. \A f \in Events : Marked(f)' <=> Marked(f)
  BY Zenon, MarkedUnchanged
<1>3. b \subseteq Events /\ \A e \in b : events[e].status = "pending" /\ ~Marked(e)
  BY Zenon, MarkedIsClaimed DEF Batches, Candidates
<1>4. CommittedEvents' =
        [e \in Events |-> IF e \in b
                          THEN [CommittedEvents[e] EXCEPT !.status = "retrying"]
                          ELSE CommittedEvents[e]]
  <2> SUFFICES ASSUME NEW e \in Events
               PROVE  CommittedEvents'[e] =
                        IF e \in b
                        THEN [CommittedEvents[e] EXCEPT !.status = "retrying"]
                        ELSE CommittedEvents[e]
    BY Zenon DEF CommittedEvents
  <2>1. CASE e \in b
    BY Zenon, <1>2, <1>3, <2>1 DEF Claimed, CommittedEvents
  <2>2. CASE e \notin b
    <3>1. events'[e] = events[e]
      BY Zenon, <2>2 DEF Claimed
    <3>2. QED
      BY Zenon, <1>2, <2>2, <3>1 DEF CommittedEvents
  <2>3. QED
    BY Zenon, <2>1, <2>2
<1>5. Contract!Claimed(b)
  BY Zenon, <1>4 DEF Contract!Claimed, Claimed
<1>6. b \in Contract!Batches(Contract!Candidates(asOf), limit)
  BY Zenon, <1>1, SameBatches
<1>7. Contract!ClaimRetryableEvents(w, limit, asOf)
  BY Zenon, <1>5, <1>6 DEF Contract!ClaimRetryableEvents
<1>8. QED
  BY Zenon, <1>7 DEF Contract!Claim

\* The contract does not see the first statement of MarkRetried.
LEMMA IncrementImplements ==
  ASSUME BackendInv, Undisturbed, NEW w \in Workers, NEW e \in Events,
         NEW success \in BOOLEAN, IncrementRetryCount(w, e, success)
  PROVE  UNCHANGED Contract!dlqVars
<1>1. /\ TypeOK /\ e \in held[w] /\ marking[w] = Idle
      /\ marking \in [Workers -> {Idle} \cup MarkCall]
      /\ UNCHANGED <<now, held, claims>>
      /\ events[e].status = "retrying"
      /\ events' = [events EXCEPT ![e].retryCount = @ + 1]
  BY Zenon DEF IncrementRetryCount, Free, BackendInv, TypeOKBackend, MarkCall
<1>2. PICK m : m \in MarkCall /\ m.event = e
               /\ marking' = [marking EXCEPT ![w] = m]
  <2>1. PICK at \in 0 .. now :
          marking' = [marking EXCEPT ![w] =
            [event |-> e, success |-> success, at |-> at,
             retryCount |-> events[e].retryCount + 1]]
    BY Zenon DEF IncrementRetryCount
  <2>2. at \in Nat /\ events[e].retryCount + 1 \in Nat
    BY <1>1, DLQAssumption DEF TypeOK, DLQEvent
  <2>3. QED
    BY Zenon, <2>1, <2>2 DEF MarkCall
<1>3. ~Marked(e)
  BY Zenon, <1>1, NobodyElseMarks DEF Marked
<1>4. Marked(e)' /\ \A f \in Events \ {e} : Marked(f)' <=> Marked(f)
  <2>1. /\ marking'[w] = m /\ m # Idle
        /\ \A v \in Workers \ {w} : marking'[v] = marking[v]
    BY Zenon, <1>1, <1>2, CallsNotIdle
  <2>2. QED
    BY Zenon, <1>1, <1>2, <2>1 DEF Marked
<1>5. /\ [events'[e] EXCEPT !.retryCount = @ - 1] = events[e]
      /\ events'[e].status = "retrying"
      /\ \A f \in Events \ {e} : events'[f] = events[f]
  <2> DEFINE r == [events[e] EXCEPT !.retryCount = @ + 1]
  <2>1. events[e] \in DLQEvent
    BY Zenon, <1>1 DEF TypeOK
  <2>2. /\ r \in DLQEvent
        /\ r.status = events[e].status
        /\ r.retryCount = events[e].retryCount + 1
        /\ r.nextRetryAt = events[e].nextRetryAt
        /\ r.createdAt = events[e].createdAt
    BY <2>1 DEF DLQEvent
  <2>3. events' = [events EXCEPT ![e] = r]
    BY Zenon, <1>1
  <2> HIDE DEF r
  <2>4. [r EXCEPT !.retryCount = @ - 1] = events[e]
    BY <2>1, <2>2 DEF DLQEvent
  <2>5. QED
    BY Zenon, <1>1, <2>2, <2>3, <2>4 DEF TypeOK
<1>6. CommittedEvents' = CommittedEvents
  BY Zenon, <1>3, <1>4, <1>5 DEF CommittedEvents
<1>7. QED
  BY Zenon, <1>1, <1>6 DEF Contract!dlqVars

\* If the record has been purged since the first statement, the second one is
\* the MarkRetried that the contract refuses.
LEMMA FinalizeOfPurged ==
  ASSUME BackendInv, Undisturbed, NEW w \in Workers, Finalize(w),
         events[marking[w].event].status = "absent"
  PROVE  \E e \in Events : Contract!Mark(w, e)
<1>0. PICK m, e : m = marking[w] /\ e = m.event
  BY Zenon
<1>1. /\ TypeOK /\ m # Idle
      /\ marking \in [Workers -> {Idle} \cup MarkCall]
      /\ held' = [held EXCEPT ![w] = @ \ {e}]
      /\ marking' = [marking EXCEPT ![w] = Idle]
      /\ UNCHANGED <<now, claims, events>>
  BY Zenon, <1>0 DEF Finalize, Finalized, BackendInv, TypeOKBackend, MarkCall
<1>2. e \in Events /\ e \in held[w] /\ events[e].status = "absent"
  BY Zenon, <1>0, <1>1 DEF MarkCall, BackendInv, MarkingOK
<1>3. \A f \in Events \ {e} : Marked(f)' <=> Marked(f)
  <2>1. marking'[w] = Idle /\ \A v \in Workers \ {w} : marking'[v] = marking[v]
    BY Zenon, <1>1
  <2>2. QED
    BY Zenon, <1>0, <1>1, <2>1 DEF Marked
<1>4. CommittedEvents' = CommittedEvents
  BY Zenon, <1>1, <1>2, <1>3 DEF CommittedEvents
<1>5. CommittedEvents[e].status = "absent"
  BY Zenon, <1>1, <1>2, CommittedRecords
<1>6. Contract!RefuseRetry(e)
  BY Zenon, <1>4, <1>5 DEF Contract!RefuseRetry
<1>7. Contract!MarkRetried(w, e, TRUE)
  BY Zenon, <1>1, <1>2, <1>6 DEF Contract!MarkRetried
<1>8. QED
  BY Zenon, <1>2, <1>7 DEF Contract!Mark

\* A MarkRetried whose first statement matches nothing is one it refuses too.
LEMMA RefusalImplements ==
  ASSUME BackendInv, NEW w \in Workers, NEW e \in Events,
         IncrementMatchesNothing(w, e)
  PROVE  Contract!Mark(w, e)
<1>1. /\ TypeOK /\ e \in held[w] /\ events[e].status # "retrying"
      /\ held' = [held EXCEPT ![w] = @ \ {e}]
      /\ UNCHANGED <<now, events, claims, marking>>
  BY Zenon DEF IncrementMatchesNothing, BackendInv, TypeOKBackend, backendVars
<1>2. CommittedEvents' = CommittedEvents
  BY Zenon, <1>1 DEF CommittedEvents, Marked
<1>3. CommittedEvents[e].status # "retrying"
  BY Zenon, <1>1, CommittedRecords
<1>4. Contract!RefuseRetry(e)
  BY Zenon, <1>2, <1>3 DEF Contract!RefuseRetry
<1>5. Contract!MarkRetried(w, e, TRUE)
  BY Zenon, <1>1, <1>4 DEF Contract!MarkRetried
<1>6. QED
  BY Zenon, <1>5 DEF Contract!Mark

\* The second statement is the contract's MarkRetried: the count it decides by
\* is the one the contract increments to.
LEMMA FinalizeImplements ==
  ASSUME BackendInv, Undisturbed, NEW w \in Workers, Finalize(w),
         events[marking[w].event].status # "absent"
  PROVE  \E e \in Events : Contract!Mark(w, e)
<1>0. PICK m, e : m = marking[w] /\ e = m.event
  BY Zenon
<1>1. /\ TypeOK /\ m # Idle
      /\ marking \in [Workers -> {Idle} \cup MarkCall]
      /\ held' = [held EXCEPT ![w] = @ \ {e}]
      /\ marking' = [marking EXCEPT ![w] = Idle]
      /\ UNCHANGED <<now, claims>>
  BY Zenon, <1>0 DEF Finalize, BackendInv, TypeOKBackend, MarkCall
<1>2. /\ m \in MarkCall /\ e \in Events /\ m.success \in BOOLEAN
      /\ m.at \in Nat /\ m.at <= now
      /\ e \in held[w] /\ m.retryCount = events[e].retryCount
      /\ events[e].status = "retrying"
  BY Zenon, <1>0, <1>1 DEF MarkCall, BackendInv, MarkingOK, Undisturbed
<1>3. Marked(e)
  BY Zenon, <1>0, <1>1 DEF Marked
<1>4. ~Marked(e)' /\ \A f \in Events \ {e} : Marked(f)' <=> Marked(f)
  <2>1. marking'[w] = Idle /\ \A v \in Workers \ {w} : marking'[v] = marking[v]
    BY Zenon, <1>1
  <2>2. \A v \in Workers \ {w} : marking[v] # Idle => marking[v].event # e
    BY Zenon, <1>2, NobodyElseMarks
  <2>3. ASSUME NEW f \in Events \ {e}
        PROVE  Marked(f)' <=> Marked(f)
    BY Zenon, <1>0, <1>1, <2>1 DEF Marked
  <2>4. ~Marked(e)'
    BY Zenon, <2>1, <2>2 DEF Marked
  <2>5. QED
    BY Zenon, <2>3, <2>4
<1>5. PICK delay \in FullJitterBackoff(m.retryCount) :
        events' = [events EXCEPT ![e] =
          [AfterRetry(@, m.success, m.retryCount, m.at + delay)
             EXCEPT !.retryCount = events[e].retryCount]]
  BY Zenon, <1>0, <1>2 DEF Finalize, Finalized
<1> DEFINE rec == events[e]
           before == CommittedEvents[e]
           at == m.at + delay
           after == AfterRetry(rec, m.success, m.retryCount, at)
<1>6. rec \in DLQEvent
  BY Zenon, <1>1, <1>2 DEF TypeOK
<1>7. before = [rec EXCEPT !.retryCount = @ - 1]
  BY Zenon, <1>2, <1>3 DEF CommittedEvents
<1>8. before.retryCount + 1 = m.retryCount /\ before.status = "retrying"
  BY <1>2, <1>6, <1>7 DEF DLQEvent
<1>9. /\ events'[e] = [after EXCEPT !.retryCount = rec.retryCount]
      /\ \A f \in Events \ {e} : events'[f] = events[f]
  BY Zenon, <1>1, <1>2, <1>5 DEF TypeOK
<1>10. events'[e] = AfterRetry(before, m.success, m.retryCount, at)
  <2> HIDE DEF at
  <2>1. [after EXCEPT !.retryCount = rec.retryCount]
          = AfterRetry(before, m.success, m.retryCount, at)
    BY Zenon, <1>2, <1>6, <1>7 DEF AfterRetry, DLQEvent
  <2>2. QED
    BY Zenon, <1>9, <2>1
<1>11. CommittedEvents' = [CommittedEvents EXCEPT ![e] =
         AfterRetry(before, m.success, before.retryCount + 1, at)]
  <2> DEFINE r == AfterRetry(before, m.success, before.retryCount + 1, at)
  <2>1. events'[e] = r
    BY Zenon, <1>8, <1>10
  <2> HIDE DEF r
  <2>2. CommittedEvents' =
          [f \in Events |-> IF f = e THEN r ELSE CommittedEvents[f]]
    BY Zenon, <1>4, <1>9, <2>1 DEF CommittedEvents
  <2>3. CommittedEvents' = [CommittedEvents EXCEPT ![e] = r]
    BY Zenon, <1>2, <2>2 DEF CommittedEvents
  <2>4. QED
    BY Zenon, <2>3 DEF r
<1>12. Contract!RecordRetry(e, m.success)
  <2>1. Contract!AfterRetry(before, m.success, before.retryCount + 1, at)
          = AfterRetry(before, m.success, before.retryCount + 1, at)
    BY Zenon DEF Contract!AfterRetry, AfterRetry
  <2>2. delay \in Contract!FullJitterBackoff(before.retryCount + 1)
    BY Zenon, <1>8 DEF Contract!FullJitterBackoff, FullJitterBackoff,
       Contract!BackoffCeiling, BackoffCeiling
  <2>3. m.at \in 0 .. now
    BY SMTT(30), <1>1, <1>2, DLQAssumption DEF TypeOK
  <2>4. QED
    BY Zenon, <1>1, <1>8, <1>11, <2>1, <2>2, <2>3 DEF Contract!RecordRetry
<1>13. Contract!MarkRetried(w, e, m.success)
  BY Zenon, <1>1, <1>2, <1>12 DEF Contract!MarkRetried
<1>14. QED
  BY Zenon, <1>2, <1>13 DEF Contract!Mark

(***************************************************************************)
(* With no crash and no failed statement, the Postgres and Mongo handlers  *)
(* implement DLQHandler: whatever the workers, however their statements    *)
(* interleave and whatever is purged in between, every statement is one of *)
(* the contract's operations, or is not seen by it.  This ends only when   *)
(* an event comes to be in two workers' hands, or is published anew under  *)
(* a MarkRetried of its purged record.                                     *)
(***************************************************************************)
THEOREM BackendsImplementContract == SpecBackend => ImplementsContract
<1>1. InitBackend => Contract!Init
  <2> SUFFICES ASSUME InitBackend
               PROVE  Contract!Init
    BY Zenon
  <2>1. CommittedEvents = [e \in Events |-> NoRecord]
    BY Zenon DEF InitBackend, Init, CommittedEvents, Marked
  <2>2. QED
    BY Zenon, <2>1 DEF InitBackend, Init, Contract!Init, Contract!NoRecord,
       NoRecord
<1>2. BackendInv /\ [NextBackend]_allVars =>
        [~faulty /\ shared' = {} /\ stale' = {} => Contract!Next]_(Contract!dlqVars)
  <2> SUFFICES ASSUME BackendInv, [NextBackend]_allVars,
                      ~faulty, shared' = {}, stale' = {}
               PROVE  Contract!Next \/ UNCHANGED Contract!dlqVars
    BY Zenon
  <2>0. Undisturbed
    <3>1. shared \subseteq shared' /\ stale \subseteq stale'
      BY Zenon, HistoryGrows
    <3>2. QED
      BY Zenon, <3>1 DEF Undisturbed
  <2>1. ASSUME UNCHANGED <<now, events, held, claims, marking>>
        PROVE  UNCHANGED Contract!dlqVars
    <3>1. CommittedEvents' = CommittedEvents
      BY Zenon, <2>1 DEF CommittedEvents, Marked
    <3>2. QED
      BY Zenon, <2>1, <3>1 DEF Contract!dlqVars
  <2>2. CASE UNCHANGED allVars
    BY Zenon, <2>1, <2>2 DEF allVars, backendVars
  <2>3. ASSUME NEW e \in Events, UpsertDLQEvent(e)
        PROVE  Contract!Next
    BY Zenon, <2>3, UpsertImplements DEF Contract!Next
  <2>4. CASE PurgeStatement
    BY Zenon, <2>4, PurgeImplements DEF Contract!Next
  <2>5. CASE Tick /\ UNCHANGED <<backendVars, history>>
    <3>1. CommittedEvents' = CommittedEvents
      BY Zenon, <2>5 DEF Tick, backendVars, CommittedEvents, Marked
    <3>2. QED
      BY Zenon, <2>5, <3>1 DEF Tick, Contract!Next, Contract!Tick
  <2>6. ASSUME NEW w \in Workers, ClaimStep(w)
        PROVE  Contract!Next \/ UNCHANGED Contract!dlqVars
    <3>1. ASSUME NEW limit \in ClaimLimits, NEW asOf \in 0 .. now,
                 ClaimPostgres(w, limit, asOf)
          PROVE  Contract!Claim(w)
      BY Zenon, <2>0, <3>1, ClaimImplements
      DEF ClaimPostgres, Given, backendVars, Undisturbed
    <3>2. CASE ClaimMongoOne(w)
      <4>1. claiming[w].asOf \in 0 .. now
        BY <3>2, DLQAssumption DEF ClaimMongoOne, BackendInv, TypeOKBackend,
           TypeOK, ClaimingOK
      <4>2. ASSUME NEW b \in Batches(Candidates(claiming[w].asOf), 1), b # {},
                   Claimed(b), held' = [held EXCEPT ![w] = @ \cup b],
                   UNCHANGED <<now, marking>>
            PROVE  Contract!Claim(w)
        BY Zenon, <2>0, <4>1, <4>2, ClaimImplements
      <4>3. QED
        BY Zenon, <2>0, <2>1, <3>2, <4>2
        DEF ClaimMongoOne, Given, Contract!Next, Undisturbed
    <3>3. QED
      BY Zenon, <2>1, <2>6, <3>1, <3>2 DEF ClaimStep, ClaimMongoStart, dlqVars,
         Contract!Next
  <2>7. ASSUME NEW w \in Workers, MarkStep(w)
        PROVE  Contract!Next \/ UNCHANGED Contract!dlqVars
    <3>1. ASSUME NEW e \in Events, IncrementMatchesNothing(w, e)
          PROVE  Contract!Next
      BY Zenon, <3>1, RefusalImplements DEF Contract!Next
    <3>2. ASSUME NEW e \in Events, NEW success \in BOOLEAN,
                 IncrementRetryCount(w, e, success)
          PROVE  UNCHANGED Contract!dlqVars
      BY Zenon, <2>0, <3>2, IncrementImplements
    <3>3. CASE Finalize(w)
      BY Zenon, <2>0, <3>3, FinalizeOfPurged, FinalizeImplements
      DEF Contract!Next
    <3>4. QED
      BY Zenon, <2>7, <3>1, <3>2, <3>3 DEF MarkStep, FinalizeErrs
  <2>8. QED
    BY Zenon, <2>2, <2>3, <2>4, <2>5, <2>6, <2>7 DEF NextBackend, BackendCrash
<1>3. QED
  BY <1>1, <1>2, BackendInvHolds, PTL DEF SpecBackend, ImplementsContract
=============================================================================
