----------------------------- MODULE DLQHandler -----------------------------
(***************************************************************************)
(* The dead-letter queue as DLQHandler (interfaces.go) describes it and    *)
(* memoryDLQHandler (memory.go) implements it: every operation is one step *)
(* under one mutex.  DLQBackend, the Postgres and Mongo handlers, extends  *)
(* this module and is compared with it.                                    *)
(*                                                                         *)
(* The package has no retry worker; the application runs them.  A worker   *)
(* is modelled by what it must remember: the events ClaimRetryableEvents   *)
(* returned to it and it has not yet passed to MarkRetried.                *)
(*                                                                         *)
(* An operation reads the clock before it takes the mutex, so the time it  *)
(* works with may be any time up to now.  FailureReason, AttemptHistory    *)
(* and the timestamps nothing compares are left out.                       *)
(***************************************************************************)
EXTENDS Integers, FiniteSets

CONSTANTS
  Events, Workers,
  MaxRetries,      \* config.maxRetries, after NewMemoryDLQHandler's default
  RetryDelay,      \* config.retryDelay, in clock ticks
  MaxRetryDelay,   \* config.maxRetryDelay, after FullJitterBackoff's default
  ClaimLimits,     \* the limits workers pass to ClaimRetryableEvents
  PurgeAges,       \* the maxAge values passed to PurgeExpiredEvents
  Crashes,         \* whether a worker may crash
  MaxTime          \* bound: the last tick of the clock

ASSUME DLQAssumption ==
  /\ MaxRetries \in Nat \ {0}
  /\ RetryDelay \in Nat
  /\ MaxRetryDelay \in Nat \ {0}
  /\ ClaimLimits \subseteq Int
  /\ PurgeAges \subseteq Nat
  /\ Crashes \in BOOLEAN
  /\ MaxTime \in Nat
  /\ IsFiniteSet(Events)

VARIABLES
  now,
  events,    \* h.events; status "absent" stands for no entry
  held,      \* per worker: claimed and not yet passed to MarkRetried
  claims     \* per event: times its present record has been claimed

dlqVars == <<now, events, held, claims>>

Statuses == {"absent", "pending", "retrying", "exhausted", "resolved"}
Terminal == {"exhausted", "resolved"}

DLQEvent == [status : Statuses, retryCount : Nat, nextRetryAt : Nat,
             createdAt : Nat]

NoRecord ==
  [status |-> "absent", retryCount |-> 0, nextRetryAt |-> 0, createdAt |-> 0]

\* The largest delay FullJitterBackoff may draw.
BackoffCeiling(attempt) ==
  IF RetryDelay = 0 THEN 0
  ELSE LET scaled == RetryDelay * 2^attempt
       IN  IF scaled < MaxRetryDelay THEN scaled ELSE MaxRetryDelay

FullJitterBackoff(attempt) == 0 .. BackoffCeiling(attempt)

Init ==
  /\ now = 0
  /\ events = [e \in Events |-> NoRecord]
  /\ held = [w \in Workers |-> {}]
  /\ claims = [e \in Events |-> 0]

-----------------------------------------------------------------------------
(* PublishToDLQ *)

RecordFailure(e, at) ==
  /\ events[e].status = "absent"
  /\ events' = [events EXCEPT ![e] =
       [status |-> "pending", retryCount |-> 0,
        nextRetryAt |-> at + RetryDelay, createdAt |-> at]]
  /\ claims' = [claims EXCEPT ![e] = 0]
  /\ UNCHANGED <<now, held>>

\* Whatever the status of the record, only its reason, times and history
\* change: a record that is exhausted or resolved stays so.
AppendFailure(e) ==
  /\ events[e].status # "absent"
  /\ UNCHANGED dlqVars

PublishToDLQ(e) ==
  \/ \E at \in 0 .. now : RecordFailure(e, at)
  \/ AppendFailure(e)

-----------------------------------------------------------------------------
(* ClaimRetryableEvents *)

\* Mutant: a claim also takes what another worker is already retrying.
CandidatesRetrying(asOf) ==
  {e \in Events : /\ events[e].status \in {"pending", "retrying"}
                  /\ events[e].nextRetryAt <= asOf}

\* Mutant: an event is due only after its NextRetryAt.
CandidatesOverdue(asOf) ==
  {e \in Events : /\ events[e].status = "pending"
                  /\ events[e].nextRetryAt < asOf}

Candidates(asOf) ==
  {e \in Events : /\ events[e].status = "pending"
                  /\ events[e].nextRetryAt <= asOf}

\* The first limit candidates in the order of NextRetryAt, ties in any order.
Batches(candidates, limit) ==
  {b \in SUBSET candidates :
     /\ IF limit > 0 /\ Cardinality(candidates) > limit
        THEN Cardinality(b) = limit
        ELSE b = candidates
     /\ \A e \in b, f \in candidates \ b :
          events[e].nextRetryAt <= events[f].nextRetryAt}

Claimed(b) ==
  /\ events' = [e \in Events |->
       IF e \in b THEN [events[e] EXCEPT !.status = "retrying"] ELSE events[e]]
  /\ claims' = [e \in Events |-> IF e \in b THEN claims[e] + 1 ELSE claims[e]]

ClaimRetryableEvents(w, limit, asOf) ==
  \E b \in Batches(Candidates(asOf), limit) :
    /\ b # {}
    /\ Claimed(b)
    /\ held' = [held EXCEPT ![w] = @ \cup b]
    /\ UNCHANGED now

-----------------------------------------------------------------------------
(* MarkRetried *)

\* Mutant: the event goes round once more.
AfterRetryOffByOne(rec, success, count, nextRetryAt) ==
  IF success
    THEN [rec EXCEPT !.status = "resolved", !.retryCount = count]
  ELSE IF count > MaxRetries
    THEN [rec EXCEPT !.status = "exhausted", !.retryCount = count]
  ELSE [rec EXCEPT !.status = "pending", !.retryCount = count,
                   !.nextRetryAt = nextRetryAt]

\* The record after a retry, count being the incremented RetryCount.
AfterRetry(rec, success, count, nextRetryAt) ==
  IF success
    THEN [rec EXCEPT !.status = "resolved", !.retryCount = count]
  ELSE IF count >= MaxRetries
    THEN [rec EXCEPT !.status = "exhausted", !.retryCount = count]
  ELSE [rec EXCEPT !.status = "pending", !.retryCount = count,
                   !.nextRetryAt = nextRetryAt]

RecordRetry(e, success) ==
  /\ events[e].status = "retrying"
  /\ \E at \in 0 .. now :
     \E delay \in FullJitterBackoff(events[e].retryCount + 1) :
       events' = [events EXCEPT ![e] =
         AfterRetry(@, success, @.retryCount + 1, at + delay)]

\* ErrDLQEventNotFound or ErrDLQEventNotClaimed: nothing is written.
RefuseRetry(e) ==
  /\ events[e].status # "retrying"
  /\ UNCHANGED events

MarkRetried(w, e, success) ==
  /\ e \in held[w]
  /\ RecordRetry(e, success) \/ RefuseRetry(e)
  /\ held' = [held EXCEPT ![w] = @ \ {e}]
  /\ UNCHANGED <<now, claims>>

-----------------------------------------------------------------------------
PurgeExpiredEvents(maxAge, at) ==
  LET purged == {e \in Events : \/ events[e].status \in Terminal
                                \/ /\ events[e].status # "absent"
                                   /\ events[e].createdAt < at - maxAge}
  IN  /\ purged # {}
      /\ events' = [e \in Events |-> IF e \in purged THEN NoRecord
                                                     ELSE events[e]]
      /\ UNCHANGED <<now, held, claims>>

\* Environment: a worker forgets its claims; time passes.
WorkerCrash(w) ==
  /\ Crashes
  /\ held[w] # {}
  /\ held' = [held EXCEPT ![w] = {}]
  /\ UNCHANGED <<now, events, claims>>

Tick ==
  /\ now < MaxTime
  /\ now' = now + 1
  /\ UNCHANGED <<events, held, claims>>

Claim(w) == \E limit \in ClaimLimits, asOf \in 0 .. now :
              ClaimRetryableEvents(w, limit, asOf)
Mark(w, e) == \E success \in BOOLEAN : MarkRetried(w, e, success)
Purge == \E maxAge \in PurgeAges, at \in 0 .. now :
           PurgeExpiredEvents(maxAge, at)

Next ==
  \/ \E e \in Events : PublishToDLQ(e)
  \/ \E w \in Workers : Claim(w)
  \/ \E w \in Workers, e \in Events : Mark(w, e)
  \/ Purge
  \/ \E w \in Workers : WorkerCrash(w)
  \/ Tick

Spec == Init /\ [][Next]_dlqVars
FairSpec ==
  /\ Spec
  /\ \A w \in Workers : WF_dlqVars(Claim(w))
  /\ \A w \in Workers, e \in Events : WF_dlqVars(Mark(w, e))
  /\ WF_dlqVars(Tick)

-----------------------------------------------------------------------------
TypeOK ==
  /\ now \in 0 .. MaxTime
  /\ events \in [Events -> DLQEvent]
  /\ held \in [Workers -> SUBSET Events]
  /\ claims \in [Events -> Nat]

\* The claim ClaimRetryableEvents promises: while a worker has an event in
\* hand its record says "retrying" and no other worker has the event.
\* PurgeExpiredEvents with a maxAge that live claims outlast breaks it.
ClaimExclusive ==
  \A w \in Workers : \A e \in held[w] :
    /\ events[e].status = "retrying"
    /\ \A v \in Workers \ {w} : e \notin held[v]

\* RetryCount counts the attempts: a record has been claimed exactly once
\* per counted retry, and once more while it is being retried; it is retried
\* at most MaxRetries times, and given up only after all of them.
RetryAccounting ==
  \A e \in Events :
    LET rec == events[e]
    IN  /\ rec.status \in {"pending", "exhausted", "resolved"} =>
             claims[e] = rec.retryCount
        /\ rec.status = "retrying" => claims[e] = rec.retryCount + 1
        /\ rec.status \in {"pending", "retrying"} =>
             rec.retryCount < MaxRetries
        /\ rec.status = "exhausted" => rec.retryCount = MaxRetries
        /\ rec.retryCount <= MaxRetries

\* A retry that has been counted out or has succeeded is never reopened: a
\* terminal record stays as it is until PurgeExpiredEvents removes it.  For this
\* implementations of MarkRetried "must scope their update to the claimed state
\* rather than unconditionally overwriting" (interfaces.go:231-233).
TerminalIsFinal ==
  [][\A e \in Events :
       events[e].status \in Terminal =>
         events'[e] = events[e] \/ events'[e] = NoRecord]_dlqVars

\* A record that no worker will report on: its claimant crashed.
Stranded(e) ==
  events[e].status = "retrying" /\ \A w \in Workers : e \notin held[w]

\* No failure of an event without a record is published.
NoNewRecord ==
  \A e \in Events : events[e].status = "absent" => events'[e].status = "absent"

\* Every recorded failure is settled: with workers that keep polling and
\* report every event they claim, and once new failures stop coming in, no
\* record stays pending for ever, and none retrying but those whose claimant
\* crashed, for which nothing in the package looks.  (Retries due after the
\* clock's bound are not waited for.)
FailuresSettle ==
  <>[][NoNewRecord]_dlqVars =>
    \A e \in Events :
      (events[e].status = "pending" /\ events[e].nextRetryAt <= MaxTime) ~>
        \/ events[e].status \notin {"pending", "retrying"}
        \/ events[e].nextRetryAt > MaxTime
        \/ Stranded(e)
=============================================================================
