----------------------------- MODULE DLQBackend -----------------------------
(***************************************************************************)
(* The DLQ handlers over a database: dlq.postgres.go, with its statements  *)
(* in internal/postgresdb/queries/dlq.sql, and dlq.mongo.go.  A statement  *)
(* is one step; an operation of several statements is several steps, and   *)
(* other processes run between them:                                       *)
(*                                                                         *)
(*   MarkRetried           increments the count where the status is        *)
(*                         "retrying", then finalizes the record by its    *)
(*                         event id alone;                                 *)
(*   ClaimRetryableEvents  is one UPDATE in Postgres, and in Mongo one     *)
(*                         FindOneAndUpdate per event.                     *)
(*                                                                         *)
(* PublishToDLQ (an upsert) and PurgeExpiredEvents (a delete) are single   *)
(* statements with the effect they have in DLQHandler.                     *)
(***************************************************************************)
EXTENDS DLQHandler

CONSTANTS
  Backends,  \* the databases examined, among "postgres" and "mongo"
  MaxCount   \* bound: finalizes are only seen to fail below this count

ASSUME BackendAssumption ==
  /\ Backends \subseteq {"postgres", "mongo"}
  /\ MaxCount \in Nat
  /\ IsFiniteSet(Workers)

VARIABLES
  backend,   \* the database behind the handlers
  faulty,    \* there are crashes, failed statements and lost replies
  claiming,  \* per worker: a Mongo claim under way, [left, asOf], or Idle
  marking,   \* per worker: MarkRetried between its statements, or Idle
  shared,    \* history: the events two workers have had in hand at a time
  stale      \* history: the events published anew while MarkRetried of their
             \* purged record was between its statements

backendVars == <<backend, faulty, claiming, marking>>
history == <<shared, stale>>
allVars == <<now, events, held, claims, backendVars, history>>

Idle == [idle |-> TRUE]

InitBackend ==
  /\ Init
  /\ backend \in Backends
  /\ faulty \in BOOLEAN
  /\ claiming = [w \in Workers |-> Idle]
  /\ marking = [w \in Workers |-> Idle]
  /\ shared = {} /\ stale = {}

\* A worker runs one operation at a time.
Free(w) == claiming[w] = Idle /\ marking[w] = Idle

\* MarkRetried of the event is between its statements.
Marked(e) == \E w \in Workers : marking[w] # Idle /\ marking[w].event = e

UpsertDLQEvent(e) ==
  /\ PublishToDLQ(e)
  /\ stale' = IF events[e].status = "absent" /\ Marked(e) THEN stale \cup {e}
                                                          ELSE stale
  /\ UNCHANGED <<backendVars, shared>>

\* The delete asks for the status and the age of a record, never for who has
\* it in hand or in MarkRetried.
PurgeStatement == Purge /\ UNCHANGED <<backendVars, history>>

-----------------------------------------------------------------------------
(* ClaimRetryableEvents.  A limit of 0 or less means 10. *)

ClaimLimit(limit) == IF limit <= 0 THEN 10 ELSE limit

\* The reply reaches the worker: it has the events of b in hand.
Given(w, b) ==
  /\ held' = [held EXCEPT ![w] = @ \cup b]
  /\ shared' = shared \cup {e \in b : \E v \in Workers \ {w} : e \in held[v]}

\* UPDATE ... WHERE event_id IN (SELECT ... FOR UPDATE SKIP LOCKED).  On an
\* error, and on a row that does not decode, the caller gets no event.
ClaimPostgres(w, limit, asOf) ==
  /\ backend = "postgres"
  /\ Free(w)
  /\ \E b \in Batches(Candidates(asOf), ClaimLimit(limit)) :
       /\ b # {}
       /\ Claimed(b)
       /\ \/ Given(w, b)
          \/ faulty /\ UNCHANGED <<held, shared>>
  /\ UNCHANGED <<now, backendVars, stale>>

ClaimMongoStart(w, limit, asOf) ==
  /\ backend = "mongo"
  /\ Free(w)
  /\ Candidates(asOf) # {}
  /\ claiming' = [claiming EXCEPT ![w] =
                    [left |-> ClaimLimit(limit), asOf |-> asOf]]
  /\ UNCHANGED <<dlqVars, marking, backend, faulty, history>>

\* One iteration.  It ends the loop when it was the last or found nothing,
\* and on an error, when the events claimed before it are still returned.
ClaimMongoOne(w) ==
  /\ claiming[w] # Idle
  /\ LET call == claiming[w]
         next == IF call.left = 1 THEN Idle
                 ELSE [call EXCEPT !.left = @ - 1]
     IN  \/ /\ Candidates(call.asOf) = {}
            /\ claiming' = [claiming EXCEPT ![w] = Idle]
            /\ UNCHANGED <<events, held, claims, shared>>
         \/ \E b \in Batches(Candidates(call.asOf), 1) :
              /\ b # {}
              /\ Claimed(b)
              /\ \/ /\ Given(w, b)
                    /\ claiming' = [claiming EXCEPT ![w] = next]
                 \/ /\ faulty
                    /\ UNCHANGED <<held, shared>>
                    /\ claiming' = [claiming EXCEPT ![w] = Idle]
  /\ UNCHANGED <<now, marking, backend, faulty, stale>>

-----------------------------------------------------------------------------
(* MarkRetried *)

\* Mutant: the increment is not scoped to the claimed state.
IncrementRetryCountUnscoped(w, e, success) ==
  /\ Free(w)
  /\ e \in held[w]
  /\ events[e].status # "absent"
  /\ events' = [events EXCEPT ![e].retryCount = @ + 1]
  /\ \E at \in 0 .. now :
       marking' = [marking EXCEPT ![w] =
         [event |-> e, success |-> success, at |-> at,
          retryCount |-> events[e].retryCount + 1]]
  /\ UNCHANGED <<now, held, claims, claiming, backend, faulty, history>>

\* Step 1: WHERE event_id = $1 AND status = 'retrying'.
IncrementRetryCount(w, e, success) ==
  /\ Free(w)
  /\ e \in held[w]
  /\ events[e].status = "retrying"
  /\ events' = [events EXCEPT ![e].retryCount = @ + 1]
  /\ \E at \in 0 .. now :
       marking' = [marking EXCEPT ![w] =
         [event |-> e, success |-> success, at |-> at,
          retryCount |-> events[e].retryCount + 1]]
  /\ UNCHANGED <<now, held, claims, claiming, backend, faulty, history>>

\* Step 1 matched nothing: ErrDLQEventNotFound or ErrDLQEventNotClaimed.
IncrementMatchesNothing(w, e) ==
  /\ Free(w)
  /\ e \in held[w]
  /\ events[e].status # "retrying"
  /\ held' = [held EXCEPT ![w] = @ \ {e}]
  /\ UNCHANGED <<now, events, claims, backendVars, history>>

\* Mutant: a finalize that always puts the event back.
FinalizedPending(m) ==
  IF events[m.event].status = "absent" THEN UNCHANGED events
  ELSE \E delay \in FullJitterBackoff(m.retryCount) :
         events' = [events EXCEPT ![m.event].status = "pending",
                                  ![m.event].nextRetryAt = m.at + delay]

\* Step 2: WHERE event_id = $1.  Nothing happens if the record is gone.  The
\* switch uses the count step 1 returned; the record keeps the count it has.
Finalized(m) ==
  IF events[m.event].status = "absent" THEN UNCHANGED events
  ELSE \E delay \in FullJitterBackoff(m.retryCount) :
         events' = [events EXCEPT ![m.event] =
           [AfterRetry(@, m.success, m.retryCount, m.at + delay)
              EXCEPT !.retryCount = events[m.event].retryCount]]

Finalize(w) ==
  /\ marking[w] # Idle
  /\ Finalized(marking[w])
  /\ held' = [held EXCEPT ![w] = @ \ {marking[w].event}]
  /\ marking' = [marking EXCEPT ![w] = Idle]
  /\ UNCHANGED <<now, claims, claiming, backend, faulty, history>>

\* The statement fails, or its reply is lost: MarkRetried returns an error.
\* The worker may keep the event in hand, to call MarkRetried again, or give
\* it up.
FinalizeErrs(w) ==
  /\ marking[w] # Idle
  /\ faulty /\ marking[w].retryCount < MaxCount
  /\ UNCHANGED events \/ Finalized(marking[w])
  /\ \/ UNCHANGED held
     \/ held' = [held EXCEPT ![w] = @ \ {marking[w].event}]
  /\ marking' = [marking EXCEPT ![w] = Idle]
  /\ UNCHANGED <<now, claims, claiming, backend, faulty, history>>

\* A crash loses the worker's operation with its claims.
BackendCrash(w) ==
  /\ faulty
  /\ WorkerCrash(w)
  /\ claiming' = [claiming EXCEPT ![w] = Idle]
  /\ marking' = [marking EXCEPT ![w] = Idle]
  /\ UNCHANGED <<backend, faulty, history>>

ClaimStep(w) ==
  \/ \E limit \in ClaimLimits, asOf \in 0 .. now :
       ClaimPostgres(w, limit, asOf) \/ ClaimMongoStart(w, limit, asOf)
  \/ ClaimMongoOne(w)

MarkStep(w) ==
  \/ \E e \in Events, success \in BOOLEAN : IncrementRetryCount(w, e, success)
  \/ \E e \in Events : IncrementMatchesNothing(w, e)
  \/ Finalize(w)
  \/ FinalizeErrs(w)

NextBackend ==
  \/ \E e \in Events : UpsertDLQEvent(e)
  \/ \E w \in Workers : ClaimStep(w) \/ MarkStep(w) \/ BackendCrash(w)
  \/ PurgeStatement
  \/ Tick /\ UNCHANGED <<backendVars, history>>

SpecBackend == InitBackend /\ [][NextBackend]_allVars
-----------------------------------------------------------------------------
\* MarkRetried takes effect with its second statement: until then the record
\* still has the count it had.
CommittedEvents ==
  [e \in Events |-> IF Marked(e) /\ events[e].status = "retrying"
                    THEN [events[e] EXCEPT !.retryCount = @ - 1]
                    ELSE events[e]]

\* The contract's callers ask for what the statements ask for: a limit of 0 or
\* less, which is no limit in memory, is 10 here, and Mongo claims one event at
\* a time.
Contract == INSTANCE DLQHandler WITH
  ClaimLimits <- {1} \cup {ClaimLimit(limit) : limit \in ClaimLimits},
  Crashes <- FALSE,
  events <- CommittedEvents

\* While no worker crashes and no statement fails, the statements of the
\* Postgres and Mongo handlers, interleaved in any way, purges of records in
\* hand included, do what the one-step operations of DLQHandler may do, up to
\* the moment when an event is in two workers' hands, or is published anew
\* with a MarkRetried of its purged record still to finalize: the finalize by
\* event id alone writes what the contract's MarkRetried would refuse to.
ImplementsContract ==
  /\ Contract!Init
  /\ [][~faulty /\ shared' = {} /\ stale' = {} => Contract!Next]_(Contract!dlqVars)

TypeOKBackend ==
  /\ TypeOK
  /\ backend \in Backends /\ faulty \in BOOLEAN
  /\ claiming \in [Workers -> {Idle} \cup [left : Nat \ {0}, asOf : Nat]]
  /\ marking \in [Workers -> {Idle} \cup [event : Events, success : BOOLEAN,
                                          at : Nat, retryCount : Nat]]
  /\ shared \subseteq Events /\ stale \subseteq Events

\* Crashes between the statements of MarkRetried, statements that fail or whose
\* reply is lost, and two workers that report on one claim may count an attempt
\* twice, strand a record in "retrying" or reopen it, but they never buy an
\* event an extra attempt: its record is handed out at most MaxRetries times.
\* The exception is a record published while MarkRetried of a purged one of the
\* same event was between its statements: the late finalize puts it back
\* without having counted.
AttemptsBounded ==
  \A e \in Events \ stale :
    events[e].status # "absent" =>
      /\ claims[e] <= MaxRetries
      /\ claims[e] <= events[e].retryCount + 1

\* A resolved or exhausted record is reopened only if its event has been in two
\* workers' hands at a time.  One worker reopens none, whatever crashes, fails,
\* is lost or is purged between the statements, and whatever it calls again:
\* the scope of the increment protects the finalize, which has none.
ReopenedOnlyIfShared ==
  [][\A e \in Events \ shared :
       events[e].status \in Terminal =>
         events'[e] = events[e] \/ events'[e] = NoRecord]_dlqVars
=============================================================================
