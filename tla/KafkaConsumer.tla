--------------------------- MODULE KafkaConsumer ----------------------------
(***************************************************************************)
(* kafkaEventConsumer (consumer.kafka.go) reading one partition, with      *)
(* NotificationService.Submit (service.go) as its handler.  Without        *)
(* backpressure Submit runs the pipeline on the consumer's goroutine and   *)
(* returns its error; with backpressure it queues the event for the worker *)
(* pool (workerpool.go), whose workers only log what the pipeline returns. *)
(*                                                                         *)
(* The broker and sarama are modelled from how the code uses them: a       *)
(* session starts at the committed offset; MarkMessage raises a per-       *)
(* session high-water mark, so marking a message also covers every message *)
(* before it; the mark is committed from time to time and when a session   *)
(* ends, and is lost in a crash.                                           *)
(***************************************************************************)
EXTENDS Integers, Sequences, FiniteSets

CONSTANTS
  LogLen,        \* offsets 0 .. LogLen - 1 have been produced
  Poison,        \* the offsets whose value does not decode as an Event
  MayFail,       \* the offsets for which the pipeline may return an error
  Backpressure,  \* the values of EnableBackpressure examined
  PoolQueueSize, \* WorkerPoolConfig.QueueSize
  PoolWorkers,   \* WorkerPoolConfig.Workers
  MaxRestarts    \* bound: sessions ended and crashes, taken together

Offsets == 0 .. LogLen - 1

ASSUME KafkaAssumption ==
  /\ LogLen \in Nat
  /\ Poison \subseteq Offsets
  /\ MayFail \subseteq Offsets
  /\ Backpressure \subseteq BOOLEAN
  /\ PoolQueueSize \in Nat \ {0}
  /\ PoolWorkers \in Nat \ {0}
  /\ MaxRestarts \in Nat

VARIABLES
  pooled,     \* ServiceConfig.EnableBackpressure
  session,    \* whether ConsumeClaim is running
  pos,        \* the offset claim.Messages() yields next
  inHand,     \* the offset ConsumeClaim is working on, or None
  marked,     \* the session's high-water mark: the offset after it
  committed,  \* the offset the group restarts from
  queued,     \* what is in the worker pool's queue
  working,    \* per pool worker: the offset it is processing, or None
  attempted,  \* the offsets decoded, or found not to decode, at least once
  processed,  \* the offsets whose pipeline has returned nil at least once
  restarts

kafkaVars == <<pooled, session, pos, inHand, marked, committed, queued,
               working, attempted, processed, restarts>>

None == -1

InitKafka ==
  /\ pooled \in Backpressure
  /\ session = FALSE
  /\ pos = 0
  /\ inHand = None
  /\ marked = 0
  /\ committed = 0
  /\ queued = <<>>
  /\ working = [w \in 1 .. PoolWorkers |-> None]
  /\ attempted = {}
  /\ processed = {}
  /\ restarts = 0

-----------------------------------------------------------------------------
(* ConsumeClaim *)

\* Mutant: a message is marked before it is handled.
FetchMarking ==
  /\ session
  /\ inHand = None
  /\ pos < LogLen
  /\ inHand' = pos
  /\ pos' = pos + 1
  /\ marked' = pos + 1
  /\ UNCHANGED <<pooled, session, committed, queued, working, attempted,
                 processed, restarts>>

Fetch ==
  /\ session
  /\ inHand = None
  /\ pos < LogLen
  /\ inHand' = pos
  /\ pos' = pos + 1
  /\ UNCHANGED <<pooled, session, marked, committed, queued, working,
                 attempted, processed, restarts>>

\* Mutant: one message too many is marked.
MarkMessageFar == marked' = inHand + 2

\* sarama: a mark is raised, never lowered.
MarkMessage == marked' = IF marked < inHand + 1 THEN inHand + 1 ELSE marked

\* The message in hand is done with, marked or not.
Done(marks) ==
  /\ IF marks THEN MarkMessage ELSE UNCHANGED marked
  /\ inHand' = None
  /\ attempted' = attempted \cup {inHand}
  /\ UNCHANGED <<pooled, session, pos, committed, restarts>>

\* Mutant: a message that does not decode is read again.
DecodeFailsRetrying ==
  /\ inHand \in Poison
  /\ inHand' = None
  /\ pos' = inHand
  /\ UNCHANGED <<pooled, session, marked, committed, queued, working,
                 attempted, processed, restarts>>

\* A poison message is marked so that it does not block the partition.
DecodeFails ==
  /\ inHand \in Poison
  /\ Done(TRUE)
  /\ UNCHANGED <<queued, working, processed>>

\* Submit without backpressure: the pipeline's result is the handler's.
HandlerSucceeds ==
  /\ inHand \in Offsets \ Poison
  /\ ~pooled
  /\ Done(TRUE)
  /\ processed' = processed \cup {inHand}
  /\ UNCHANGED <<queued, working>>

HandlerFails ==
  /\ inHand \in MayFail \ Poison
  /\ ~pooled
  /\ Done(FALSE)
  /\ UNCHANGED <<queued, working, processed>>

\* Submit with backpressure.
HandlerEnqueues ==
  /\ inHand \in Offsets \ Poison
  /\ pooled
  /\ Len(queued) < PoolQueueSize
  /\ Done(TRUE)
  /\ queued' = Append(queued, inHand)
  /\ UNCHANGED <<working, processed>>

HandlerRefused ==
  /\ inHand \in Offsets \ Poison
  /\ pooled
  /\ Len(queued) = PoolQueueSize
  /\ Done(FALSE)
  /\ UNCHANGED <<queued, working, processed>>

ConsumeClaim ==
  \/ DecodeFails
  \/ HandlerSucceeds
  \/ HandlerFails
  \/ HandlerEnqueues
  \/ HandlerRefused

-----------------------------------------------------------------------------
(* The worker pool *)

PoolReceives(w) ==
  /\ queued # <<>>
  /\ working[w] = None
  /\ working' = [working EXCEPT ![w] = Head(queued)]
  /\ queued' = Tail(queued)
  /\ UNCHANGED <<pooled, session, pos, inHand, marked, committed, attempted,
                 processed, restarts>>

WorkerReturns(w) ==
  /\ working[w] # None
  /\ working' = [working EXCEPT ![w] = None]
  /\ \/ processed' = processed \cup {working[w]}
     \/ working[w] \in MayFail /\ UNCHANGED processed  \* logged, not returned
  /\ UNCHANGED <<pooled, session, pos, inHand, marked, committed, queued,
                 attempted, restarts>>

-----------------------------------------------------------------------------
(* Sessions, commits and crashes *)

\* Start calls Consume again, and sarama calls Setup and ConsumeClaim.
SessionStart ==
  /\ ~session
  /\ session' = TRUE
  /\ pos' = committed
  /\ marked' = committed
  /\ UNCHANGED <<pooled, inHand, committed, queued, working, attempted,
                 processed, restarts>>

Commit ==
  /\ session
  /\ committed < marked
  /\ committed' = marked
  /\ UNCHANGED <<pooled, session, pos, inHand, marked, queued, working,
                 attempted, processed, restarts>>

\* A rebalance, or the end of Start: ConsumeClaim returns between messages.
SessionEnd ==
  /\ session
  /\ inHand = None
  /\ restarts < MaxRestarts
  /\ session' = FALSE
  /\ committed' = marked
  /\ restarts' = restarts + 1
  /\ UNCHANGED <<pooled, pos, inHand, marked, queued, working, attempted,
                 processed>>

Crash ==
  /\ restarts < MaxRestarts
  /\ session' = FALSE
  /\ inHand' = None
  /\ queued' = <<>>
  /\ working' = [w \in 1 .. PoolWorkers |-> None]
  /\ restarts' = restarts + 1
  /\ UNCHANGED <<pooled, pos, marked, committed, attempted, processed>>

NextKafka ==
  \/ Fetch
  \/ ConsumeClaim
  \/ \E w \in 1 .. PoolWorkers : PoolReceives(w) \/ WorkerReturns(w)
  \/ SessionStart
  \/ Commit
  \/ SessionEnd
  \/ Crash

SpecKafka == InitKafka /\ [][NextKafka]_kafkaVars

-----------------------------------------------------------------------------
TypeOKKafka ==
  /\ pooled \in BOOLEAN
  /\ session \in BOOLEAN
  /\ pos \in 0 .. LogLen
  /\ inHand \in Offsets \cup {None}
  /\ marked \in 0 .. LogLen
  /\ committed \in 0 .. LogLen
  /\ queued \in Seq(Offsets) /\ Len(queued) <= PoolQueueSize
  /\ working \in [1 .. PoolWorkers -> Offsets \cup {None}]
  /\ attempted \subseteq Offsets
  /\ processed \subseteq Offsets
  /\ restarts \in 0 .. MaxRestarts

\* Through crashes and rebalances no message is skipped unseen: every
\* message before the committed offset has been in ConsumeClaim's hands
\* and been decoded, handled or refused.
CommittedWasAttempted == \A m \in Offsets : m < committed => m \in attempted

\* Without backpressure, a message the pipeline does not fail on is behind
\* the committed offset only when the pipeline has finished with it, however
\* often the consumer crashes in between.
GoodIsProcessed ==
  ~pooled =>
    \A m \in Offsets \ (Poison \cup MayFail) :
      m < committed => m \in processed

\* No message blocks the partition, a poison message and one whose handler
\* always fails included: once a session has started every message is
\* eventually attempted, through whatever sessions end and crashes follow.
EveryMessageAttempted == \A m \in Offsets : session ~> m \in attempted

\* kafka_test.go:577, "an Event whose handler returns an error is not
\* marked, so its offset is never committed, so a fresh consumer in the same
\* group picks it up again", and consumer.kafka.go:36, "mark-only-on-handler-
\* success for at-least-once redelivery of processing failures": the group
\* never moves past an event that has not been processed and that nothing in
\* the process is going to process.
CommittedIsNotLost ==
  \A m \in Offsets \ Poison :
    m < committed =>
      \/ m \in processed
      \/ \E i \in 1 .. Len(queued) : queued[i] = m
      \/ \E w \in 1 .. PoolWorkers : working[w] = m
=============================================================================
