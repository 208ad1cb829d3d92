------------------------ MODULE NotificationService -------------------------
(***************************************************************************)
(* processEvent (service.go), run concurrently by the goroutines and the   *)
(* replicas that share the stores behind it: one action per call it makes  *)
(* to a store, to the dispatcher or to the bus, what it decides locally    *)
(* being part of the action before.  An event may be delivered as long as  *)
(* ProcessEvent has not returned nil for it, and again after; that it is   *)
(* delivered again is assumed nowhere.                                     *)
(*                                                                         *)
(* An event is for one user's devices, for the FIDs it lists, or for a     *)
(* topic, which is a single recipient.  The dispatcher's answer says of    *)
(* each recipient that it was sent the message, that its FID is            *)
(* permanently invalid, or that sending failed.                            *)
(***************************************************************************)
EXTENDS Integers, FiniteSets

CONSTANTS
  Events,
  Devices,            \* the FIDs
  Topic,              \* the recipient that stands for a topic
  Runs,               \* the goroutines that may be inside processEvent
  Malformed,          \* the events Validate refuses
  Unbuildable,        \* the events BuildMessage fails on
  Filtered,           \* the events of a user, when preferences are filtered
  Direct,             \* the events that list their FIDs
  Topical,            \* the events TopicRouter sends to a topic
  Oversized,          \* the events whose message ValidateSize refuses
  SkipInvalidEvents,  \* ServiceConfig
  EnableDLQ,          \* ServiceConfig, with a DLQHandler
  EnableEventBus,     \* ServiceConfig, with a Bus
  BatchSize,          \* MaxDevicesPerBatch with EnforceBatching, or 0
  Faults,             \* what may go wrong
  MaxFaults           \* bound: how often, per event

Recipients == Devices \cup {Topic}

ASSUME ServiceAssumption ==
  /\ IsFiniteSet(Devices)
  /\ Topic \notin Devices
  /\ Malformed \cup Unbuildable \cup Filtered \cup Direct \cup Topical
       \cup Oversized \subseteq Events
  /\ SkipInvalidEvents \in BOOLEAN
  /\ EnableDLQ \in BOOLEAN
  /\ EnableEventBus \in BOOLEAN
  /\ BatchSize \in Nat
  /\ Faults \subseteq {"check", "resolve", "markInvalid", "dlq", "bus",
                       "mark", "crash", "expire", "duplicate", "resubmit"}
  /\ MaxFaults \in Nat

VARIABLES
  active,      \* DeviceStore: the user's active FIDs
  marks,       \* IdempotencyStore: the events marked processed
  dlq,         \* DLQHandler: the events published to it
  announced,   \* the bus: the lifecycle events published
  run,         \* what each goroutine is doing
  acked,       \* the events ProcessEvent has returned nil for
  faults,      \* per event: what has gone wrong so far
  got,         \* history: the recipients the dispatcher reported sent
  dead,        \* history: the FIDs FCM has called invalid for the event
  settled,     \* history: the recipients of the runs that reached their end
  dispatches,  \* history: the runs that have called the dispatcher
  excuses,     \* history: crashes, failed marks and expired marks
  overlapped   \* history: the events two runs at a time found unmarked

vars == <<active, marks, dlq, announced, run, acked, faults, got, dead,
          settled, dispatches, excuses, overlapped>>

history == <<got, dead, settled, dispatches, excuses, overlapped>>

-----------------------------------------------------------------------------
(* A run's event, where it is in processEvent, the recipients it resolved, *)
(* those the current loop still has to go through, and the DispatchResult: *)
(* its SuccessCount, FailureCount and InvalidFIDs are the sizes of sent,   *)
(* failed and invalid.                                                     *)

States == {"check", "filter", "resolve", "send", "invalid", "dlq", "bus",
           "mark"}

Idle == [pc |-> "idle"]

RunRecord ==
  [pc : States, event : Events, retry : BOOLEAN, owed : SUBSET Recipients,
   todo : SUBSET Recipients, sent : SUBSET Recipients,
   failed : SUBSET Recipients, invalid : SUBSET Devices]

Running(r, e) == run[r].pc # "idle" /\ run[r].event = e

\* The run has found its event unmarked.
Past(r, e) == Running(r, e) /\ run[r].pc # "check"

Init ==
  /\ active \in SUBSET Devices
  /\ marks = {}
  /\ dlq = {}
  /\ announced = {}
  /\ run = [r \in Runs |-> Idle]
  /\ acked = {}
  /\ faults = [e \in Events |-> 0]
  /\ got = [e \in Events |-> {}]
  /\ dead = [e \in Events |-> {}]
  /\ settled = [e \in Events |-> {}]
  /\ dispatches = [e \in Events |-> 0]
  /\ excuses = [e \in Events |-> 0]
  /\ overlapped = {}

\* The fault f befalls event e.
Fault(f, e) ==
  /\ f \in Faults
  /\ faults[e] < MaxFaults
  /\ faults' = [faults EXCEPT ![e] = @ + 1]

Goto(r, pc) == run' = [run EXCEPT ![r].pc = pc]

-----------------------------------------------------------------------------
(* Deliveries *)

Start(r, e, retry) ==
  /\ run[r].pc = "idle"
  /\ run' = [run EXCEPT ![r] =
               [pc |-> "check", event |-> e, retry |-> retry, owed |-> {},
                todo |-> {}, sent |-> {}, failed |-> {}, invalid |-> {}]]
  /\ UNCHANGED <<active, marks, dlq, announced, acked, history>>

Deliver(r, e) ==
  /\ e \notin acked
  /\ Start(r, e, FALSE)
  /\ UNCHANGED faults

\* The queue delivers again what it has been told is done.
Duplicate(r, e) ==
  /\ e \in acked
  /\ Fault("duplicate", e)
  /\ Start(r, e, FALSE)

\* A retry worker claims a dead-lettered event and resubmits it.
Resubmit(r, e) ==
  /\ e \in dlq
  /\ Fault("resubmit", e)
  /\ Start(r, e, TRUE)

\* ProcessEvent returns without having changed a store.
Return(r, ok) ==
  /\ run' = [run EXCEPT ![r] = Idle]
  /\ acked' = IF ok THEN acked \cup {run[r].event} ELSE acked
  /\ UNCHANGED <<active, marks, dlq, announced, history>>

-----------------------------------------------------------------------------
(* Validate and IsProcessed *)

Refuse(r) ==
  /\ run[r].pc = "check"
  /\ run[r].event \in Malformed
  /\ Return(r, SkipInvalidEvents)
  /\ UNCHANGED faults

CheckErrs(r) ==
  /\ run[r].pc = "check"
  /\ run[r].event \notin Malformed
  /\ Fault("check", run[r].event)
  /\ Return(r, FALSE)

SkipProcessed(r) ==
  /\ run[r].pc = "check"
  /\ run[r].event \in marks \ Malformed
  /\ Return(r, TRUE)
  /\ UNCHANGED faults

\* The event goes on to the preferences or, unfiltered, to its template.
Unmarked(r) ==
  LET e == run[r].event
  IN  /\ Goto(r, IF e \in Filtered THEN "filter" ELSE "resolve")
      /\ overlapped' = IF \E q \in Runs \ {r} : Past(q, e)
                       THEN overlapped \cup {e} ELSE overlapped
      /\ UNCHANGED <<active, marks, dlq, announced, acked, faults, got, dead,
                     settled, dispatches, excuses>>

\* Mutant: the mark is not looked at.
CheckIgnoringMark(r) ==
  /\ run[r].pc = "check"
  /\ run[r].event \notin Malformed
  /\ Unmarked(r)

Check(r) ==
  /\ run[r].pc = "check"
  /\ run[r].event \notin marks \cup Malformed
  /\ Unmarked(r)

-----------------------------------------------------------------------------
(* ShouldSendNotification and BuildMessage *)

\* Mutant: a notification the user does not want is an error.
FilterSkipsErrs(r) ==
  /\ run[r].pc = "filter"
  /\ Return(r, FALSE)
  /\ UNCHANGED faults

FilterSkips(r) ==
  /\ run[r].pc = "filter"
  /\ Return(r, TRUE)
  /\ UNCHANGED faults

\* The user wants it, has no preferences, or the lookup failed.
FilterPasses(r) ==
  /\ run[r].pc = "filter"
  /\ Goto(r, "resolve")
  /\ UNCHANGED <<active, marks, dlq, announced, acked, faults, history>>

BuildErrs(r) ==
  /\ run[r].pc = "resolve"
  /\ run[r].event \in Unbuildable
  /\ Return(r, FALSE)
  /\ UNCHANGED faults

-----------------------------------------------------------------------------
(* dispatch *)

\* ResolveTarget and resolveDevicesForEvent.
Targets(e) ==
  IF e \in Topical THEN {Topic}
  ELSE IF e \in Direct THEN Devices
  ELSE active

\* Nobody to send to: the event is marked processed and skipped.
Resolve(r) ==
  LET e == run[r].event
      to == Targets(e)
  IN  /\ run[r].pc = "resolve"
      /\ e \notin Unbuildable
      /\ run' = [run EXCEPT
                   ![r].pc = IF to = {} THEN "mark" ELSE "send",
                   ![r].owed = to,
                   ![r].todo = to]
      /\ dispatches' =
           IF to = {} THEN dispatches
                      ELSE [dispatches EXCEPT ![e] = @ + 1]
      /\ UNCHANGED <<active, marks, dlq, announced, acked, faults, got, dead,
                     settled, excuses, overlapped>>

\* The device store fails: an empty DispatchResult and an error, which is
\* logged.  Owed is what the store would have answered.
ResolveErrs(r) ==
  LET e == run[r].event
  IN  /\ run[r].pc = "resolve"
      /\ e \notin Unbuildable \cup Topical \cup Direct
      /\ Fault("resolve", e)
      /\ run' = [run EXCEPT ![r].pc = "invalid", ![r].owed = active]
      /\ UNCHANGED <<active, marks, dlq, announced, acked, history>>

\* The next batch of Split.  The store lists devices in no given order.
NextBatches(todo) ==
  LET size == IF BatchSize = 0 \/ Cardinality(todo) < BatchSize
              THEN Cardinality(todo) ELSE BatchSize
  IN  {batch \in SUBSET todo : Cardinality(batch) = size}

\* FCM's answers.  A message that is too large is not sent at all, and a
\* topic is never invalid.
Answers(e, batch) ==
  {a \in [batch -> {"sent", "invalid", "failed"}] :
     /\ e \in Oversized => \A d \in batch : a[d] = "failed"
     /\ \A d \in batch \cap {Topic} : a[d] # "invalid"}

Answered(a, what) == {d \in DOMAIN a : a[d] = what}

\* Mutant: a batch's result replaces the last one's (mergeDispatchResult).
SendKeepingLast(r, batch, a) ==
  LET left == run[r].todo \ batch
      invalid == Answered(a, "invalid")
      e == run[r].event
  IN  /\ run' = [run EXCEPT
                   ![r].pc = IF left = {} THEN "invalid" ELSE "send",
                   ![r].todo = IF left = {} THEN invalid ELSE left,
                   ![r].sent = Answered(a, "sent"),
                   ![r].failed = batch \ Answered(a, "sent"),
                   ![r].invalid = invalid]
      /\ got' = [got EXCEPT ![e] = @ \cup Answered(a, "sent")]
      /\ dead' = [dead EXCEPT ![e] = @ \cup Answered(a, "invalid")]
      /\ UNCHANGED <<active, marks, dlq, announced, acked, faults, settled,
                     dispatches, excuses, overlapped>>

\* One call of Send or SendToTopic and mergeDispatchResult.
SendBatch(r, batch, a) ==
  LET left == run[r].todo \ batch
      invalid == run[r].invalid \cup Answered(a, "invalid")
      e == run[r].event
  IN  /\ run' = [run EXCEPT
                   ![r].pc = IF left = {} THEN "invalid" ELSE "send",
                   ![r].todo = IF left = {} THEN invalid ELSE left,
                   ![r].sent = @ \cup Answered(a, "sent"),
                   ![r].failed = @ \cup (batch \ Answered(a, "sent")),
                   ![r].invalid = invalid]
      /\ got' = [got EXCEPT ![e] = @ \cup Answered(a, "sent")]
      /\ dead' = [dead EXCEPT ![e] = @ \cup Answered(a, "invalid")]
      /\ UNCHANGED <<active, marks, dlq, announced, acked, faults, settled,
                     dispatches, excuses, overlapped>>

dispatchToDevices(r) ==
  /\ run[r].pc = "send"
  /\ \E batch \in NextBatches(run[r].todo) :
       \E a \in Answers(run[r].event, batch) : SendBatch(r, batch, a)

-----------------------------------------------------------------------------
(* markInvalidFIDs, publishToDLQIfUnresolved, publishLifecycleEvent *)

MarkInvalid(r) ==
  /\ run[r].pc = "invalid"
  /\ \E d \in run[r].todo :
       /\ run' = [run EXCEPT ![r].todo = @ \ {d}]
       /\ \/ active' = active \ {d} /\ UNCHANGED faults
          \/ Fault("markInvalid", run[r].event) /\ UNCHANGED active
  /\ UNCHANGED <<marks, dlq, announced, acked, history>>

MarkInvalidDone(r) ==
  /\ run[r].pc = "invalid"
  /\ run[r].todo = {}
  /\ Goto(r, "dlq")
  /\ UNCHANGED <<active, marks, dlq, announced, acked, faults, history>>

Unresolved(r) == Cardinality(run[r].failed) - Cardinality(run[r].invalid) > 0

\* An error of PublishToDLQ is logged.
publishToDLQIfUnresolved(r) ==
  LET e == run[r].event
  IN  /\ run[r].pc = "dlq"
      /\ Goto(r, "bus")
      /\ IF EnableDLQ /\ Unresolved(r)
         THEN \/ dlq' = dlq \cup {e} /\ UNCHANGED faults
              \/ Fault("dlq", e) /\ UNCHANGED dlq
         ELSE UNCHANGED <<dlq, faults>>
      /\ UNCHANGED <<active, marks, announced, acked, history>>

\* Mutant: a dispatch with any failure is announced as failed.
LifecycleAnyFailure(r) ==
  IF run[r].failed # {} THEN {<<run[r].event, "failed">>}
  ELSE IF run[r].sent # {} THEN {<<run[r].event, "sent">>}
  ELSE {}

Lifecycle(r) ==
  IF run[r].sent # {} THEN {<<run[r].event, "sent">>}
  ELSE IF run[r].failed # {} THEN {<<run[r].event, "failed">>}
  ELSE {}

\* PublishSent and PublishFailed log an error of the bus.
publishLifecycleEvent(r) ==
  /\ run[r].pc = "bus"
  /\ Goto(r, "mark")
  /\ IF EnableEventBus /\ Lifecycle(r) # {}
     THEN \/ announced' = announced \cup Lifecycle(r) /\ UNCHANGED faults
          \/ Fault("bus", run[r].event) /\ UNCHANGED announced
     ELSE UNCHANGED <<announced, faults>>
  /\ UNCHANGED <<active, marks, dlq, acked, history>>

-----------------------------------------------------------------------------
(* MarkProcessed, and the return of nil whether it fails or not *)

Finish(r) ==
  LET e == run[r].event
  IN  /\ run[r].pc = "mark"
      /\ run' = [run EXCEPT ![r] = Idle]
      /\ acked' = acked \cup {e}
      /\ settled' = [settled EXCEPT ![e] = @ \cup run[r].owed]
      /\ UNCHANGED <<active, dlq, announced, got, dead, dispatches,
                     overlapped>>

MarkProcessed(r) ==
  /\ Finish(r)
  /\ marks' = marks \cup {run[r].event}
  /\ UNCHANGED <<faults, excuses>>

MarkErrs(r) ==
  /\ Finish(r)
  /\ Fault("mark", run[r].event)
  /\ excuses' = [excuses EXCEPT ![run[r].event] = @ + 1]
  /\ UNCHANGED marks

-----------------------------------------------------------------------------
(* The world around the pipeline *)

SaveDevice(d) ==
  /\ active' = active \cup {d}
  /\ UNCHANGED <<marks, dlq, announced, run, acked, faults, history>>

DeleteDevice(d) ==
  /\ active' = active \ {d}
  /\ UNCHANGED <<marks, dlq, announced, run, acked, faults, history>>

\* A run's process dies, or its event is taken from it in a rebalance.
Crash(r) ==
  LET e == run[r].event
  IN  /\ run[r].pc # "idle"
      /\ Fault("crash", e)
      /\ run' = [run EXCEPT ![r] = Idle]
      /\ excuses' = [excuses EXCEPT ![e] = @ + 1]
      /\ UNCHANGED <<active, marks, dlq, announced, acked, got, dead, settled,
                     dispatches, overlapped>>

\* IdempotencyTTL has passed.
Expire(e) ==
  /\ e \in marks
  /\ Fault("expire", e)
  /\ marks' = marks \ {e}
  /\ excuses' = [excuses EXCEPT ![e] = @ + 1]
  /\ UNCHANGED <<active, dlq, announced, run, acked, got, dead, settled,
                 dispatches, overlapped>>

processEvent(r) ==
  \/ Refuse(r)
  \/ CheckErrs(r)
  \/ SkipProcessed(r)
  \/ Check(r)
  \/ FilterSkips(r)
  \/ FilterPasses(r)
  \/ BuildErrs(r)
  \/ Resolve(r)
  \/ ResolveErrs(r)
  \/ dispatchToDevices(r)
  \/ MarkInvalid(r)
  \/ MarkInvalidDone(r)
  \/ publishToDLQIfUnresolved(r)
  \/ publishLifecycleEvent(r)
  \/ MarkProcessed(r)
  \/ MarkErrs(r)

Next ==
  \/ \E r \in Runs, e \in Events :
       Deliver(r, e) \/ Duplicate(r, e) \/ Resubmit(r, e)
  \/ \E r \in Runs : processEvent(r) \/ Crash(r)
  \/ \E d \in Devices : SaveDevice(d) \/ DeleteDevice(d)
  \/ \E e \in Events : Expire(e)

Spec == Init /\ [][Next]_vars

\* A goroutine in processEvent goes on.
FairSpec ==
  /\ Spec
  /\ \A r \in Runs : WF_vars(processEvent(r))

-----------------------------------------------------------------------------
TypeOK ==
  /\ active \subseteq Devices
  /\ marks \subseteq Events
  /\ dlq \subseteq Events
  /\ announced \subseteq Events \X {"sent", "failed"}
  /\ run \in [Runs -> RunRecord \cup {Idle}]
  /\ acked \subseteq Events
  /\ faults \in [Events -> 0 .. MaxFaults]
  /\ got \in [Events -> SUBSET Recipients]
  /\ dead \in [Events -> SUBSET Devices]
  /\ settled \in [Events -> SUBSET Recipients]
  /\ dispatches \in [Events -> Nat]
  /\ excuses \in [Events -> Nat]
  /\ overlapped \subseteq Events

\* The recipients of e there is nothing left to do for: they were reported
\* sent, or invalid.
Reached(e) == got[e] \cup dead[e]

\* service.go:400, a failure that is not an invalid FID's "is a candidate for
\* later retry, so it's published to the DLQ rather than silently dropped":
\* whatever crashes, redeliveries and failed batches come in between, once a
\* run has come to its end every recipient it had was sent the message, is
\* an invalid FID, or has the event in the DLQ.
NothingDropped ==
  EnableDLQ => \A e \in Events : settled[e] \subseteq Reached(e) \/ e \in dlq

\* interfaces.go:45, "a redelivered Event (e.g. from Kafka consumer-group
\* rebalance) is not dispatched twice": an event is dispatched once, and once
\* more at most for each crash of its run and each mark lost or expired,
\* unless two runs on it at the same time both found it unmarked.
DispatchedOnce ==
  \A e \in Events \ overlapped : dispatches[e] <= 1 + excuses[e]

\* The lifecycle events tell what has become of an event, however its runs
\* overlap: "sent" is said only when the dispatcher reported some recipient
\* sent, and, once no run is on it and none has crashed, whenever it did; a
\* run with recipients does not come to its end unannounced.
AnnouncedIsTrue ==
  EnableEventBus =>
    \A e \in Events :
      /\ <<e, "sent">> \in announced => got[e] # {}
      /\ excuses[e] = 0 /\ got[e] # {} /\ (\A r \in Runs : ~Running(r, e))
           => <<e, "sent">> \in announced
      /\ settled[e] # {} =>
           \E what \in {"sent", "failed"} : <<e, what>> \in announced

\* service.go:270, "a dispatch-level error doesn't abort the pipeline": a run
\* that has found its event unmarked, and whose message can be built, comes to
\* an end and answers nil, whatever the preferences, the device store, FCM,
\* the DLQ, the bus and the marking do on the way, as long as its process
\* lives.  The consumer may never deliver the event again, so this is the one
\* answer the event can count on.
EventuallyAnswered ==
  "crash" \notin Faults =>
    \A r \in Runs, e \in Events \ Unbuildable :
      Past(r, e) ~> ~Running(r, e) /\ e \in acked

\* README.md:487, "If you want dead-lettered events actually retried, you
\* write a separate process [...] that calls ClaimRetryableEvents and
\* resubmits whatever it returns": a resubmitted event is not skipped while
\* a recipient is waiting for it.
ResubmittedIsRetried ==
  [][\A r \in Runs :
       run[r].pc # "idle" /\ run[r].retry /\ SkipProcessed(r)
         => settled[run[r].event] \subseteq Reached(run[r].event)]_vars
=============================================================================
