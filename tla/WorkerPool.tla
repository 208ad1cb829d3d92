----------------------------- MODULE WorkerPool -----------------------------
(***************************************************************************)
(* WorkerPool (workerpool.go) and the two methods of notificationService   *)
(* that reach it, Submit and Close (service.go), with EnableBackpressure   *)
(* set.  Callers run on goroutines of their own: Submit reads s.closed and *)
(* then sends on the queue, and between the two anything may happen.       *)
(*                                                                         *)
(* A send on a closed channel panics.  Nothing in the package recovers, so *)
(* the panic ends the process: panicked, after which nothing runs.         *)
(*                                                                         *)
(* The ctx.Done() case of the worker's select is left out: CancelAfterExit *)
(* shows that it is never ready while a worker is running.                 *)
(***************************************************************************)
EXTENDS Integers, Sequences, FiniteSets

CONSTANTS
  Events,     \* the events callers submit, each of them once
  Callers,    \* goroutines that call Submit or Close
  Workers,    \* the pool's goroutines, deps.Config.Workers of them
  QueueSize   \* deps.Config.QueueSize, after NewWorkerPool's default

InClose == {"closing", "draining", "waiting"}

ASSUME PoolAssumption ==
  /\ QueueSize \in Nat \ {0}
  /\ Workers # {} /\ IsFiniteSet(Workers)
  /\ Events \cap ({"ready", "exited", "idle"} \cup InClose) = {}

VARIABLES
  closed,     \* notificationService.closed
  once,       \* notificationService.closeOnce: "free", "running" or "done"
  queue,      \* the buffered channel
  queueOpen,  \* FALSE once close(wp.queue) has run
  cancelled,  \* wp.ctx
  worker,     \* per worker: "ready" to receive, "exited", or the event
              \*   its handler is running for
  caller,     \* per caller: "idle", where it is in Close, or the event of
              \*   a Submit that has passed the closed check
  submitted,  \* the events Submit has been called with
  accepted,   \* the events Submit returned nil for
  handled,    \* the events a handler has finished with
  panicked

poolVars == <<queue, queueOpen, cancelled, worker, handled>>
serviceVars == <<closed, once, caller, submitted, accepted>>
vars == <<closed, once, queue, queueOpen, cancelled, worker, caller,
          submitted, accepted, handled, panicked>>

\* Start runs in NewNotificationService, before anyone has the service.
Init ==
  /\ closed = FALSE
  /\ once = "free"
  /\ queue = <<>>
  /\ queueOpen = TRUE
  /\ cancelled = FALSE
  /\ worker = [w \in Workers |-> "ready"]
  /\ caller = [c \in Callers |-> "idle"]
  /\ submitted = {}
  /\ accepted = {}
  /\ handled = {}
  /\ panicked = FALSE

-----------------------------------------------------------------------------
(* notificationService.Submit, then WorkerPool.Submit *)

SubmitRefused(c, e) ==
  /\ caller[c] = "idle"
  /\ e \notin submitted
  /\ closed                      \* ErrClosed
  /\ submitted' = submitted \cup {e}
  /\ UNCHANGED <<closed, once, caller, accepted, panicked, poolVars>>

SubmitChecked(c, e) ==
  /\ caller[c] = "idle"
  /\ e \notin submitted
  /\ ~closed
  /\ caller' = [caller EXCEPT ![c] = e]
  /\ submitted' = submitted \cup {e}
  /\ UNCHANGED <<closed, once, accepted, panicked, poolVars>>

\* Mutant: the queue is sliced off at its capacity instead of refusing.
SubmitEnqueuedDropping(c) ==
  /\ caller[c] \in Events
  /\ queueOpen
  /\ queue' = IF Len(queue) < QueueSize THEN Append(queue, caller[c]) ELSE queue
  /\ accepted' = accepted \cup {caller[c]}
  /\ caller' = [caller EXCEPT ![c] = "idle"]
  /\ UNCHANGED <<closed, once, submitted, panicked, queueOpen, cancelled,
                 worker, handled>>

SubmitEnqueued(c) ==
  /\ caller[c] \in Events
  /\ queueOpen
  /\ Len(queue) < QueueSize
  /\ queue' = Append(queue, caller[c])
  /\ accepted' = accepted \cup {caller[c]}
  /\ caller' = [caller EXCEPT ![c] = "idle"]
  /\ UNCHANGED <<closed, once, submitted, panicked, queueOpen, cancelled,
                 worker, handled>>

SubmitFull(c) ==
  /\ caller[c] \in Events
  /\ queueOpen
  /\ Len(queue) = QueueSize      \* ErrWorkerPoolFull
  /\ caller' = [caller EXCEPT ![c] = "idle"]
  /\ UNCHANGED <<closed, once, submitted, accepted, panicked, poolVars>>

SubmitPanics(c) ==
  /\ caller[c] \in Events
  /\ ~queueOpen
  /\ panicked' = TRUE
  /\ UNCHANGED <<closed, once, caller, submitted, accepted, poolVars>>

-----------------------------------------------------------------------------
(* notificationService.Close, and WorkerPool.Stop inside closeOnce.Do *)

CloseEnter(c) ==
  /\ caller[c] = "idle"
  /\ once = "free"
  /\ once' = "running"
  /\ closed' = TRUE
  /\ caller' = [caller EXCEPT ![c] = "closing"]
  /\ UNCHANGED <<submitted, accepted, panicked, poolVars>>

\* Mutant: the context is cancelled with the queue, not after the drain.
StopClosesQueueCancelling(c) ==
  /\ caller[c] = "closing"
  /\ queueOpen' = FALSE
  /\ cancelled' = TRUE
  /\ caller' = [caller EXCEPT ![c] = "draining"]
  /\ UNCHANGED <<closed, once, submitted, accepted, panicked, queue,
                 worker, handled>>

StopClosesQueue(c) ==
  /\ caller[c] = "closing"
  /\ queueOpen' = FALSE
  /\ caller' = [caller EXCEPT ![c] = "draining"]
  /\ UNCHANGED <<closed, once, submitted, accepted, panicked, queue,
                 cancelled, worker, handled>>

\* wg.Wait() returns, wp.cancel() runs, and closeOnce is done.
StopReturns(c) ==
  /\ caller[c] = "draining"
  /\ \A w \in Workers : worker[w] = "exited"
  /\ cancelled' = TRUE
  /\ once' = "done"
  /\ caller' = [caller EXCEPT ![c] = "idle"]
  /\ UNCHANGED <<closed, submitted, accepted, panicked, queue, queueOpen,
                 worker, handled>>

\* A second Close waits inside closeOnce.Do for the first one.
CloseAgain(c) ==
  /\ caller[c] = "idle"
  /\ once = "running"
  /\ caller' = [caller EXCEPT ![c] = "waiting"]
  /\ UNCHANGED <<closed, once, submitted, accepted, panicked, poolVars>>

CloseAgainReturns(c) ==
  /\ caller[c] = "waiting"
  /\ once = "done"
  /\ caller' = [caller EXCEPT ![c] = "idle"]
  /\ UNCHANGED <<closed, once, submitted, accepted, panicked, poolVars>>

-----------------------------------------------------------------------------
(* WorkerPool.worker *)

Receive(w) ==
  /\ worker[w] = "ready"
  /\ queue # <<>>
  /\ worker' = [worker EXCEPT ![w] = Head(queue)]
  /\ queue' = Tail(queue)
  /\ UNCHANGED <<queueOpen, cancelled, handled, panicked, serviceVars>>

\* The handler returns; its error is only logged.
HandlerReturns(w) ==
  /\ worker[w] \in Events
  /\ handled' = handled \cup {worker[w]}
  /\ worker' = [worker EXCEPT ![w] = "ready"]
  /\ UNCHANGED <<queue, queueOpen, cancelled, panicked, serviceVars>>

\* Mutant: a worker leaves as soon as the queue is closed.
WorkerExitsEarly(w) ==
  /\ worker[w] = "ready"
  /\ ~queueOpen
  /\ worker' = [worker EXCEPT ![w] = "exited"]
  /\ UNCHANGED <<queue, queueOpen, cancelled, handled, panicked, serviceVars>>

\* Mutant: a worker waits for the context, which Stop cancels after it.
WorkerExitsOnCancel(w) ==
  /\ worker[w] = "ready"
  /\ cancelled
  /\ worker' = [worker EXCEPT ![w] = "exited"]
  /\ UNCHANGED <<queue, queueOpen, cancelled, handled, panicked, serviceVars>>

WorkerExits(w) ==
  /\ worker[w] = "ready"
  /\ ~queueOpen
  /\ queue = <<>>
  /\ worker' = [worker EXCEPT ![w] = "exited"]
  /\ UNCHANGED <<queue, queueOpen, cancelled, handled, panicked, serviceVars>>

Submit(c) ==
  \/ \E e \in Events : SubmitRefused(c, e) \/ SubmitChecked(c, e)
  \/ SubmitEnqueued(c)
  \/ SubmitFull(c)
  \/ SubmitPanics(c)

Close(c) ==
  \/ CloseEnter(c)
  \/ StopClosesQueue(c)
  \/ StopReturns(c)
  \/ CloseAgain(c)
  \/ CloseAgainReturns(c)

Work(w) == Receive(w) \/ HandlerReturns(w) \/ WorkerExits(w)

Next ==
  /\ ~panicked
  /\ \/ \E c \in Callers : Submit(c) \/ Close(c)
     \/ \E w \in Workers : Work(w)

Spec == Init /\ [][Next]_vars

\* Goroutines are scheduled, and a handler returns.  A Close that has begun
\* goes on; nobody is obliged to call Submit or Close.
Fairness ==
  /\ \A w \in Workers : WF_vars(~panicked /\ Work(w))
  /\ \A c \in Callers :
       WF_vars(~panicked /\ (StopClosesQueue(c) \/ StopReturns(c)
                             \/ CloseAgainReturns(c)))

-----------------------------------------------------------------------------
Queued == {queue[i] : i \in 1 .. Len(queue)}
InHandler == {e \in Events : \E w \in Workers : worker[w] = e}

TypeOK ==
  /\ closed \in BOOLEAN
  /\ once \in {"free", "running", "done"}
  /\ queue \in Seq(Events) /\ Len(queue) <= QueueSize
  /\ queueOpen \in BOOLEAN /\ cancelled \in BOOLEAN /\ panicked \in BOOLEAN
  /\ worker \in [Workers -> {"ready", "exited"} \cup Events]
  /\ caller \in [Callers -> {"idle"} \cup InClose \cup Events]
  /\ submitted \subseteq Events
  /\ accepted \subseteq Events
  /\ handled \subseteq Events

\* An event Submit accepted is never lost or duplicated by the pool: it is
\* in exactly one place, once in the queue, in one handler, or handled.
NothingLost ==
  /\ accepted = Queued \cup InHandler \cup handled
  /\ \A i, j \in 1 .. Len(queue) : queue[i] = queue[j] => i = j
  /\ \A v, w \in Workers : worker[v] = worker[w] /\ worker[v] \in Events => v = w
  /\ Queued \cap InHandler = {}
  /\ Queued \cap handled = {}
  /\ InHandler \cap handled = {}

\* WorkerPool.Stop "guarantees every event successfully Submitted before
\* Stop was called is delivered to a worker and run through handler before
\* Stop returns" (workerpool.go:150), those racing with Stop included.
DrainedWhenClosed == once = "done" => accepted = handled

\* The context a handler runs with is live throughout the drain: Stop
\* cancels it only when every worker has exited.
CancelAfterExit == cancelled => \A w \in Workers : worker[w] = "exited"

\* Shutdown terminates, and so does everyone waiting for it: a Close that
\* has begun returns, unless the process dies of a panic.
CloseReturns ==
  \A c \in Callers :
    (caller[c] \in InClose) ~> (caller[c] = "idle" \/ panicked)

\* Every accepted event is eventually run through the handler, whether or
\* not the service is closed meanwhile.
AcceptedIsHandled ==
  \A e \in Events : (e \in accepted) ~> (e \in handled \/ panicked)

\* interfaces.go:470: Submit "enqueues onto the service's own bounded
\* WorkerPool (non-blocking, ErrWorkerPoolFull on a full queue)", and
\* errors.go:23: "ErrClosed indicates a method was called after Close":
\* Submit returns nil or one of these errors, whenever Close is called.
SubmitNeverPanics == ~panicked
=============================================================================
