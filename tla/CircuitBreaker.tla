--------------------------- MODULE CircuitBreaker ---------------------------
(***************************************************************************)
(* standardCircuitBreaker (circuitbreaker.go): callers run Execute, which  *)
(* takes the mutex twice, in beforeRequest and in afterRequest, and runs   *)
(* fn between the two with no lock held.  Any number of calls may be       *)
(* inside fn while others change the breaker's state.                      *)
(*                                                                         *)
(* Time is kept as ages.  The code compares now-openedAt with Timeout (>=) *)
(* and now-lastFailureTime with ResetTimeout (>), so an age saturates one  *)
(* step after its comparison stops changing.  consecutiveFailures is only  *)
(* compared with MaxFailures and saturates there.  The total* counters and *)
(* lastStateChange are read by GetStats alone and are left out.            *)
(***************************************************************************)
EXTENDS Integers, FiniteSets

CONSTANTS
  Requests,            \* call slots: the calls that may be in Execute at once
  MaxFailures,         \* CircuitBreakerConfig.MaxFailures
  Timeout,             \* CircuitBreakerConfig.Timeout, in clock ticks
  ResetTimeout,        \* CircuitBreakerConfig.ResetTimeout, in clock ticks
  MaxHalfOpenRequests  \* CircuitBreakerConfig.MaxHalfOpenRequests, any int

\* What NewCircuitBreakerWithConfig refuses to build without.
ASSUME ConfigAssumption ==
  /\ MaxFailures \in Nat \ {0}
  /\ Timeout \in Nat \ {0}
  /\ ResetTimeout \in Nat \ {0}
  /\ MaxHalfOpenRequests \in Int

ASSUME RequestsAssumption == IsFiniteSet(Requests)

VARIABLES
  state,                \* "closed", "open" or "half_open"
  consecutiveFailures,
  halfOpenRequests,
  sinceOpened,          \* now - openedAt
  sinceFailure,         \* now - lastFailureTime
  status                \* per call slot: where its latest Execute is

vars == <<state, consecutiveFailures, halfOpenRequests, sinceOpened,
          sinceFailure, status>>

(***************************************************************************)
(* status[r] of a call inside fn also records how it was admitted:         *)
(*   "closed"  admitted while the breaker was closed,                      *)
(*   "trial"   admitted by the half-open episode that is still going on,   *)
(*   "stale"   admitted by a half-open episode that has ended since.       *)
(* The breaker itself keeps no such record: beforeRequest hands nothing to *)
(* afterRequest.  Otherwise status[r] is how the latest call returned.     *)
(***************************************************************************)
InFn == {"closed", "trial", "stale"}
Returned == {"idle", "ErrCircuitOpen", "ErrTooManyRequests"}

Trials == {r \in Requests : status[r] = "trial"}

HalfOpenLimit == IF MaxHalfOpenRequests <= 0 THEN 1 ELSE MaxHalfOpenRequests

Older(age, cap) == IF age < cap THEN age + 1 ELSE age

Moved(r, s) == [status EXCEPT ![r] = s]

\* When a half-open episode ends, the trials it leaves running become stale.
EpisodeOver ==
  [q \in Requests |-> IF status[q] = "trial" THEN "stale" ELSE status[q]]

\* lastFailureTime and openedAt start as the zero time, long ago.
Init ==
  /\ state = "closed"
  /\ consecutiveFailures = 0
  /\ halfOpenRequests = 0
  /\ sinceOpened = Timeout
  /\ sinceFailure = ResetTimeout + 1
  /\ status = [r \in Requests |-> "idle"]

-----------------------------------------------------------------------------
(* beforeRequest, one action per outcome. *)

AdmitClosed(r) ==
  /\ status[r] \in Returned
  /\ state = "closed"
  /\ consecutiveFailures' =
       IF sinceFailure > ResetTimeout THEN 0 ELSE consecutiveFailures
  /\ status' = Moved(r, "closed")
  /\ UNCHANGED <<state, halfOpenRequests, sinceOpened, sinceFailure>>

RejectOpen(r) ==
  /\ status[r] \in Returned
  /\ state = "open"
  /\ sinceOpened < Timeout
  /\ status' = Moved(r, "ErrCircuitOpen")
  /\ UNCHANGED <<state, consecutiveFailures, halfOpenRequests, sinceOpened,
                 sinceFailure>>

\* The call that finds Timeout elapsed falls through to the half-open case
\* and, HalfOpenLimit being at least 1, is its first trial.
StartHalfOpen(r) ==
  /\ status[r] \in Returned
  /\ state = "open"
  /\ sinceOpened >= Timeout
  /\ state' = "half_open"
  /\ halfOpenRequests' = 1
  /\ status' = Moved(r, "trial")
  /\ UNCHANGED <<consecutiveFailures, sinceOpened, sinceFailure>>

AdmitTrial(r) ==
  /\ status[r] \in Returned
  /\ state = "half_open"
  /\ halfOpenRequests < HalfOpenLimit
  /\ halfOpenRequests' = halfOpenRequests + 1
  /\ status' = Moved(r, "trial")
  /\ UNCHANGED <<state, consecutiveFailures, sinceOpened, sinceFailure>>

RejectHalfOpen(r) ==
  /\ status[r] \in Returned
  /\ state = "half_open"
  /\ halfOpenRequests >= HalfOpenLimit
  /\ status' = Moved(r, "ErrTooManyRequests")
  /\ UNCHANGED <<state, consecutiveFailures, halfOpenRequests, sinceOpened,
                 sinceFailure>>

beforeRequest(r) ==
  \/ AdmitClosed(r)
  \/ RejectOpen(r)
  \/ StartHalfOpen(r)
  \/ AdmitTrial(r)
  \/ RejectHalfOpen(r)

-----------------------------------------------------------------------------
(* afterRequest: fn of call r returned an error, or nil. *)

\* Mutant: reopening leaves the admission counter as it was.
openCircuitKeepsCount(r) ==
  /\ state' = "open"
  /\ sinceOpened' = 0
  /\ status' = [EpisodeOver EXCEPT ![r] = "idle"]
  /\ UNCHANGED halfOpenRequests

openCircuit(r) ==
  /\ state' = "open"
  /\ sinceOpened' = 0
  /\ halfOpenRequests' = 0
  /\ status' = [EpisodeOver EXCEPT ![r] = "idle"]

closeCircuit(r) ==
  /\ state' = "closed"
  /\ consecutiveFailures' = 0
  /\ halfOpenRequests' = 0
  /\ status' = [EpisodeOver EXCEPT ![r] = "idle"]

\* Mutant: a failure counts toward MaxFailures in every state alike.
FailedCountsOnly(r) ==
  LET failures == Older(consecutiveFailures, MaxFailures) IN
  /\ status[r] \in InFn
  /\ consecutiveFailures' = failures
  /\ sinceFailure' = 0
  /\ \/ state = "closed" /\ failures >= MaxFailures /\ openCircuit(r)
     \/ /\ state # "closed" \/ failures < MaxFailures
        /\ status' = Moved(r, "idle")
        /\ UNCHANGED <<state, halfOpenRequests, sinceOpened>>

Failed(r) ==
  LET failures == Older(consecutiveFailures, MaxFailures) IN
  /\ status[r] \in InFn
  /\ consecutiveFailures' = failures
  /\ sinceFailure' = 0
  /\ \/ /\ state = "half_open" \/ (state = "closed" /\ failures >= MaxFailures)
        /\ openCircuit(r)
     \/ /\ state = "open" \/ (state = "closed" /\ failures < MaxFailures)
        /\ status' = Moved(r, "idle")
        /\ UNCHANGED <<state, halfOpenRequests, sinceOpened>>

\* Mutant: any success outside the closed state closes the circuit.
SucceededClosesOpen(r) ==
  /\ status[r] \in InFn
  /\ \/ state # "closed" /\ closeCircuit(r)
     \/ /\ state = "closed"
        /\ consecutiveFailures' = 0
        /\ status' = Moved(r, "idle")
        /\ UNCHANGED <<state, halfOpenRequests>>
  /\ UNCHANGED <<sinceOpened, sinceFailure>>

Succeeded(r) ==
  /\ status[r] \in InFn
  /\ \/ /\ state = "half_open"
        /\ closeCircuit(r)
     \/ /\ state # "half_open"
        /\ consecutiveFailures' = IF state = "closed" THEN 0
                                                      ELSE consecutiveFailures
        /\ status' = Moved(r, "idle")
        /\ UNCHANGED <<state, halfOpenRequests>>
  /\ UNCHANGED <<sinceOpened, sinceFailure>>

afterRequest(r) == Failed(r) \/ Succeeded(r)

\* Administrative; takes the mutex whatever calls are inside fn.
Reset ==
  /\ state' = "closed"
  /\ consecutiveFailures' = 0
  /\ halfOpenRequests' = 0
  /\ status' = EpisodeOver
  /\ UNCHANGED <<sinceOpened, sinceFailure>>

Tick ==
  /\ sinceOpened' = Older(sinceOpened, Timeout)
  /\ sinceFailure' = Older(sinceFailure, ResetTimeout + 1)
  /\ UNCHANGED <<state, consecutiveFailures, halfOpenRequests, status>>

Next ==
  \/ \E r \in Requests : beforeRequest(r) \/ afterRequest(r)
  \/ Reset
  \/ Tick

Spec == Init /\ [][Next]_vars

\* fn always returns.  Execute sets it no time limit: that the call to FCM
\* ends is an assumption on the client.
FairSpec == Spec /\ \A r \in Requests : WF_vars(afterRequest(r))

-----------------------------------------------------------------------------
TypeOK ==
  /\ state \in {"closed", "open", "half_open"}
  /\ consecutiveFailures \in 0..MaxFailures
  /\ halfOpenRequests \in 0..HalfOpenLimit
  /\ sinceOpened \in 0..Timeout
  /\ sinceFailure \in 0..(ResetTimeout + 1)
  /\ status \in [Requests -> InFn \cup Returned]

(***************************************************************************)
(* The admission counter is never left over: while half-open it is exactly *)
(* the number of calls of this episode still inside fn, at least one and   *)
(* at most the limit, and otherwise it is zero.  A counter that survived   *)
(* its calls would reject with ErrTooManyRequests for ever, since only a   *)
(* call leaving fn ends the half-open state.                               *)
(***************************************************************************)
HalfOpenAccounting ==
  /\ halfOpenRequests = Cardinality(Trials)
  /\ state = "half_open" => halfOpenRequests \in 1..HalfOpenLimit
  /\ state # "half_open" => Trials = {}

(***************************************************************************)
(* A call admitted before the trip that succeeds after it does not close   *)
(* an open breaker: from open the only ways on are half-open and Reset.    *)
(***************************************************************************)
OpenClosesOnlyByReset ==
  [][state = "open" /\ state' = "closed" => status' = status]_vars

(***************************************************************************)
(* When every fn returns, a half-open breaker always reaches a verdict.    *)
(***************************************************************************)
HalfOpenResolves == state = "half_open" ~> state # "half_open"
=============================================================================
