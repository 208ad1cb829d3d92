--------------------------- MODULE FCMDispatcher ----------------------------
(***************************************************************************)
(* fcmDispatcher (dispatcher.fcm.go) with its circuit breaker: one call of *)
(* Send, whose platform groups run on goroutines of their own, beside      *)
(* calls of SendToDevice and SendToTopic.  All of them go through the same *)
(* breaker, the CircuitBreaker this module extends: Requests are the       *)
(* goroutines.                                                             *)
(*                                                                         *)
(* FCM is modelled from how the code uses it: a multicast is answered for  *)
(* each FID, or fails as a whole and then reaches nobody.  What            *)
(* classifyFCMError makes of a FID's error is "invalid" (IsPermanent),     *)
(* "retryable" or "other".  The rate limiter is one step of Wait, which    *)
(* returns nil or an error.  Building messages, logs and metrics are left  *)
(* out, and so is Errors.                                                  *)
(***************************************************************************)
EXTENDS CircuitBreaker, Sequences

CONSTANTS
  Platforms,         \* the platform groups Send may have
  Android,           \* the platform a device without one is sent to
  Unset,             \* the platform of a device without one
  Singles,           \* calls of SendToDevice and SendToTopic
  Inputs,            \* the calls examined together: Send's devices, and
                     \*   the singles, as records
  FCMMaxBatchSize,
  MaxRetryAttempts,  \* FCMDispatcherConfig with EnableRetry, 1 without
  Guarded,           \* whether there is a breaker: the values examined
  Sizes              \* whether the message is too large: the values examined

ASSUME DispatcherAssumption ==
  /\ Requests = Platforms \cup Singles
  /\ Platforms \cap Singles = {}
  /\ Android \in Platforms
  /\ FCMMaxBatchSize \in Nat \ {0}
  /\ MaxRetryAttempts \in Nat \ {0}
  /\ Guarded \subseteq BOOLEAN
  /\ Sizes \subseteq BOOLEAN

VARIABLES
  devices,    \* Send's argument: a sequence of [fid, platform]
  oversized,  \* ValidateSize refuses the message
  guarded,    \* deps.CircuitBreaker is not nil
  send,       \* Send: "idle", "running" or "returned"
  cancelled,  \* the goroutines whose context is done
  phase,      \* per goroutine: where it is
  batches,    \* per goroutine: the batches left, the current one first
  attempt,    \* per goroutine: the retry loop's counter
  last,       \* per goroutine: the result of the batch's latest attempt
  sum,        \* per goroutine: the result of the batches it is done with
  result,     \* what Send returns
  accepted,   \* history: how often FCM accepted the message, per FID
  dead,       \* history: the FIDs FCM has called permanently invalid
  partial,    \* history: answers with a retryable error, per FID of the batch
  late        \* history: FCM calls begun with a context that was done

input == <<devices, oversized, guarded>>
history == <<accepted, dead, partial, late>>
dispVars == <<devices, oversized, guarded, send, cancelled, phase, batches,
              attempt, last, sum, result, accepted, dead, partial, late>>
allVars == <<vars, dispVars>>

-----------------------------------------------------------------------------
(* Deduplicate, the grouping in Send, and Split *)

\* The devices at the indices in at, in their order.
Chosen(devs, at) ==
  [k \in 1 .. Cardinality(at) |->
     devs[CHOOSE i \in at : Cardinality({j \in at : j < i}) = k - 1]]

\* The first device of each FID.
Deduplicate(devs) ==
  Chosen(devs, {i \in DOMAIN devs :
                  \A j \in 1 .. i - 1 : devs[j].fid # devs[i].fid})

PlatformOf(dev) == IF dev.platform = Unset THEN Android ELSE dev.platform

\* The devices of one platform.
Group(devs, p) ==
  LET all == Deduplicate(devs)
  IN  Chosen(all, {i \in DOMAIN all : PlatformOf(all[i]) = p})

\* Mutant: the batches are not split.
SplitWhole(devs, size) == <<devs>>

Split(devs, size) ==
  IF size <= 0 \/ devs = <<>> THEN <<devs>>
  ELSE [k \in 1 .. ((Len(devs) + size - 1) \div size) |->
          SubSeq(devs, (k - 1) * size + 1,
                 IF k * size > Len(devs) THEN Len(devs) ELSE k * size)]

Fids(devs) == {devs[i].fid : i \in DOMAIN devs}

\* DispatchResult.
Empty == [success |-> 0, failure |-> 0, invalid |-> {}, retryable |-> 0]

\* The accumulation in Send and in sendPlatformBatches.
Plus(r, s) ==
  [success |-> r.success + s.success, failure |-> r.failure + s.failure,
   invalid |-> r.invalid \cup s.invalid,
   retryable |-> r.retryable + s.retryable]

AllFailed(n) == [Empty EXCEPT !.failure = n]

AllFids == UNION {Fids(call.devices) : call \in Inputs}

\* Platforms has the platform of every device.
ASSUME InputsAssumption ==
  \A call \in Inputs :
    call.devices \in Seq([fid : AllFids, platform : Platforms \cup {Unset}])

InitDispatcher ==
  /\ Init
  /\ \E call \in Inputs :
       /\ devices = call.devices
       /\ phase = [r \in Requests |->
                    IF r \in Platforms \cup call.singles THEN "start"
                    ELSE "done"]
  /\ oversized \in Sizes
  /\ guarded \in Guarded
  /\ send = "idle"
  /\ cancelled = {}
  /\ batches = [r \in Requests |-> <<>>]
  /\ attempt = [r \in Requests |-> 0]
  /\ last = [r \in Requests |-> Empty]
  /\ sum = [r \in Requests |-> Empty]
  /\ result = Empty
  /\ accepted = [f \in AllFids |-> 0]
  /\ dead = {}
  /\ partial = [f \in AllFids |-> 0]
  /\ late = [r \in Requests |-> 0]

Goto(r, p) == phase' = [phase EXCEPT ![r] = p]

-----------------------------------------------------------------------------
(* Send: refuse the message, or start a goroutine per platform *)

SendStart ==
  /\ send = "idle"
  /\ IF devices = <<>> \/ oversized
     THEN /\ send' = "returned"
          /\ result' = AllFailed(Len(devices))
          /\ UNCHANGED <<phase, batches>>
     ELSE LET groups == {p \in Platforms : Group(devices, p) # <<>>}
          IN  /\ send' = "running"
              /\ phase' = [r \in Requests |->
                             IF r \in groups THEN "batch"
                             ELSE IF r \in Platforms THEN "done"
                             ELSE phase[r]]
              /\ batches' = [r \in Requests |->
                    IF r \in groups
                    THEN Split(Group(devices, r), FCMMaxBatchSize)
                    ELSE batches[r]]
              /\ UNCHANGED result
  /\ UNCHANGED <<input, cancelled, attempt, last, sum, history, vars>>

\* SendToDevice or SendToTopic: one recipient, one attempt.
SingleStart(r) ==
  /\ r \in Singles
  /\ phase[r] = "start"
  /\ IF oversized
     THEN Goto(r, "done") /\ UNCHANGED batches
     ELSE /\ Goto(r, "wait")
          /\ batches' = [batches EXCEPT ![r] =
                           <<<<[fid |-> r, platform |-> Unset]>>>>]
  /\ UNCHANGED <<input, send, cancelled, attempt, last, sum, result, history,
                 vars>>

\* The context of a call that has not returned is done.
Cancel(who) ==
  /\ who \cap cancelled = {}
  /\ \E r \in who : phase[r] # "done"
  /\ cancelled' = cancelled \cup who
  /\ UNCHANGED <<input, send, phase, batches, attempt, last, sum, result,
                 history, vars>>

-----------------------------------------------------------------------------
(* sendPlatformBatches: the loop over the batches, and the merge in Send *)

\* The goroutine has res for its batch and goes on to the next one.
EndBatch(r, res) ==
  /\ sum' = [sum EXCEPT ![r] = Plus(@, res)]
  /\ batches' = [batches EXCEPT ![r] = Tail(@)]
  /\ attempt' = [attempt EXCEPT ![r] = 0]
  /\ last' = [last EXCEPT ![r] = Empty]
  /\ Goto(r, "batch")

\* Mutant: a batch that is skipped is not counted as failed.
StartBatchUncounted(r) ==
  /\ phase[r] = "batch"
  /\ batches[r] # <<>>
  /\ IF r \in cancelled THEN EndBatch(r, Empty)
     ELSE Goto(r, "wait") /\ UNCHANGED <<batches, attempt, last, sum>>
  /\ UNCHANGED <<input, send, cancelled, result, history, vars>>

StartBatch(r) ==
  /\ phase[r] = "batch"
  /\ batches[r] # <<>>
  /\ IF r \in cancelled
     THEN EndBatch(r, AllFailed(Len(Head(batches[r]))))
     ELSE Goto(r, "wait") /\ UNCHANGED <<batches, attempt, last, sum>>
  /\ UNCHANGED <<input, send, cancelled, result, history, vars>>

\* A group merges its result under mu; a single call returns.
Finish(r) ==
  /\ phase[r] = "batch"
  /\ batches[r] = <<>>
  /\ Goto(r, "done")
  /\ result' = IF r \in Platforms THEN Plus(result, sum[r]) ELSE result
  /\ sum' = [sum EXCEPT ![r] = Empty]
  /\ UNCHANGED <<input, send, cancelled, batches, attempt, last, history,
                 vars>>

\* wg.Wait returns.
SendReturns ==
  /\ send = "running"
  /\ \A p \in Platforms : phase[p] = "done"
  /\ send' = "returned"
  /\ UNCHANGED <<input, cancelled, phase, batches, attempt, last, sum, result,
                 history, vars>>

-----------------------------------------------------------------------------
(* sendBatchWithRetry *)

Attempts(r) == IF r \in Singles THEN 1 ELSE MaxRetryAttempts

\* Mutant: the attempts of a batch are added up.
AttemptDoneAdding(r, res, shouldRetry) ==
  IF shouldRetry /\ attempt[r] + 1 < Attempts(r)
  THEN /\ attempt' = [attempt EXCEPT ![r] = @ + 1]
       /\ last' = [last EXCEPT ![r] = Plus(@, res)]
       /\ Goto(r, "delay")
       /\ UNCHANGED <<sum, batches>>
  ELSE EndBatch(r, Plus(last[r], res))

\* Mutant: any failure is worth a retry.
AttemptDoneAnyFailure(r, res, shouldRetry) ==
  IF res.failure > 0 /\ attempt[r] + 1 < Attempts(r)
  THEN /\ attempt' = [attempt EXCEPT ![r] = @ + 1]
       /\ last' = [last EXCEPT ![r] = res]
       /\ Goto(r, "delay")
       /\ UNCHANGED <<sum, batches>>
  ELSE EndBatch(r, res)

\* Mutant: the attempts are not counted.
AttemptDoneForever(r, res, shouldRetry) ==
  IF shouldRetry
  THEN /\ last' = [last EXCEPT ![r] = res]
       /\ Goto(r, "delay")
       /\ UNCHANGED <<attempt, sum, batches>>
  ELSE EndBatch(r, res)

\* An attempt ended with res; the latest one is the batch's result.
AttemptDone(r, res, shouldRetry) ==
  IF shouldRetry /\ attempt[r] + 1 < Attempts(r)
  THEN /\ attempt' = [attempt EXCEPT ![r] = @ + 1]
       /\ last' = [last EXCEPT ![r] = res]
       /\ Goto(r, "delay")
       /\ UNCHANGED <<sum, batches>>
  ELSE EndBatch(r, res)

\* An attempt that errs fails the whole batch.  ShouldRetry never sees an
\* FCMError here, and an error that is not one is worth a retry.
AttemptErrs(r) == AttemptDone(r, AllFailed(Len(Head(batches[r]))), TRUE)

DelayOver(r) ==
  /\ phase[r] = "delay"
  /\ Goto(r, "wait")
  /\ UNCHANGED <<input, send, cancelled, batches, attempt, last, sum, result,
                 history, vars>>

\* When the timer has run out as well, select may take either case.
DelayCancelled(r) ==
  /\ phase[r] = "delay"
  /\ r \in cancelled
  /\ EndBatch(r, last[r])
  /\ UNCHANGED <<input, send, cancelled, result, history, vars>>

-----------------------------------------------------------------------------
(* sendBatch: the limiter, the breaker, FCM *)

WaitReturns(r) ==
  /\ phase[r] = "wait"
  /\ Goto(r, "execute")
  /\ UNCHANGED <<input, send, cancelled, batches, attempt, last, sum, result,
                 history, vars>>

WaitErrs(r) ==
  /\ phase[r] = "wait"
  /\ AttemptErrs(r)
  /\ UNCHANGED <<input, send, cancelled, result, history, vars>>

\* FCM is called.
Call(r) ==
  /\ Goto(r, "fcm")
  /\ late' = [late EXCEPT ![r] = IF r \in cancelled THEN @ + 1 ELSE @]
  /\ UNCHANGED <<batches, attempt, last, sum, accepted, dead, partial>>

CallDirectly(r) ==
  /\ phase[r] = "execute"
  /\ ~guarded
  /\ Call(r)
  /\ UNCHANGED <<input, send, cancelled, result, vars>>

\* Mutant: Execute does not look at the context.
ExecuteAnyway(r) ==
  /\ phase[r] = "execute"
  /\ guarded
  /\ Goto(r, "admit")
  /\ UNCHANGED <<input, send, cancelled, batches, attempt, last, sum, result,
                 history, vars>>

\* Execute looks at the context before it takes the breaker's mutex.
Execute(r) ==
  /\ phase[r] = "execute"
  /\ guarded
  /\ IF r \in cancelled THEN AttemptErrs(r)
     ELSE Goto(r, "admit") /\ UNCHANGED <<batches, attempt, last, sum>>
  /\ UNCHANGED <<input, send, cancelled, result, history, vars>>

Admit(r) ==
  /\ phase[r] = "admit"
  /\ beforeRequest(r)
  /\ IF status'[r] \in InFn THEN Call(r)
     ELSE AttemptErrs(r) /\ UNCHANGED history
  /\ UNCHANGED <<input, send, cancelled, result>>

\* fn has returned to the breaker, if there is one.
Returns(r, ok) ==
  IF ~guarded THEN UNCHANGED vars
  ELSE IF ok THEN Succeeded(r) ELSE Failed(r)

\* What classifyFCMError, IsPermanent and IsRetryable tell apart.
Outcomes == {"sent", "invalid", "retryable", "other"}

\* The result of a multicast that was answered with a for each FID.
Tally(a) ==
  LET of(what) == {f \in DOMAIN a : a[f] = what}
  IN  [success |-> Cardinality(of("sent")),
       failure |-> Cardinality(DOMAIN a \ of("sent")),
       invalid |-> of("invalid"),
       retryable |-> Cardinality(of("retryable"))]

Answered(r) ==
  /\ phase[r] = "fcm"
  /\ r \in Platforms
  /\ LET fids == Fids(Head(batches[r]))
     IN  \E a \in [fids -> Outcomes] :
           LET again == Tally(a).retryable > 0
           IN  /\ AttemptDone(r, Tally(a), again)
               /\ accepted' = [f \in AllFids |->
                    IF f \in fids /\ a[f] = "sent" THEN accepted[f] + 1
                    ELSE accepted[f]]
               /\ partial' = [f \in AllFids |->
                    IF f \in fids /\ again THEN partial[f] + 1 ELSE partial[f]]
               /\ dead' = dead \cup Tally(a).invalid
  /\ Returns(r, TRUE)
  /\ UNCHANGED <<input, send, cancelled, result, late>>

SingleSent(r) ==
  /\ phase[r] = "fcm"
  /\ r \in Singles
  /\ AttemptDone(r, [Empty EXCEPT !.success = 1], FALSE)
  /\ Returns(r, TRUE)
  /\ UNCHANGED <<input, send, cancelled, result, history>>

\* The call itself fails: for a single recipient, whatever the reason.
CallErrs(r) ==
  /\ phase[r] = "fcm"
  /\ AttemptErrs(r)
  /\ Returns(r, FALSE)
  /\ UNCHANGED <<input, send, cancelled, result, history>>

sendBatch(r) ==
  \/ WaitReturns(r)
  \/ WaitErrs(r)
  \/ CallDirectly(r)
  \/ Execute(r)
  \/ Admit(r)
  \/ Answered(r)
  \/ SingleSent(r)
  \/ CallErrs(r)

Run(r) ==
  \/ StartBatch(r)
  \/ Finish(r)
  \/ DelayOver(r)
  \/ DelayCancelled(r)
  \/ sendBatch(r)

NextDispatcher ==
  \/ SendStart
  \/ SendReturns
  \/ \E r \in Singles : SingleStart(r) \/ Cancel({r})
  \/ Cancel(Platforms)
  \/ \E r \in Requests : Run(r)
  \/ (Reset \/ Tick) /\ UNCHANGED dispVars

SpecDispatcher == InitDispatcher /\ [][NextDispatcher]_allVars

\* Send has been called, and its goroutines and the single calls run: delays
\* end, FCM and the limiter answer.
FairDispatcher ==
  /\ SpecDispatcher
  /\ WF_allVars(SendStart)
  /\ WF_allVars(SendReturns)
  /\ \A r \in Requests : WF_allVars(Run(r))

-----------------------------------------------------------------------------
Results ==
  [success : Nat, failure : Nat, invalid : SUBSET (AllFids \cup Singles),
   retryable : Nat]

TypeOKDispatcher ==
  /\ TypeOK
  /\ devices \in {call.devices : call \in Inputs}
  /\ oversized \in BOOLEAN /\ guarded \in BOOLEAN
  /\ send \in {"idle", "running", "returned"}
  /\ cancelled \subseteq Requests
  /\ phase \in [Requests -> {"start", "batch", "delay", "wait", "execute",
                             "admit", "fcm", "done"}]
  /\ \A r \in Requests :
       /\ attempt[r] \in 0 .. Attempts(r) - 1
       /\ \A i \in DOMAIN batches[r] :
            Len(batches[r][i]) \in 1 .. FCMMaxBatchSize
       /\ guarded => (phase[r] = "fcm" <=> status[r] \in InFn)
  /\ last \in [Requests -> Results]
  /\ sum \in [Requests -> Results]
  /\ result \in Results
  /\ accepted \in [AllFids -> Nat] /\ partial \in [AllFids -> Nat]
  /\ dead \subseteq AllFids
  /\ late \in [Requests -> Nat]

\* What Send returns adds up, however its goroutines interleave and whatever
\* the breaker, the limiter and the context do to them: every FID is counted
\* once, as a success or as a failure; no more successes are counted than
\* FIDs were sent the message; the invalid FIDs are among the failures and
\* FCM has called each of them so (types.go:228, "always >= len(InvalidFIDs),
\* since every invalid FID is also counted as a failure").
ResultAddsUp ==
  send = "returned" /\ ~oversized =>
    LET fids == Fids(devices)
    IN  /\ result.success + result.failure = Cardinality(fids)
        /\ result.success <= Cardinality({f \in fids : accepted[f] > 0})
        /\ result.invalid \subseteq dead
        /\ Cardinality(result.invalid) + result.retryable <= result.failure

\* publishToDLQIfUnresolved can rely on the counts: a FID that was neither
\* sent the message nor reported invalid is a failure beyond the invalid
\* ones, so FailureCount - len(InvalidFIDs) is positive when there is one.
UnsentIsUnresolved ==
  send = "returned" =>
    Cardinality({f \in Fids(devices) \ result.invalid : accepted[f] = 0})
      <= result.failure - Cardinality(result.invalid)

\* A device gets the message again only when a retry of its batch is due to
\* a retryable error of some device in it, never because of a breaker that
\* rejects, a limiter that errs or a multicast that fails.
ResentForRetryable == \A f \in AllFids : accepted[f] <= 1 + partial[f]

\* With a breaker, a goroutine calls FCM at most once after its context is
\* done, the call it was about to make, whatever retries and batches it has
\* left.
OneCallAfterCancel == guarded => \A r \in Requests : late[r] <= 1

\* Send returns: neither a breaker that stays open nor failures without end
\* keep its goroutines going.
SendTerminates == (send = "running") ~> (send = "returned")
=============================================================================
