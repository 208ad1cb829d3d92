------------------------ MODULE FCMDispatcherProofs -------------------------
(***************************************************************************)
(* Proofs about FCMDispatcher, for any devices, batch size, number of      *)
(* attempts, calls beside the Send, cancellations and breaker: every step  *)
(* of a goroutine keeps the invariant DispatcherInv, the properties follow, *)
(* and the composition implements the circuit breaker.                     *)
(***************************************************************************)
EXTENDS DispatcherBaseProofs

-----------------------------------------------------------------------------
(* The steps of a goroutine are of three kinds *)

\* FCM's answer a for the batch of r, and what becomes of the histories.
AnsweredWith(r, a) ==
  /\ AttemptDone(r, Tally(a), Tally(a).retryable > 0)
  /\ accepted' = [f \in AllFids |->
       IF f \in Fids(Head(batches[r])) /\ a[f] = "sent" THEN accepted[f] + 1
       ELSE accepted[f]]
  /\ partial' = [f \in AllFids |->
       IF f \in Fids(Head(batches[r])) /\ Tally(a).retryable > 0
       THEN partial[f] + 1 ELSE partial[f]]
  /\ dead' = dead \cup Tally(a).invalid

\* A step of a goroutine that ends an attempt with res.
Attempted(r, res) ==
  /\ phase[r] \in Busy \cup {"batch"} /\ batches[r] # <<>>
  /\ res \in Results /\ Ends(r, res)
  /\ UNCHANGED <<devices, oversized, guarded, send, cancelled, result, late>>
  /\ Grows
  /\ accepted' \in [AllFids -> Nat] /\ partial' \in [AllFids -> Nat]
  /\ dead' \subseteq AllFids
  /\ r \in Platforms /\ send = "running" =>
       Accounts(res, Fids(Head(batches[r])), accepted', dead')
  /\ \/ UNCHANGED <<accepted, dead, partial>>
     \/ /\ r \in Platforms
        /\ \E a \in [Fids(Head(batches[r])) -> Outcomes] : AnsweredWith(r, a)

\* How many steps an attempt is from its end, at most: the way goes from the
\* start of a batch, or a delay, over the limiter and the breaker to FCM.
Distance(p) ==
  CASE p \in {"batch", "delay"} -> 5
    [] p = "wait" -> 4
    [] p = "execute" -> 3
    [] p = "admit" -> 2
    [] p = "fcm" -> 1
    [] OTHER -> 0

\* A step that takes it on to q with its batch.
Walks(r, q) ==
  /\ phase[r] \in {"batch", "delay", "wait", "execute", "admit"}
  /\ batches[r] # <<>>
  /\ q \in {"wait", "execute", "admit", "fcm"}
  /\ Distance(q) < Distance(phase[r])
  /\ phase' = [phase EXCEPT ![r] = q]
  /\ late' \in [Requests -> Nat]
  /\ UNCHANGED <<devices, oversized, guarded, send, cancelled, batches,
                 attempt, last, sum, result, accepted, dead, partial>>

\* The whole batch fails: FCM is not called, or the call errs.
LEMMA ErrsAttempted ==
  ASSUME DispatcherType, Accounted, NEW r \in Requests,
         phase[r] \in Busy \cup {"batch"}, batches[r] # <<>>,
         Ends(r, AllFailed(Len(Head(batches[r])))),
         UNCHANGED <<devices, oversized, guarded, send, cancelled, result,
                     accepted, dead, partial, late>>
  PROVE  Attempted(r, AllFailed(Len(Head(batches[r]))))
<1>1. PICK n : n = Len(Head(batches[r]))
  BY Zenon
<1>2. n \in Nat
  <2>1. batches[r] \in Seq(Seq(DeviceOf(r)))
    BY Zenon DEF DispatcherType
  <2>2. QED
    BY <1>1, <2>1
<1>3. AllFailed(n) \in Results
  BY Zenon, <1>2, ResultTypes
<1>4. Grows
  BY Zenon, SameGrows
<1>5. r \in Platforms =>
        Accounts(AllFailed(n), Fids(Head(batches[r])), accepted', dead')
  BY Zenon, <1>1, HeadIs, FailedAccounts
<1>6. QED
  BY Zenon, <1>1, <1>3, <1>4, <1>5 DEF Attempted, DispatcherType

\* An attempt that ends in an error is one with every device of the batch a
\* failure.
LEMMA AttemptErrsAttempted ==
  ASSUME DispatcherType, Accounted, NEW r \in Requests,
         phase[r] \in Busy, AttemptErrs(r),
         UNCHANGED <<devices, oversized, guarded, send, cancelled, result,
                     accepted, dead, partial, late>>
  PROVE  Attempted(r, AllFailed(Len(Head(batches[r]))))
<1>1. batches[r] # <<>>
  BY Zenon DEF DispatcherType
<1>2. Ends(r, AllFailed(Len(Head(batches[r]))))
  BY Zenon, AttemptEnds DEF AttemptErrs
<1>3. QED
  BY Zenon, <1>1, <1>2, ErrsAttempted

\* StartBatch goes to wait for the rate limiter, or ends the attempt with
\* an error at a cancelled context.
LEMMA StartBatchKind ==
  ASSUME DispatcherType, Accounted, NEW r \in Requests, StartBatch(r)
  PROVE  Walks(r, "wait") \/ \E res : Attempted(r, res)
<1>1. CASE r \in cancelled
  <2>1. /\ phase[r] = "batch" /\ batches[r] # <<>>
        /\ EndBatch(r, AllFailed(Len(Head(batches[r]))))
        /\ UNCHANGED <<devices, oversized, guarded, send, cancelled, result,
                       accepted, dead, partial, late>>
    BY Zenon, <1>1 DEF StartBatch, input, history
  <2>2. Attempted(r, AllFailed(Len(Head(batches[r]))))
    BY Zenon, <2>1, ErrsAttempted DEF Ends
  <2>3. QED
    BY Zenon, <2>2
<1>2. CASE r \notin cancelled
  BY <1>2 DEF StartBatch, Walks, Distance, Goto, input, history, DispatcherType
<1>3. QED
  BY Zenon, <1>1, <1>2

\* After the backoff delay the sender waits for the rate limiter again.
LEMMA DelayOverKind ==
  ASSUME DispatcherType, NEW r \in Requests, DelayOver(r)
  PROVE  Walks(r, "wait")
BY DEF DelayOver, Walks, Distance, Goto, input, history, DispatcherType, Busy

\* A delay cut short by the context ends the batch with the last attempt's
\* result.
LEMMA DelayCancelledKind ==
  ASSUME DispatcherType, Accounted, NEW r \in Requests, DelayCancelled(r)
  PROVE  Attempted(r, last[r])
<1>1. /\ phase[r] = "delay" /\ EndBatch(r, last[r])
      /\ UNCHANGED <<devices, oversized, guarded, send, cancelled, result,
                     accepted, dead, partial, late>>
  BY Zenon DEF DelayCancelled, input, history
<1>2. batches[r] # <<>> /\ last[r] \in Results
  BY Zenon, <1>1 DEF DispatcherType, Busy
<1>3. r \in Platforms /\ send = "running" =>
        Accounts(last[r], Fids(Head(batches[r])), accepted', dead')
  BY Zenon, <1>1 DEF Accounted
<1>4. Grows
  BY Zenon, <1>1, SameGrows
<1>5. QED
  BY Zenon, <1>1, <1>2, <1>3, <1>4 DEF Attempted, Ends, DispatcherType, Busy

\* After the rate limiter the sender goes to the circuit breaker.
LEMMA WaitReturnsKind ==
  ASSUME DispatcherType, NEW r \in Requests, WaitReturns(r)
  PROVE  Walks(r, "execute")
BY DEF WaitReturns, Walks, Distance, Goto, input, history, DispatcherType,
       Busy

\* A rate limiter wait that fails ends the attempt with an error.
LEMMA WaitErrsKind ==
  ASSUME DispatcherType, Accounted, NEW r \in Requests, WaitErrs(r)
  PROVE  \E res : Attempted(r, res)
<1>1. /\ phase[r] = "wait" /\ AttemptErrs(r)
      /\ UNCHANGED <<devices, oversized, guarded, send, cancelled, result,
                     accepted, dead, partial, late>>
  BY Zenon DEF WaitErrs, input, history
<1>2. QED
  BY Zenon, <1>1, AttemptErrsAttempted DEF Busy

\* Calling FCM moves the sender to the call and changes nothing that is
\* accounted.
LEMMA CallWalks ==
  ASSUME DispatcherType, NEW r \in Requests, Call(r),
         phase[r] \in {"execute", "admit"},
         UNCHANGED <<devices, oversized, guarded, send, cancelled, result>>
  PROVE  Walks(r, "fcm")
BY DEF Call, Walks, Distance, Goto, DispatcherType, Busy

\* Without a circuit breaker the sender goes from the limiter straight to
\* the call.
LEMMA CallDirectlyKind ==
  ASSUME DispatcherType, NEW r \in Requests, CallDirectly(r)
  PROVE  Walks(r, "fcm")
BY Zenon, CallWalks DEF CallDirectly, input

\* Execute's context check either lets a context that is not cancelled
\* through to beforeRequest or ends the attempt.
LEMMA ExecuteKind ==
  ASSUME DispatcherType, Accounted, NEW r \in Requests, Execute(r)
  PROVE  \/ Walks(r, "admit") /\ r \notin cancelled
         \/ \E res : Attempted(r, res)
<1>1. CASE r \in cancelled
  <2>1. /\ phase[r] = "execute" /\ AttemptErrs(r)
        /\ UNCHANGED <<devices, oversized, guarded, send, cancelled, result,
                       accepted, dead, partial, late>>
    BY Zenon, <1>1 DEF Execute, input, history
  <2>2. QED
    BY Zenon, <2>1, AttemptErrsAttempted DEF Busy
<1>2. CASE r \notin cancelled
  BY <1>2 DEF Execute, Walks, Distance, Goto, input, history, DispatcherType,
              Busy
<1>3. QED
  BY Zenon, <1>1, <1>2

\* beforeRequest either admits the request, which is then in FCM's call, or
\* ends the attempt.
LEMMA AdmitKind ==
  ASSUME DispatcherType, Accounted, NEW r \in Requests, Admit(r)
  PROVE  \/ status'[r] \in InFn /\ Walks(r, "fcm")
         \/ status'[r] \notin InFn /\ \E res : Attempted(r, res)
<1>1. CASE status'[r] \in InFn
  BY Zenon, <1>1, CallWalks DEF Admit, input
<1>2. CASE status'[r] \notin InFn
  <2>1. /\ phase[r] = "admit" /\ AttemptErrs(r)
        /\ UNCHANGED <<devices, oversized, guarded, send, cancelled, result,
                       accepted, dead, partial, late>>
    BY Zenon, <1>2 DEF Admit, input, history
  <2>2. QED
    BY Zenon, <1>2, <2>1, AttemptErrsAttempted DEF Busy
<1>3. QED
  BY Zenon, <1>1, <1>2

\* A call of FCM that fails as a whole ends the attempt with an error.
LEMMA CallErrsKind ==
  ASSUME DispatcherType, Accounted, NEW r \in Requests, CallErrs(r)
  PROVE  \E res : Attempted(r, res)
<1>1. /\ phase[r] = "fcm" /\ AttemptErrs(r)
      /\ UNCHANGED <<devices, oversized, guarded, send, cancelled, result,
                     accepted, dead, partial, late>>
  BY Zenon DEF CallErrs, input, history
<1>2. QED
  BY Zenon, <1>1, AttemptErrsAttempted DEF Busy

\* SendSingle's successful answer ends its one attempt.
LEMMA SingleSentKind ==
  ASSUME DispatcherType, NEW r \in Requests, SingleSent(r)
  PROVE  \E res : Attempted(r, res)
<1>1. /\ phase[r] = "fcm" /\ r \in Singles
      /\ AttemptDone(r, [Empty EXCEPT !.success = 1], FALSE)
      /\ UNCHANGED <<devices, oversized, guarded, send, cancelled, result,
                     accepted, dead, partial, late>>
  BY Zenon DEF SingleSent, input, history
<1>2. PICK res : res = [Empty EXCEPT !.success = 1]
  BY Zenon
<1>3. res \in Results /\ Ends(r, res)
  BY Zenon, <1>1, <1>2, ResultTypes, AttemptEnds
<1>4. batches[r] # <<>>
  BY Zenon, <1>1 DEF DispatcherType, Busy
<1>5. r \notin Platforms
  BY Zenon, <1>1, DispatcherAssumption
<1>6. Grows
  BY Zenon, <1>1, SameGrows
<1>7. Attempted(r, res)
  BY Zenon, <1>1, <1>3, <1>4, <1>5, <1>6 DEF Attempted, DispatcherType, Busy
<1>8. QED
  BY Zenon, <1>7

-----------------------------------------------------------------------------
(* The answer of FCM; the types *)

\* What a multicast answer changes, with the outcome it gives to each
\* device named.
LEMMA AnsweredIs ==
  ASSUME DispatcherType, NEW r \in Requests, Answered(r)
  PROVE  /\ phase[r] = "fcm" /\ r \in Platforms /\ batches[r] # <<>>
         /\ \E a \in [Fids(Head(batches[r])) -> Outcomes] : AnsweredWith(r, a)
         /\ UNCHANGED <<devices, oversized, guarded, send, cancelled, result, late>>
<1>1. /\ phase[r] = "fcm" /\ r \in Platforms
      /\ \E a \in [Fids(Head(batches[r])) -> Outcomes] : AnsweredWith(r, a)
      /\ UNCHANGED <<devices, oversized, guarded, send, cancelled, result, late>>
  BY Zenon DEF Answered, AnsweredWith, input
<1>2. batches[r] # <<>>
  BY Zenon, <1>1 DEF DispatcherType, Busy
<1>3. QED
  BY Zenon, <1>1, <1>2

\* The result of a response is a result, and its invalid tokens are devices
\* of the batch.
LEMMA TallyType ==
  ASSUME NEW F, IsFiniteSet(F), F \subseteq AllFids, NEW a \in [F -> Outcomes]
  PROVE  Tally(a) \in Results /\ Tally(a).invalid \subseteq F
<1> DEFINE of(what) == {f \in DOMAIN a : a[f] = what}
<1>1. /\ of("sent") \subseteq F /\ of("invalid") \subseteq F
      /\ of("retryable") \subseteq F /\ DOMAIN a \ of("sent") \subseteq F
  BY Zenon
<1> HIDE DEF of
<1>2. /\ Cardinality(of("sent")) \in Nat
      /\ Cardinality(of("retryable")) \in Nat
      /\ Cardinality(DOMAIN a \ of("sent")) \in Nat
  BY Zenon, <1>1, SmallerCount
<1>3. Tally(a) = [success |-> Cardinality(of("sent")),
                  failure |-> Cardinality(DOMAIN a \ of("sent")),
                  invalid |-> of("invalid"),
                  retryable |-> Cardinality(of("retryable"))]
  BY Zenon DEF Tally, of
<1>4. QED
  BY <1>1, <1>2, <1>3 DEF Results

\* A multicast answer ends the attempt with the result of the response.
LEMMA AnsweredKind ==
  ASSUME DispatcherType, Accounted, NEW r \in Requests, Answered(r)
  PROVE  \E res : Attempted(r, res)
<1>1. /\ phase[r] = "fcm" /\ r \in Platforms /\ batches[r] # <<>>
      /\ UNCHANGED <<devices, oversized, guarded, send, cancelled, result, late>>
  BY Zenon, AnsweredIs
<1>2. PICK F : F = Fids(Head(batches[r]))
  BY Zenon
<1>3. IsFiniteSet(F) /\ F \subseteq AllFids
  BY Zenon, <1>1, <1>2, HeadIs
<1>4. PICK a \in [F -> Outcomes] : AnsweredWith(r, a)
  BY Zenon, <1>2, AnsweredIs
<1>5. Tally(a) \in Results /\ Tally(a).invalid \subseteq F
  BY Zenon, <1>3, TallyType
<1>6. Ends(r, Tally(a))
  BY Zenon, <1>4, AttemptEnds DEF AnsweredWith
<1>7. /\ accepted \in [AllFids -> Nat] /\ partial \in [AllFids -> Nat]
      /\ dead \subseteq AllFids
  BY Zenon DEF DispatcherType
<1>8. /\ accepted' \in [AllFids -> Nat]
      /\ \A f \in AllFids : accepted[f] <= accepted'[f]
      /\ \A f \in F : a[f] = "sent" => accepted'[f] > 0
  BY <1>2, <1>3, <1>4, <1>7 DEF AnsweredWith
<1>9. partial' \in [AllFids -> Nat]
  BY <1>4, <1>7 DEF AnsweredWith
<1>10. dead' \subseteq AllFids /\ dead \subseteq dead' /\ Tally(a).invalid \subseteq dead'
  BY Zenon, <1>3, <1>4, <1>5, <1>7 DEF AnsweredWith
<1>11. Grows
  BY Zenon, <1>7, <1>8, <1>10 DEF Grows
<1>12. Accounts(Tally(a), F, accepted', dead')
  BY Zenon, <1>3, <1>8, <1>10, TallyAccounts
<1>13. Attempted(r, Tally(a))
  BY Zenon, <1>1, <1>2, <1>4, <1>5, <1>6, <1>8, <1>9, <1>10, <1>11, <1>12
  DEF Attempted, Busy
<1>14. QED
  BY Zenon, <1>13

\* A step of a goroutine takes it on, ends an attempt, or is its last.
LEMMA RunKinds ==
  ASSUME DispatcherType, Accounted, NEW r \in Requests, Run(r)
  PROVE  \/ \E q : Walks(r, q)
         \/ \E res : Attempted(r, res)
         \/ Finish(r)
BY Zenon, StartBatchKind, DelayOverKind, DelayCancelledKind, WaitReturnsKind,
   WaitErrsKind, CallDirectlyKind, ExecuteKind, AdmitKind, AnsweredKind,
   SingleSentKind, CallErrsKind
DEF Run, sendBatch

\* A step on the way to FCM keeps every variable in its type.
LEMMA WalksType ==
  ASSUME DispatcherType, NEW r \in Requests, NEW q, Walks(r, q)
  PROVE  DispatcherType'
<1>1. phase' \in [Requests -> Phases]
  BY Zenon DEF DispatcherType, Walks, Phases, Busy
<1>2. \A p \in Requests : phase'[p] \in Busy => batches'[p] # <<>>
  BY Zenon DEF DispatcherType, Walks
<1>3. QED
  BY Zenon, <1>1, <1>2 DEF DispatcherType, Walks, Attempts

\* The end of a SendSplit keeps every variable in its type.
LEMMA FinishType ==
  ASSUME DispatcherType, NEW r \in Requests, Finish(r)
  PROVE  DispatcherType'
<1>1. /\ phase' = [phase EXCEPT ![r] = "done"]
      /\ sum' = [sum EXCEPT ![r] = Empty]
      /\ result' = result \/ result' = Plus(result, sum[r])
      /\ UNCHANGED <<devices, oversized, guarded, send, cancelled, batches,
                     attempt, last, accepted, dead, partial, late>>
  BY Zenon DEF Finish, Goto, input, history
<1>2. phase' \in [Requests -> Phases]
  BY Zenon, <1>1 DEF DispatcherType, Phases
<1>3. \A p \in Requests : phase'[p] \in Busy => batches'[p] # <<>>
  BY Zenon, <1>1 DEF DispatcherType, Busy
<1>4. sum' \in [Requests -> Results]
  BY Zenon, <1>1, ResultTypes DEF DispatcherType
<1>5. result' \in Results
  BY <1>1, ResultTypes DEF DispatcherType
<1>6. QED
  BY Zenon, <1>1, <1>2, <1>3, <1>4, <1>5 DEF DispatcherType, Attempts

\* The end of an attempt keeps every variable in its type, FCM's answer
\* included.
LEMMA AttemptedType ==
  ASSUME DispatcherType, NEW r \in Requests, NEW res, Attempted(r, res)
  PROVE  DispatcherType'
<1>1. /\ batches[r] # <<>> /\ res \in Results /\ Ends(r, res)
      /\ UNCHANGED <<devices, oversized, guarded, send, cancelled, result>>
      /\ accepted' \in [AllFids -> Nat] /\ partial' \in [AllFids -> Nat]
      /\ dead' \subseteq AllFids /\ late' \in [Requests -> Nat]
  BY Zenon DEF Attempted, DispatcherType
<1>2. QED
  BY Zenon, <1>1, EndsType

\* Only while Send runs do its goroutines.
LEMMA BusyIsRunning ==
  ASSUME DispatcherType, Staged, NEW p \in Platforms,
         phase[p] \in Busy \cup {"batch"}
  PROVE  send = "running"
BY Zenon DEF DispatcherType, Staged, Busy

-----------------------------------------------------------------------------
(* The stage and the accounts *)

\* What a step does to the other goroutines' queues and phases.
LEMMA AttemptedEffect ==
  ASSUME DispatcherType, NEW r \in Requests, NEW res, Attempted(r, res)
  PROVE  /\ \A q \in Requests \ {r} :
              /\ batches'[q] = batches[q] /\ phase'[q] = phase[q]
              /\ sum'[q] = sum[q] /\ last'[q] = last[q]
         /\ phase'[r] \in {"delay", "batch"}
<1>1. Ends(r, res)
  BY Zenon DEF Attempted
<1>2. QED
  BY Zenon, <1>1, EndsEffect

\* While Send runs, a sender that steps without going back to its start
\* keeps Staged.
LEMMA RunPlatform ==
  ASSUME DispatcherType, Staged, NEW r \in Platforms, send = "running",
         UNCHANGED <<send, oversized>>,
         phase'[r] # "start", \A p \in Platforms \ {r} : phase'[p] = phase[p]
  PROVE  Staged'
<1>1. \A p \in Platforms : phase'[p] # "start"
  BY Zenon DEF Staged
<1>2. QED
  BY Zenon, <1>1 DEF Staged

\* A SendSingle step, which leaves every platform's sender alone, keeps
\* Staged.
LEMMA RunSingle ==
  ASSUME DispatcherType, Staged,
         UNCHANGED <<devices, oversized, send, result, accepted>>,
         \A p \in Platforms : phase'[p] = phase[p] /\ sum'[p] = sum[p]
  PROVE  Staged'
BY Zenon DEF Staged

\* Every step of a sender keeps Staged.
LEMMA RunStaged ==
  ASSUME DispatcherType, Accounted, Staged, NEW r \in Requests, Run(r)
  PROVE  Staged'
<1>0. Platforms \subseteq Requests
  BY Zenon, DispatcherAssumption
<1>1. ASSUME NEW q, Walks(r, q)
      PROVE  Staged'
  <2>1. /\ phase[r] \in Busy \cup {"batch"} /\ phase'[r] # "start"
        /\ \A p \in Requests \ {r} : phase'[p] = phase[p]
        /\ UNCHANGED <<devices, oversized, send, result, accepted, sum>>
    BY Zenon, <1>1 DEF Walks, DispatcherType, Busy
  <2>2. CASE r \in Platforms
    BY Zenon, <1>0, <2>1, <2>2, BusyIsRunning, RunPlatform
  <2>3. CASE r \notin Platforms
    BY Zenon, <1>0, <2>1, <2>3, RunSingle
  <2>4. QED
    BY Zenon, <2>2, <2>3
<1>2. ASSUME NEW res, Attempted(r, res)
      PROVE  Staged'
  <2>1. /\ \A q \in Requests \ {r} : phase'[q] = phase[q] /\ sum'[q] = sum[q]
        /\ phase'[r] # "start"
    BY Zenon, <1>2, AttemptedEffect
  <2>2. CASE r \in Platforms
    <3>1. phase[r] \in Busy \cup {"batch"} /\ UNCHANGED <<send, oversized>>
      BY Zenon, <1>2 DEF Attempted
    <3>2. QED
      BY Zenon, <1>0, <2>1, <2>2, <3>1, BusyIsRunning, RunPlatform
  <2>3. CASE r \notin Platforms
    <3>1. UNCHANGED <<devices, oversized, send, result, accepted>>
      BY Zenon, <1>2, <2>3 DEF Attempted
    <3>2. QED
      BY Zenon, <1>0, <2>1, <2>3, <3>1, RunSingle
  <2>4. QED
    BY Zenon, <2>2, <2>3
<1>3. CASE Finish(r)
  <2>1. /\ phase[r] = "batch" /\ phase'[r] = "done"
        /\ \A q \in Requests \ {r} : phase'[q] = phase[q] /\ sum'[q] = sum[q]
        /\ UNCHANGED <<devices, oversized, send, accepted>>
        /\ r \notin Platforms => UNCHANGED result
    BY Zenon, <1>3 DEF Finish, Goto, input, history, DispatcherType
  <2>2. CASE r \in Platforms
    BY Zenon, <1>0, <2>1, <2>2, BusyIsRunning, RunPlatform
  <2>3. CASE r \notin Platforms
    BY Zenon, <1>0, <2>1, <2>3, RunSingle
  <2>4. QED
    BY Zenon, <2>2, <2>3
<1>4. QED
  BY Zenon, <1>1, <1>2, <1>3, RunKinds

\* Every step of a sender keeps Accounted, by the kind of the step: the way
\* to FCM changes no result, the end of an attempt is EndsAccounted and the
\* end of a SendSplit is FinishAccounted.
LEMMA RunAccounted ==
  ASSUME DispatcherType, Accounted, Staged, NEW r \in Requests, Run(r)
  PROVE  Accounted'
<1>0. Platforms \subseteq Requests
  BY Zenon, DispatcherAssumption
<1>1. ASSUME NEW q, Walks(r, q)
      PROVE  Accounted'
  <2>1. /\ UNCHANGED <<devices, oversized, send, result, accepted, dead, batches, sum, last>>
        /\ \A p \in Platforms :
             /\ phase'[p] = "done" <=> phase[p] = "done"
             /\ phase'[p] = "delay" => phase[p] = "delay"
    BY Zenon, <1>0, <1>1 DEF Walks, DispatcherType
  <2>2. QED
    BY Zenon, <2>1, SameGrows, AccountedKept
<1>2. ASSUME NEW res, Attempted(r, res)
      PROVE  Accounted'
  <2>1. CASE r \in Platforms
    <3>1. send = "running"
      BY Zenon, <1>2, <2>1, BusyIsRunning DEF Attempted
    <3>2. /\ Grows /\ phase[r] # "done" /\ batches[r] # <<>> /\ Ends(r, res)
          /\ Accounts(res, Fids(Head(batches[r])), accepted', dead')
          /\ UNCHANGED <<devices, oversized, send, result>>
      BY Zenon, <1>2, <2>1, <3>1 DEF Attempted, Busy
    <3>3. QED
      BY Zenon, <2>1, <3>1, <3>2, EndsAccounted
  <2>2. CASE r \notin Platforms
    <3>1. \A p \in Platforms :
            /\ batches'[p] = batches[p] /\ phase'[p] = phase[p]
            /\ sum'[p] = sum[p] /\ last'[p] = last[p]
      BY Zenon, <1>0, <1>2, <2>2, AttemptedEffect
    <3>2. Grows /\ UNCHANGED <<devices, oversized, send, result>>
      BY Zenon, <1>2 DEF Attempted
    <3>3. QED
      BY Zenon, <3>1, <3>2, AccountedKept
  <2>3. QED
    BY Zenon, <2>1, <2>2
<1>3. CASE Finish(r)
  <2>1. CASE r \in Platforms
    <3>1. phase[r] = "batch"
      BY Zenon, <1>3 DEF Finish
    <3>2. send = "running"
      BY Zenon, <2>1, <3>1, BusyIsRunning
    <3>3. QED
      BY Zenon, <1>3, <2>1, <3>2, FinishAccounted
  <2>2. CASE r \notin Platforms
    <3>1. /\ UNCHANGED <<devices, oversized, send, result, accepted, dead, batches, last>>
          /\ \A p \in Platforms : phase'[p] = phase[p] /\ sum'[p] = sum[p]
      BY Zenon, <1>0, <1>3, <2>2 DEF Finish, Goto, input, history,
         DispatcherType
    <3>2. QED
      BY Zenon, <3>1, SameGrows, AccountedKept
  <2>3. QED
    BY Zenon, <2>1, <2>2
<1>4. QED
  BY Zenon, <1>1, <1>2, <1>3, RunKinds

-----------------------------------------------------------------------------
(* Nothing is sent again but for retryable errors *)

\* Resent survives a step that neither adds acceptances nor puts a device
\* back into a queue.
LEMMA ResentKept ==
  ASSUME Resent, UNCHANGED <<accepted, partial>>,
         \A p \in Platforms : Left(p)' \subseteq Left(p)
  PROVE  Resent'
BY Zenon DEF Resent, ResentForRetryable

\* The queues only get shorter.
LEMMA AttemptedLeft ==
  ASSUME DispatcherType, Accounted, NEW r \in Requests, NEW res, Attempted(r, res)
  PROVE  \A p \in Platforms : Left(p)' \subseteq Left(p)
<1>1. Ends(r, res) /\ batches[r] # <<>>
  BY Zenon DEF Attempted
<1>2. /\ \A q \in Requests \ {r} : batches'[q] = batches[q]
      /\ batches'[r] = batches[r] \/ batches'[r] = Tail(batches[r])
  BY Zenon, <1>1, EndsEffect
<1>3. FidsIn(Tail(batches[r])) \subseteq Left(r)
  BY Zenon, <1>1, QueueTail DEF DispatcherType, Left
<1>4. QED
  BY Zenon, <1>2, <1>3, DispatcherAssumption DEF Left

\* A batch is answered: who is sent the message again has had a retryable
\* error in the batch.
LEMMA AnsweredResent ==
  ASSUME DispatcherType, Accounted, Resent, NEW r \in Platforms,
         batches[r] # <<>>, NEW a \in [Fids(Head(batches[r])) -> Outcomes],
         AnsweredWith(r, a)
  PROVE  Resent'
<1>1. r \in Requests /\ Platforms \subseteq Requests
  BY Zenon, DispatcherAssumption
<1> DEFINE again == Tally(a).retryable > 0
<1>2. PICK F : F = Fids(Head(batches[r]))
  BY Zenon
<1>3. /\ F \subseteq Left(r) /\ F \subseteq AllFids /\ Left(r) \subseteq GroupFids(r)
      /\ FidsIn(Tail(batches[r])) = Left(r) \ F
  BY Zenon, <1>2, HeadIs
<1>4. accepted \in [AllFids -> Nat] /\ partial \in [AllFids -> Nat]
  BY Zenon DEF DispatcherType
<1>5. /\ \A f \in AllFids \ F : accepted'[f] = accepted[f] /\ partial'[f] = partial[f]
      /\ \A f \in F : /\ accepted'[f] \in Nat /\ accepted'[f] <= accepted[f] + 1
                      /\ partial'[f] \in Nat /\ partial'[f] >= partial[f]
                      /\ again => partial'[f] = partial[f] + 1
  <2>1. /\ accepted' = [f \in AllFids |->
             IF f \in F /\ a[f] = "sent" THEN accepted[f] + 1 ELSE accepted[f]]
        /\ partial' = [f \in AllFids |->
             IF f \in F /\ again THEN partial[f] + 1 ELSE partial[f]]
    BY Zenon, <1>2 DEF AnsweredWith
  <2> HIDE DEF again
  <2>2. /\ \A f \in AllFids \ F : accepted'[f] = accepted[f]
        /\ \A f \in F : accepted'[f] \in Nat /\ accepted'[f] <= accepted[f] + 1
    BY <1>3, <1>4, <2>1
  <2>3. /\ \A f \in AllFids \ F : partial'[f] = partial[f]
        /\ \A f \in F : /\ partial'[f] \in Nat /\ partial'[f] >= partial[f]
                        /\ again => partial'[f] = partial[f] + 1
    BY <1>3, <1>4, <2>1
  <2>4. QED
    BY Zenon, <2>2, <2>3
<1> HIDE DEF again
<1>6. \A f \in F : accepted[f] <= partial[f]
  BY Zenon, <1>3 DEF Resent
<1>7. ResentForRetryable'
  <2> SUFFICES ASSUME NEW f \in AllFids
               PROVE  accepted'[f] <= 1 + partial'[f]
    BY Zenon DEF ResentForRetryable
  <2>1. accepted[f] \in Nat /\ partial[f] \in Nat /\ accepted[f] <= 1 + partial[f]
    BY Zenon, <1>4 DEF Resent, ResentForRetryable
  <2>2. QED
    BY <1>5, <1>6, <2>1
<1>8. /\ \A q \in Platforms \ {r} : batches'[q] = batches[q]
      /\ \/ again /\ batches'[r] = batches[r]
         \/ batches'[r] = Tail(batches[r])
  BY Zenon, <1>1 DEF AnsweredWith, AttemptDone, EndBatch, DispatcherType, again
<1>9. ASSUME NEW p \in Platforms, NEW f \in Left(p)'
      PROVE  accepted'[f] <= partial'[f]
  <2>1. CASE p # r
    <3>1. f \in Left(p) /\ f \in GroupFids(p)
      BY Zenon, <1>8, <1>9, <2>1 DEF Left, Accounted
    <3>2. f \in AllFids \ F
      BY Zenon, <1>3, <2>1, <3>1, GroupsAre
    <3>3. QED
      BY Zenon, <1>5, <3>1, <3>2 DEF Resent
  <2>2. CASE p = r /\ batches'[r] = Tail(batches[r])
    <3>1. f \in Left(r) \ F
      BY Zenon, <1>3, <1>9, <2>2 DEF Left
    <3>2. f \in AllFids \ F
      BY Zenon, <1>3, <3>1, GroupsAre
    <3>3. QED
      BY Zenon, <1>5, <3>1, <3>2 DEF Resent
  <2>3. CASE p = r /\ again /\ batches'[r] = batches[r]
    <3>1. f \in Left(r)
      BY Zenon, <1>9, <2>3 DEF Left
    <3>2. f \in AllFids
      BY Zenon, <1>3, <3>1, GroupsAre
    <3>3. accepted[f] <= partial[f] /\ accepted[f] \in Nat /\ partial[f] \in Nat
      BY Zenon, <1>4, <3>1, <3>2 DEF Resent
    <3>4. QED
      BY <1>5, <2>3, <3>2, <3>3
  <2>4. QED
    BY Zenon, <1>8, <2>1, <2>2, <2>3
<1>10. QED
  BY Zenon, <1>7, <1>9 DEF Resent

\* Every step of a sender keeps Resent: only an answer of FCM can break it,
\* and AnsweredResent is about that one.
LEMMA RunResent ==
  ASSUME DispatcherType, Accounted, Resent, NEW r \in Requests, Run(r)
  PROVE  Resent'
<1>1. ASSUME NEW q, Walks(r, q)
      PROVE  Resent'
  <2>1. UNCHANGED <<accepted, partial, batches>>
    BY Zenon, <1>1 DEF Walks
  <2>2. QED
    BY Zenon, <2>1, ResentKept DEF Left
<1>2. ASSUME NEW res, Attempted(r, res)
      PROVE  Resent'
  <2>1. CASE UNCHANGED <<accepted, dead, partial>>
    BY Zenon, <1>2, <2>1, AttemptedLeft, ResentKept
  <2>2. CASE /\ r \in Platforms
             /\ \E a \in [Fids(Head(batches[r])) -> Outcomes] : AnsweredWith(r, a)
    <3>1. batches[r] # <<>>
      BY Zenon, <1>2 DEF Attempted
    <3>2. QED
      BY Zenon, <2>2, <3>1, AnsweredResent
  <2>3. QED
    BY Zenon, <1>2, <2>1, <2>2 DEF Attempted
<1>3. CASE Finish(r)
  <2>1. UNCHANGED <<accepted, partial, batches>>
    BY Zenon, <1>3 DEF Finish, history
  <2>2. QED
    BY Zenon, <2>1, ResentKept DEF Left
<1>4. QED
  BY Zenon, <1>1, <1>2, <1>3, RunKinds

\* SendStart queues devices to which nothing was sent yet.
LEMMA SendStartResent ==
  ASSUME DispatcherType, Staged, Accounted, Resent, SendStart
  PROVE  Resent'
<1>1. send = "idle" /\ UNCHANGED <<accepted, partial>>
  BY Zenon, SendStartEffect
<1>2. \A f \in AllFids : accepted[f] = 0 /\ partial[f] \in Nat
  BY Zenon, <1>1 DEF Staged, DispatcherType
<1>3. DispatcherType' /\ Accounted'
  BY Zenon, SendStartType, SendStartAccounted
<1>4. \A p \in Platforms : Left(p)' \subseteq AllFids
  <2>1. \A p \in Platforms : Left(p)' \subseteq GroupFids(p)'
    BY Zenon, <1>3 DEF Accounted
  <2>2. \A p \in Platforms : GroupFids(p)' = GroupFids(p)
    BY Zenon, SendStartEffect DEF GroupFids
  <2>3. QED
    BY Zenon, <2>1, <2>2, GroupsAre
<1>5. QED
  BY <1>1, <1>2, <1>4 DEF Resent, ResentForRetryable

-----------------------------------------------------------------------------
(* Calls after the context is done; the calls inside fn *)

\* Late survives a step that calls FCM for no one and lets no cancelled
\* context past Execute's check.
LEMMA LateKept ==
  ASSUME DispatcherType, Late, UNCHANGED <<guarded, late>>, cancelled \subseteq cancelled',
         \A q \in Requests :
           phase'[q] = "admit" => phase[q] = "admit" \/ q \notin cancelled
  PROVE  Late'
BY Zenon DEF DispatcherType, Late

\* The end of an attempt keeps Late.
LEMMA AttemptedLate ==
  ASSUME DispatcherType, Late, NEW r \in Requests, NEW res, Attempted(r, res)
  PROVE  Late'
<1>1. UNCHANGED <<guarded, cancelled, late>>
  BY Zenon DEF Attempted
<1>2. /\ \A q \in Requests \ {r} : phase'[q] = phase[q]
      /\ phase'[r] # "admit"
  BY Zenon, AttemptedEffect
<1>3. QED
  BY Zenon, <1>1, <1>2, LateKept

\* Every step of a sender keeps Late: a call made after the cancellation
\* was admitted before it, and leaves the admit phase for good.
LEMMA RunLate ==
  ASSUME DispatcherType, Accounted, Late, NEW r \in Requests, Run(r)
  PROVE  Late'
<1>1. phase \in [Requests -> Phases]
  BY Zenon DEF DispatcherType
<1>2. ASSUME NEW q, Walks(r, q), late' = late, q # "admit" \/ r \notin cancelled
      PROVE  Late'
  <2>1. /\ UNCHANGED <<guarded, cancelled, late>>
        /\ \A p \in Requests :
             phase'[p] = "admit" => phase[p] = "admit" \/ p \notin cancelled
    BY Zenon, <1>1, <1>2 DEF Walks
  <2>2. QED
    BY Zenon, <2>1, LateKept
<1>3. CASE StartBatch(r)
  <2>1. late' = late
    BY Zenon, <1>3 DEF StartBatch, history
  <2>2. QED
    BY Zenon, <1>2, <1>3, <2>1, StartBatchKind, AttemptedLate
<1>4. CASE Finish(r)
  <2>1. /\ UNCHANGED <<guarded, cancelled, late>>
        /\ \A p \in Requests : phase'[p] = "admit" => phase[p] = "admit"
    BY Zenon, <1>1, <1>4 DEF Finish, Goto, input, history
  <2>2. QED
    BY Zenon, <2>1, LateKept
<1>5. CASE DelayOver(r)
  <2>1. late' = late
    BY Zenon, <1>5 DEF DelayOver, history
  <2>2. QED
    BY Zenon, <1>2, <1>5, <2>1, DelayOverKind
<1>6. CASE DelayCancelled(r)
  BY Zenon, <1>6, DelayCancelledKind, AttemptedLate
<1>7. CASE WaitReturns(r)
  <2>1. late' = late
    BY Zenon, <1>7 DEF WaitReturns, history
  <2>2. QED
    BY Zenon, <1>2, <1>7, <2>1, WaitReturnsKind
<1>8. CASE WaitErrs(r)
  BY Zenon, <1>8, WaitErrsKind, AttemptedLate
<1>9. CASE CallDirectly(r)
  BY Zenon, <1>9 DEF CallDirectly, Late, input
<1>10. CASE Execute(r)
  <2>1. late' = late
    BY Zenon, <1>10 DEF Execute, AttemptErrs, history
  <2>2. QED
    BY Zenon, <1>2, <1>10, <2>1, ExecuteKind, AttemptedLate
<1>11. CASE Admit(r)
  <2>1. CASE \E res : Attempted(r, res)
    BY Zenon, <2>1, AttemptedLate
  <2>2. CASE status'[r] \in InFn /\ Walks(r, "fcm")
    <3>1. /\ phase[r] = "admit" /\ UNCHANGED <<guarded, cancelled>>
          /\ late' = [late EXCEPT ![r] = IF r \in cancelled THEN @ + 1 ELSE @]
          /\ phase' = [phase EXCEPT ![r] = "fcm"]
      BY Zenon, <1>11, <2>2 DEF Admit, Call, Goto, input
    <3>2. late \in [Requests -> Nat]
      BY Zenon DEF DispatcherType
    <3> SUFFICES ASSUME guarded, NEW q \in Requests
                 PROVE  /\ late'[q] <= 1
                        /\ late'[q] = 1 => q \in cancelled' /\ phase'[q] # "admit"
      BY Zenon, <3>1 DEF Late
    <3>3. CASE q = r
      <4>1. late[r] = 0
        BY <3>1, <3>2 DEF Late
      <4>2. QED
        BY <1>1, <3>1, <3>2, <3>3, <4>1
    <3>4. CASE q # r
      BY Zenon, <1>1, <3>1, <3>2, <3>4 DEF Late
    <3>5. QED
      BY Zenon, <3>3, <3>4
  <2>3. QED
    BY Zenon, <1>11, <2>1, <2>2, AdmitKind
<1>12. CASE Answered(r)
  BY Zenon, <1>12, AnsweredKind, AttemptedLate
<1>13. CASE SingleSent(r)
  BY Zenon, <1>13, SingleSentKind, AttemptedLate
<1>14. CASE CallErrs(r)
  BY Zenon, <1>14, CallErrsKind, AttemptedLate
<1>15. QED
  BY Zenon, <1>3, <1>4, <1>5, <1>6, <1>7, <1>8, <1>9, <1>10, <1>11, <1>12, <1>13, <1>14
  DEF Run, sendBatch

\* beforeRequest changes the status of the request it is called for only.
LEMMA BeforeRequestStatus ==
  ASSUME TypeOK, NEW r \in Requests, beforeRequest(r)
  PROVE  \A q \in Requests \ {r} : status'[q] = status[q]
BY Zenon DEF TypeOK, beforeRequest, AdmitClosed, RejectOpen, StartHalfOpen,
       AdmitTrial, RejectHalfOpen, Moved

\* afterRequest takes its request out of fn and leaves every other one in
\* or out of it.
LEMMA AfterRequestStatus ==
  ASSUME TypeOK, NEW r \in Requests, afterRequest(r)
  PROVE  /\ status'[r] \notin InFn
         /\ \A q \in Requests \ {r} : status'[q] \in InFn <=> status[q] \in InFn
<1>1. status \in [Requests -> InFn \cup Returned]
  BY Zenon DEF TypeOK
<1>2. \/ status' = Moved(r, "idle")
      \/ status' = [EpisodeOver EXCEPT ![r] = "idle"]
  BY Zenon DEF afterRequest, Failed, Succeeded, openCircuit, closeCircuit
<1>3. CASE status' = Moved(r, "idle")
  BY Zenon, <1>1, <1>3 DEF Moved, InFn
<1>4. CASE status' = [EpisodeOver EXCEPT ![r] = "idle"]
  BY Zenon, <1>1, <1>4 DEF EpisodeOver, InFn
<1>5. QED
  BY Zenon, <1>2, <1>3, <1>4

\* InBreaker survives a step that moves no one into or out of FCM's call or
\* fn.
LEMMA InBreakerKept ==
  ASSUME InBreaker, UNCHANGED guarded,
         \A q \in Requests : /\ phase'[q] = "fcm" <=> phase[q] = "fcm"
                             /\ status'[q] \in InFn <=> status[q] \in InFn
  PROVE  InBreaker'
BY Zenon DEF InBreaker

\* A step outside the breaker.
LEMMA QuietInBreaker ==
  ASSUME DispatcherType, InBreaker, NEW r \in Requests, UNCHANGED <<guarded, status>>,
         phase[r] # "fcm",
         \/ \E q : Walks(r, q) /\ q # "fcm"
         \/ \E res : Attempted(r, res)
  PROVE  InBreaker'
<1>1. \A q \in Requests : phase'[q] = "fcm" <=> phase[q] = "fcm"
  <2>1. ASSUME NEW q, Walks(r, q), q # "fcm"
        PROVE  \A p \in Requests : phase'[p] = "fcm" <=> phase[p] = "fcm"
    BY Zenon, <2>1 DEF Walks, DispatcherType
  <2>2. ASSUME NEW res, Attempted(r, res)
        PROVE  \A p \in Requests : phase'[p] = "fcm" <=> phase[p] = "fcm"
    BY Zenon, <2>2, AttemptedEffect
  <2>3. QED
    BY Zenon, <2>1, <2>2
<1>2. QED
  BY Zenon, <1>1, InBreakerKept

\* fn has returned.
LEMMA ReturnsInBreaker ==
  ASSUME TypeOK, DispatcherType, InBreaker, NEW r \in Requests,
         Returns(r, TRUE) \/ Returns(r, FALSE), UNCHANGED guarded,
         \E res : Attempted(r, res)
  PROVE  InBreaker'
<1> SUFFICES ASSUME guarded
             PROVE  \A q \in Requests : phase'[q] = "fcm" <=> status'[q] \in InFn
  BY Zenon DEF InBreaker
<1>1. afterRequest(r)
  BY Zenon DEF Returns, afterRequest
<1>2. /\ status'[r] \notin InFn
      /\ \A q \in Requests \ {r} : status'[q] \in InFn <=> status[q] \in InFn
  BY Zenon, <1>1, AfterRequestStatus
<1>3. /\ \A q \in Requests \ {r} : phase'[q] = phase[q]
      /\ phase'[r] # "fcm"
  BY Zenon, AttemptedEffect
<1>4. QED
  BY Zenon, <1>2, <1>3 DEF InBreaker

-----------------------------------------------------------------------------
(* The dispatcher drives the breaker *)

\* Every step of a sender keeps InBreaker: the call of FCM is the function
\* the breaker runs.
LEMMA RunInBreaker ==
  ASSUME TypeOK, DispatcherType, Accounted, InBreaker, NEW r \in Requests, Run(r)
  PROVE  InBreaker'
<1>1. CASE StartBatch(r)
  <2>1. phase[r] # "fcm" /\ UNCHANGED <<guarded, status>>
    BY Zenon, <1>1 DEF StartBatch, input, vars
  <2>2. QED
    BY <1>1, <2>1, StartBatchKind, QuietInBreaker
<1>2. CASE Finish(r)
  <2>1. /\ UNCHANGED <<guarded, status>>
        /\ \A q \in Requests : phase'[q] = "fcm" <=> phase[q] = "fcm"
    BY Zenon, <1>2 DEF Finish, Goto, input, vars, DispatcherType
  <2>2. QED
    BY Zenon, <2>1, InBreakerKept
<1>3. CASE DelayOver(r)
  <2>1. phase[r] # "fcm" /\ UNCHANGED <<guarded, status>>
    BY Zenon, <1>3 DEF DelayOver, input, vars
  <2>2. QED
    BY <1>3, <2>1, DelayOverKind, QuietInBreaker
<1>4. CASE DelayCancelled(r)
  <2>1. phase[r] # "fcm" /\ UNCHANGED <<guarded, status>>
    BY Zenon, <1>4 DEF DelayCancelled, input, vars
  <2>2. QED
    BY Zenon, <1>4, <2>1, DelayCancelledKind, QuietInBreaker
<1>5. CASE WaitReturns(r)
  <2>1. phase[r] # "fcm" /\ UNCHANGED <<guarded, status>>
    BY Zenon, <1>5 DEF WaitReturns, input, vars
  <2>2. QED
    BY <1>5, <2>1, WaitReturnsKind, QuietInBreaker
<1>6. CASE WaitErrs(r)
  <2>1. phase[r] # "fcm" /\ UNCHANGED <<guarded, status>>
    BY Zenon, <1>6 DEF WaitErrs, input, vars
  <2>2. QED
    BY Zenon, <1>6, <2>1, WaitErrsKind, QuietInBreaker
<1>7. CASE CallDirectly(r)
  BY Zenon, <1>7 DEF CallDirectly, InBreaker, input
<1>8. CASE Execute(r)
  <2>1. phase[r] # "fcm" /\ UNCHANGED <<guarded, status>>
    BY Zenon, <1>8 DEF Execute, input, vars
  <2>2. QED
    BY <1>8, <2>1, ExecuteKind, QuietInBreaker
<1>9. CASE Admit(r)
  <2>1. beforeRequest(r) /\ UNCHANGED guarded /\ phase[r] = "admit"
    BY Zenon, <1>9 DEF Admit, input
  <2>2. \A q \in Requests \ {r} : status'[q] = status[q]
    BY Zenon, <2>1, BeforeRequestStatus
  <2>3. /\ \A q \in Requests \ {r} : phase'[q] = phase[q]
        /\ phase'[r] = "fcm" <=> status'[r] \in InFn
    <3>1. CASE status'[r] \in InFn /\ Walks(r, "fcm")
      BY Zenon, <3>1 DEF Walks, DispatcherType
    <3>2. CASE status'[r] \notin InFn /\ \E res : Attempted(r, res)
      BY Zenon, <3>2, AttemptedEffect
    <3>3. QED
      BY Zenon, <1>9, <3>1, <3>2, AdmitKind
  <2>4. QED
    BY Zenon, <2>1, <2>2, <2>3 DEF InBreaker
<1>10. CASE Answered(r)
  <2>1. Returns(r, TRUE) /\ UNCHANGED guarded
    BY Zenon, <1>10 DEF Answered, input
  <2>2. QED
    BY Zenon, <1>10, <2>1, AnsweredKind, ReturnsInBreaker
<1>11. CASE SingleSent(r)
  <2>1. Returns(r, TRUE) /\ UNCHANGED guarded
    BY Zenon, <1>11 DEF SingleSent, input
  <2>2. QED
    BY Zenon, <1>11, <2>1, SingleSentKind, ReturnsInBreaker
<1>12. CASE CallErrs(r)
  <2>1. Returns(r, FALSE) /\ UNCHANGED guarded
    BY Zenon, <1>12 DEF CallErrs, input
  <2>2. QED
    BY Zenon, <1>12, <2>1, CallErrsKind, ReturnsInBreaker
<1>13. QED
  BY Zenon, <1>1, <1>2, <1>3, <1>4, <1>5, <1>6, <1>7, <1>8, <1>9, <1>10, <1>11, <1>12
  DEF Run, sendBatch

\* To the breaker, a step of a goroutine is one of Execute's, or none.
LEMMA RunIsExecute ==
  ASSUME NEW r, Run(r)
  PROVE  beforeRequest(r) \/ afterRequest(r) \/ UNCHANGED vars
BY Zenon DEF Run, sendBatch, StartBatch, Finish, DelayOver, DelayCancelled,
       WaitReturns, WaitErrs, CallDirectly, Execute, Admit, Answered,
       SingleSent, CallErrs, Returns, afterRequest

(***************************************************************************)
(* The dispatcher uses its breaker as circuitbreaker.go means it to be     *)
(* used: whatever its goroutines do, the breaker makes the steps of        *)
(* CircuitBreaker, so everything proved of that holds of it here too.      *)
(***************************************************************************)
THEOREM DispatcherDrivesBreaker == SpecDispatcher => Spec
<1>1. InitDispatcher => Init
  BY Zenon DEF InitDispatcher
<1>2. [NextDispatcher]_allVars => [Next]_vars
  <2> SUFFICES ASSUME [NextDispatcher]_allVars
               PROVE  [Next]_vars
    BY Zenon
  <2>1. CASE SendStart
    BY Zenon, <2>1 DEF SendStart
  <2>2. CASE SendReturns
    BY Zenon, <2>2 DEF SendReturns
  <2>3. ASSUME NEW r \in Singles, SingleStart(r)
        PROVE  [Next]_vars
    BY Zenon, <2>3 DEF SingleStart
  <2>4. ASSUME NEW who, Cancel(who)
        PROVE  [Next]_vars
    BY Zenon, <2>4 DEF Cancel
  <2>5. ASSUME NEW r \in Requests, Run(r)
        PROVE  [Next]_vars
    BY Zenon, <2>5, RunIsExecute DEF Next
  <2>6. CASE Reset \/ Tick
    BY Zenon, <2>6 DEF Next
  <2>7. CASE UNCHANGED allVars
    BY Zenon, <2>7 DEF allVars
  <2>8. QED
    BY Zenon, <2>1, <2>2, <2>3, <2>4, <2>5, <2>6, <2>7 DEF NextDispatcher
<1>3. QED
  BY <1>1, <1>2, PTL DEF SpecDispatcher, Spec

\* The start of a SendSingle keeps the invariant.
LEMMA SingleStartKeeps ==
  ASSUME DispatcherInv, NEW r \in Singles, SingleStart(r)
  PROVE  DispatcherInv'
<1>1. r \in Requests /\ r \notin Platforms /\ Platforms \subseteq Requests
  BY Zenon, DispatcherAssumption
<1>2. PICK queue : queue = <<<<[fid |-> r, platform |-> Unset]>>>>
  BY Zenon
<1>3. /\ phase[r] = "start"
      /\ \A q \in Requests \ {r} : phase'[q] = phase[q] /\ batches'[q] = batches[q]
      /\ DOMAIN batches' = Requests /\ phase' \in [Requests -> Phases]
      /\ \/ phase'[r] = "done" /\ batches'[r] = batches[r]
         \/ phase'[r] = "wait" /\ batches'[r] = queue
      /\ UNCHANGED <<devices, oversized, guarded, send, cancelled, attempt,
                     last, sum, result, accepted, dead, partial, late, status>>
  BY Zenon, <1>1, <1>2 DEF SingleStart, Goto, input, history, vars, DispatcherInv,
                    DispatcherType, Phases, Busy
<1>4. queue \in Seq(Seq(DeviceOf(r))) /\ queue # <<>> /\ Proper(queue)
  <2>1. [fid |-> r, platform |-> Unset] \in DeviceOf(r)
    BY Zenon, <1>1 DEF DeviceOf
  <2>2. PICK dev \in DeviceOf(r) : queue = <<<<dev>>>>
    BY Zenon, <1>2, <2>1
  <2>3. queue \in Seq(Seq(DeviceOf(r))) /\ DOMAIN queue = {1} /\ queue[1] = <<dev>>
    BY <2>2
  <2>4. Len(<<dev>>) \in 1 .. FCMMaxBatchSize
    BY DispatcherAssumption
  <2>5. Distinct(<<dev>>)
    BY DEF Distinct
  <2>6. QED
    BY Zenon, <2>2, <2>3, <2>4, <2>5 DEF Proper
<1>5. DispatcherType /\ InBreaker /\ Staged /\ Accounted /\ Resent /\ Late
  BY Zenon DEF DispatcherInv
<1>6. DispatcherType'
  <2>1. \A q \in Requests : /\ batches'[q] \in Seq(Seq(DeviceOf(q)))
                            /\ Proper(batches'[q])
                            /\ phase'[q] \in Busy => batches'[q] # <<>>
    BY Zenon, <1>3, <1>4, <1>5 DEF DispatcherType, Busy
  <2>2. QED
    BY Zenon, <1>3, <1>5, <2>1 DEF DispatcherType, Attempts
<1>7. InBreaker'
  BY Zenon, <1>1, <1>3, <1>5, InBreakerKept
<1>8. Staged'
  BY Zenon, <1>1, <1>3, <1>5, RunSingle
<1>9. Accounted'
  BY Zenon, <1>1, <1>3, <1>5, SameGrows, AccountedKept
<1>10. Resent'
  BY Zenon, <1>1, <1>3, <1>5, ResentKept DEF Left
<1>11. Late'
  BY Zenon, <1>3, <1>5, LateKept
<1>12. QED
  BY Zenon, <1>6, <1>7, <1>8, <1>9, <1>10, <1>11 DEF DispatcherInv

-----------------------------------------------------------------------------
(* The invariant holds *)

\* A step that leaves the goroutines and Send where they are.
LEMMA StillKeeps ==
  ASSUME DispatcherInv, UNCHANGED <<devices, oversized, guarded, send, phase,
           batches, attempt, last, sum, result, accepted, dead, partial, late>>,
         cancelled \subseteq cancelled', cancelled' \subseteq Requests,
         \A q \in Requests : status'[q] \in InFn <=> status[q] \in InFn
  PROVE  DispatcherInv'
<1>1. DispatcherType /\ InBreaker /\ Staged /\ Accounted /\ Resent /\ Late
  BY Zenon DEF DispatcherInv
<1>2. DispatcherType'
  BY Zenon, <1>1 DEF DispatcherType, Attempts
<1>3. InBreaker'
  BY Zenon, <1>1, InBreakerKept
<1>4. Staged'
  BY Zenon, <1>1, RunSingle
<1>5. Accounted'
  BY Zenon, <1>1, SameGrows, AccountedKept
<1>6. Resent'
  BY Zenon, <1>1, ResentKept DEF Left
<1>7. Late'
  BY Zenon, <1>1, LateKept
<1>8. QED
  BY Zenon, <1>2, <1>3, <1>4, <1>5, <1>6, <1>7 DEF DispatcherInv

\* A cancellation keeps the invariant.
LEMMA CancelKeeps ==
  ASSUME DispatcherInv, NEW who, who \subseteq Requests, Cancel(who)
  PROVE  DispatcherInv'
<1>1. /\ UNCHANGED <<devices, oversized, guarded, send, phase, batches, attempt,
                     last, sum, result, accepted, dead, partial, late, status>>
      /\ cancelled \subseteq cancelled' /\ cancelled' \subseteq Requests
  BY Zenon DEF Cancel, input, history, vars, DispatcherInv, DispatcherType
<1>2. QED
  BY Zenon, <1>1, StillKeeps

\* SendStart keeps the invariant.
LEMMA SendStartKeeps ==
  ASSUME DispatcherInv, SendStart
  PROVE  DispatcherInv'
<1>1. DispatcherType /\ InBreaker /\ Staged /\ Accounted /\ Resent /\ Late
  BY Zenon DEF DispatcherInv
<1>2. /\ send = "idle"
      /\ Refuses \/ Starts
      /\ UNCHANGED <<guarded, cancelled, late, status>>
  BY Zenon, SendStartEffect DEF vars
<1>3. ASSUME NEW q \in Requests
      PROVE  phase'[q] = phase[q] \/ (phase[q] = "start" /\ phase'[q] \in {"batch", "done"})
  <2>1. CASE Refuses
    BY Zenon, <2>1 DEF Refuses
  <2>2. CASE Starts
    <3>1. q \in Platforms => phase[q] = "start"
      BY Zenon, <1>1, <1>2 DEF Staged
    <3>2. QED
      BY Zenon, <2>2, <3>1 DEF Starts, HasGroup
  <2>3. QED
    BY Zenon, <1>2, <2>1, <2>2
<1>4. InBreaker'
  BY Zenon, <1>1, <1>2, <1>3, InBreakerKept
<1>5. Late'
  BY Zenon, <1>1, <1>2, <1>3, LateKept
<1>6. QED
  BY Zenon, <1>1, <1>4, <1>5, SendStartType, SendStartStaged, SendStartAccounted,
     SendStartResent DEF DispatcherInv

\* SendReturns keeps the invariant.
LEMMA SendReturnsKeeps ==
  ASSUME DispatcherInv, SendReturns
  PROVE  DispatcherInv'
<1>1. DispatcherType /\ InBreaker /\ Staged /\ Accounted /\ Resent /\ Late
  BY Zenon DEF DispatcherInv
<1>2. /\ send = "running" /\ \A p \in Platforms : phase[p] = "done"
      /\ send' = "returned"
      /\ UNCHANGED <<devices, oversized, guarded, cancelled, phase, batches,
                     attempt, last, sum, result, accepted, dead, partial, late,
                     status>>
  BY Zenon DEF SendReturns, input, history, vars
<1>3. DispatcherType'
  BY Zenon, <1>1, <1>2 DEF DispatcherType, Attempts
<1>4. InBreaker' /\ Late'
  BY Zenon, <1>1, <1>2, InBreakerKept, LateKept
<1>5. Staged'
  BY Zenon, <1>1, <1>2 DEF Staged
<1>6. Accounted'
  BY Zenon, <1>1, SendReturnsAccounted
<1>7. Resent'
  BY Zenon, <1>1, <1>2, ResentKept DEF Left
<1>8. QED
  BY Zenon, <1>3, <1>4, <1>5, <1>6, <1>7 DEF DispatcherInv

\* Every step of a sender keeps the invariant, conjunct by conjunct.
LEMMA RunKeeps ==
  ASSUME TypeOK, DispatcherInv, NEW r \in Requests, Run(r)
  PROVE  DispatcherInv'
<1>1. DispatcherType /\ InBreaker /\ Staged /\ Accounted /\ Resent /\ Late
  BY Zenon DEF DispatcherInv
<1>2. DispatcherType'
  BY Zenon, <1>1, RunKinds, WalksType, AttemptedType, FinishType
<1>3. QED
  BY Zenon, <1>1, <1>2, RunInBreaker, RunStaged, RunAccounted, RunResent, RunLate
  DEF DispatcherInv

\* The breaker's own steps (Reset, the passing of time) keep the invariant:
\* they throw no one out of fn.
LEMMA BreakerKeeps ==
  ASSUME TypeOK, DispatcherInv, Reset \/ Tick, UNCHANGED dispVars
  PROVE  DispatcherInv'
<1>1. UNCHANGED <<devices, oversized, guarded, send, cancelled, phase, batches,
                  attempt, last, sum, result, accepted, dead, partial, late>>
  BY Zenon DEF dispVars
<1>2. \A q \in Requests : status'[q] \in InFn <=> status[q] \in InFn
  BY Zenon DEF Reset, Tick, EpisodeOver, InFn, TypeOK
<1>3. cancelled \subseteq Requests
  BY Zenon DEF DispatcherInv, DispatcherType
<1>4. QED
  BY Zenon, <1>1, <1>2, <1>3, StillKeeps

\* The invariant holds initially.
LEMMA InitKeeps ==
  ASSUME InitDispatcher
  PROVE  DispatcherInv
<1>1. Empty \in Results
  BY Zenon, ResultTypes
<1>2. /\ devices \in {call.devices : call \in Inputs}
      /\ phase \in [Requests -> {"start", "done"}]
      /\ \A p \in Platforms : phase[p] = "start"
  BY Zenon, DispatcherAssumption DEF InitDispatcher
<1>3. /\ oversized \in BOOLEAN /\ guarded \in BOOLEAN /\ send = "idle" /\ cancelled = {}
      /\ batches = [r \in Requests |-> <<>>] /\ attempt = [r \in Requests |-> 0]
      /\ last = [r \in Requests |-> Empty] /\ sum = [r \in Requests |-> Empty]
      /\ result = Empty /\ accepted = [f \in AllFids |-> 0] /\ dead = {}
      /\ partial = [f \in AllFids |-> 0] /\ late = [r \in Requests |-> 0]
      /\ status = [r \in Requests |-> "idle"]
  BY Zenon, DispatcherAssumption DEF InitDispatcher, Init
<1>4. DispatcherType
  <2>1. \A r \in Requests : /\ batches[r] \in Seq(Seq(DeviceOf(r)))
                            /\ Proper(batches[r])
                            /\ ~(phase[r] \in Busy)
    BY <1>2, <1>3 DEF Proper, Busy
  <2>2. attempt \in [Requests -> Nat] /\ \A r \in Requests : attempt[r] < Attempts(r)
    BY <1>3, DispatcherAssumption DEF Attempts
  <2>3. phase \in [Requests -> Phases]
    BY Zenon, <1>2 DEF Phases
  <2>4. QED
    BY Zenon, <1>1, <1>2, <1>3, <2>1, <2>2, <2>3 DEF DispatcherType
<1>5. InBreaker
  BY Zenon, <1>2, <1>3 DEF InBreaker, InFn
<1>6. Staged
  BY Zenon, <1>2, <1>3, DispatcherAssumption DEF Staged
<1>7. \A p \in Platforms : Left(p) = {}
  BY <1>3, DispatcherAssumption DEF Left, FidsIn
<1>8. Accounted
  BY Zenon, <1>3, <1>7 DEF Accounted
<1>9. Resent
  BY <1>3, <1>7 DEF Resent, ResentForRetryable
<1>10. Late
  BY <1>3 DEF Late
<1>11. QED
  BY Zenon, <1>4, <1>5, <1>6, <1>8, <1>9, <1>10 DEF DispatcherInv

\* DispatcherInv is an invariant of the dispatcher.
LEMMA DispatcherInvHolds == SpecDispatcher => []DispatcherInv
<1>1. InitDispatcher => DispatcherInv
  BY Zenon, InitKeeps
<1>2. TypeOK /\ DispatcherInv /\ [NextDispatcher]_allVars => DispatcherInv'
  <2> SUFFICES ASSUME TypeOK, DispatcherInv, [NextDispatcher]_allVars
               PROVE  DispatcherInv'
    BY Zenon
  <2>1. CASE SendStart
    BY Zenon, <2>1, SendStartKeeps
  <2>2. CASE SendReturns
    BY Zenon, <2>2, SendReturnsKeeps
  <2>3. ASSUME NEW r \in Singles, SingleStart(r)
        PROVE  DispatcherInv'
    BY Zenon, <2>3, SingleStartKeeps
  <2>4. ASSUME NEW r \in Singles, Cancel({r})
        PROVE  DispatcherInv'
    <3>1. {r} \subseteq Requests
      BY Zenon, DispatcherAssumption
    <3>2. QED
      BY Zenon, <2>4, <3>1, CancelKeeps
  <2>5. CASE Cancel(Platforms)
    <3>1. Platforms \subseteq Requests
      BY Zenon, DispatcherAssumption
    <3>2. QED
      BY Zenon, <2>5, <3>1, CancelKeeps
  <2>6. ASSUME NEW r \in Requests, Run(r)
        PROVE  DispatcherInv'
    BY Zenon, <2>6, RunKeeps
  <2>7. CASE (Reset \/ Tick) /\ UNCHANGED dispVars
    BY Zenon, <2>7, BreakerKeeps
  <2>8. CASE UNCHANGED allVars
    <3>1. UNCHANGED <<devices, oversized, guarded, send, cancelled, phase,
                      batches, attempt, last, sum, result, accepted, dead,
                      partial, late, status>>
      BY Zenon, <2>8 DEF allVars, dispVars, vars
    <3>2. cancelled \subseteq Requests
      BY Zenon DEF DispatcherInv, DispatcherType
    <3>3. QED
      BY Zenon, <3>1, <3>2, StillKeeps
  <2>9. QED
    BY Zenon, <2>1, <2>2, <2>3, <2>4, <2>5, <2>6, <2>7, <2>8 DEF NextDispatcher
<1>3. SpecDispatcher => []TypeOK
  BY DispatcherDrivesBreaker, TypeCorrect, PTL
<1>4. QED
  BY <1>1, <1>2, <1>3, PTL DEF SpecDispatcher

-----------------------------------------------------------------------------
(* The properties *)

(***************************************************************************)
(* The dispatcher is well typed: no batch is larger than FCM takes, no     *)
(* batch is tried more often than MaxRetryAttempts allows, and a goroutine *)
(* is inside FCM exactly when the breaker has it inside fn.                *)
(***************************************************************************)
THEOREM DispatcherTypeCorrect == SpecDispatcher => []TypeOKDispatcher
<1>1. TypeOK /\ DispatcherInv => TypeOKDispatcher
  <2> SUFFICES ASSUME TypeOK, DispatcherType, InBreaker
               PROVE  TypeOKDispatcher
    BY Zenon DEF DispatcherInv
  <2>1. phase \in [Requests -> {"start", "batch", "delay", "wait", "execute",
                                "admit", "fcm", "done"}]
    BY Zenon DEF DispatcherType, Phases, Busy
  <2>2. \A r \in Requests : attempt[r] \in 0 .. Attempts(r) - 1
    <3>1. \A r \in Requests : attempt[r] \in Nat /\ attempt[r] < Attempts(r)
      BY Zenon DEF DispatcherType
    <3>2. QED
      BY <3>1, AttemptsType
  <2>3. \A r \in Requests : \A i \in DOMAIN batches[r] :
          Len(batches[r][i]) \in 1 .. FCMMaxBatchSize
    BY Zenon DEF DispatcherType, Proper
  <2>4. QED
    BY Zenon, <2>1, <2>2, <2>3 DEF TypeOKDispatcher, DispatcherType, InBreaker
<1>2. SpecDispatcher => []TypeOK
  BY DispatcherDrivesBreaker, TypeCorrect, PTL
<1>3. QED
  BY <1>1, <1>2, DispatcherInvHolds, PTL

(***************************************************************************)
(* What Send returns adds up, for any devices, platforms and retries: the  *)
(* counts of sendPlatformBatches, merged under mu, cover every FID once.   *)
(***************************************************************************)
THEOREM ResultAddsUpHolds == SpecDispatcher => []ResultAddsUp
<1>1. DispatcherInv => ResultAddsUp
  <2> SUFFICES ASSUME DispatcherInv, send = "returned", ~oversized
               PROVE  /\ result.success + result.failure = Cardinality(Fids(devices))
                      /\ result.success <=
                           Cardinality({f \in Fids(devices) : accepted[f] > 0})
                      /\ result.invalid \subseteq dead
                      /\ Cardinality(result.invalid) + result.retryable
                           <= result.failure
    BY Zenon DEF ResultAddsUp
  <2>1. Accounts(result, Fids(devices), accepted, dead)
    BY Zenon DEF DispatcherInv, Accounted
  <2>2. QED
    BY Zenon, <2>1 DEF Accounts, Sent
<1>2. QED
  BY <1>1, DispatcherInvHolds, PTL

(***************************************************************************)
(* A FID that was neither sent the message nor reported invalid shows in   *)
(* the counts publishToDLQIfUnresolved looks at, also when Send refuses    *)
(* the message and counts every device as failed, duplicates included.     *)
(***************************************************************************)
THEOREM UnsentIsUnresolvedHolds == SpecDispatcher => []UnsentIsUnresolved
<1>1. DispatcherInv => UnsentIsUnresolved
  <2> SUFFICES ASSUME DispatcherInv, send = "returned"
               PROVE  Cardinality({f \in Fids(devices) \ result.invalid :
                                     accepted[f] = 0})
                        <= result.failure - Cardinality(result.invalid)
    BY Zenon DEF UnsentIsUnresolved
  <2>1. CASE ~oversized
    <3>1. Accounts(result, Fids(devices), accepted, dead)
      BY Zenon, <2>1 DEF DispatcherInv, Accounted
    <3>2. QED
      BY Zenon, <3>1 DEF Accounts, Unsent
  <2>2. CASE oversized
    <3>1. result = AllFailed(Len(devices))
      BY Zenon, <2>2 DEF DispatcherInv, Staged
    <3>2. result.failure = Len(devices) /\ result.invalid = {}
      BY Zenon, <3>1 DEF AllFailed, Empty
    <3>3. /\ IsFiniteSet(Fids(devices))
          /\ Cardinality(Fids(devices)) <= Len(devices)
          /\ Len(devices) \in Nat
      <4>1. devices \in Seq([fid : AllFids, platform : Platforms \cup {Unset}])
        BY Zenon, InputsAssumption DEF DispatcherInv, DispatcherType
      <4>2. QED
        BY <4>1, CountFids
    <3>4. PICK U : U = {f \in Fids(devices) \ result.invalid : accepted[f] = 0}
      BY Zenon
    <3>5. /\ Cardinality(U) <= Cardinality(Fids(devices))
          /\ Cardinality(U) \in Nat /\ Cardinality(Fids(devices)) \in Nat
      <4>1. U \subseteq Fids(devices)
        BY Zenon, <3>4
      <4>2. QED
        BY Zenon, <3>3, <4>1, SmallerCount
    <3>6. Cardinality(result.invalid) = 0
      BY Zenon, <3>2, FS_EmptySet
    <3>7. QED
      BY <3>2, <3>3, <3>4, <3>5, <3>6
  <2>3. QED
    BY Zenon, <2>1, <2>2
<1>2. QED
  BY <1>1, DispatcherInvHolds, PTL

(***************************************************************************)
(* sendBatchWithRetry sends nobody the message twice unless a device of    *)
(* the batch had a retryable error in between.                             *)
(***************************************************************************)
THEOREM ResentForRetryableHolds == SpecDispatcher => []ResentForRetryable
<1>1. DispatcherInv => ResentForRetryable
  BY Zenon DEF DispatcherInv, Resent
<1>2. QED
  BY <1>1, DispatcherInvHolds, PTL

(***************************************************************************)
(* With a breaker, a goroutine calls FCM at most once after its context is *)
(* done: every way back to FCM passes the look at ctx in Execute.          *)
(***************************************************************************)
THEOREM OneCallAfterCancelHolds == SpecDispatcher => []OneCallAfterCancel
<1>1. DispatcherInv => OneCallAfterCancel
  BY Zenon DEF DispatcherInv, Late, OneCallAfterCancel
<1>2. QED
  BY <1>1, DispatcherInvHolds, PTL

\* HalfOpenAccounting, with the dispatcher's goroutines as the callers: the
\* half-open counter is the number of this episode's calls inside FCM, through
\* retries, cancellation and rejected attempts.
THEOREM DispatcherHalfOpenAccounting == SpecDispatcher => []HalfOpenAccounting
BY DispatcherDrivesBreaker, HalfOpenAccountingHolds, PTL

\* OpenClosesOnlyByReset, likewise: an answer of FCM that comes after the
\* breaker has opened does not close it.
THEOREM DispatcherOpenClosesOnlyByReset ==
  SpecDispatcher => OpenClosesOnlyByReset
BY DispatcherDrivesBreaker, OpenClosesOnlyByResetHolds, PTL
-----------------------------------------------------------------------------
(* Progress: the safety half of SendTerminates *)

\* Goroutine r has fewer batches left, or a later attempt at the same batch,
\* or is nearer to the end of the same attempt.  The attempts being bounded,
\* this is a well-founded order.
Closer(r) ==
  \/ Len(batches'[r]) < Len(batches[r])
  \/ /\ batches'[r] = batches[r]
     /\ attempt[r] < attempt'[r] /\ attempt'[r] < Attempts(r)
  \/ /\ batches'[r] = batches[r] /\ attempt'[r] = attempt[r]
     /\ Distance(phase'[r]) < Distance(phase[r])

Still(r) ==
  batches'[r] = batches[r] /\ attempt'[r] = attempt[r] /\ phase'[r] = phase[r]

\* Every step of a goroutine takes it closer to its end, and no step of
\* Send, of another goroutine, of a context or of the breaker takes it back.
SendersAdvance ==
  \A r \in Requests : /\ Run(r) => Closer(r)
                      /\ phase[r] # "start" => Closer(r) \/ Still(r)

\* The end of an attempt takes the goroutine closer and leaves the others.
LEMMA AttemptedAdvances ==
  ASSUME DispatcherType, NEW r \in Requests, NEW res, Attempted(r, res)
  PROVE  Closer(r) /\ \A q \in Requests \ {r} : Still(q)
<1>1. Ends(r, res) /\ batches[r] # <<>>
  BY Zenon DEF Attempted
<1>2. /\ \A q \in Requests \ {r} :
           /\ batches'[q] = batches[q] /\ phase'[q] = phase[q]
           /\ attempt'[q] = attempt[q]
      /\ \/ /\ attempt'[r] = attempt[r] + 1 /\ attempt[r] + 1 < Attempts(r)
            /\ batches'[r] = batches[r]
         \/ batches'[r] = Tail(batches[r])
  BY Zenon, <1>1, EndsEffect
<1>3. batches[r] \in Seq(Seq(DeviceOf(r))) /\ attempt[r] \in Nat
  BY Zenon DEF DispatcherType
<1>4. Len(Tail(batches[r])) < Len(batches[r])
  BY SMTT(30), <1>1, <1>3
<1>5. attempt[r] < attempt[r] + 1
  BY <1>3
<1>6. Closer(r)
  BY Zenon, <1>2, <1>4, <1>5 DEF Closer
<1>7. QED
  BY Zenon, <1>2, <1>6 DEF Still

\* So does a step on the way to FCM, and the last step.
LEMMA WalksAdvances ==
  ASSUME DispatcherType, NEW r \in Requests, NEW q, Walks(r, q)
  PROVE  Closer(r) /\ \A p \in Requests \ {r} : Still(p)
<1>1. /\ phase' = [phase EXCEPT ![r] = q] /\ UNCHANGED <<batches, attempt>>
      /\ Distance(q) < Distance(phase[r]) /\ phase \in [Requests -> Phases]
  BY Zenon DEF Walks, DispatcherType
<1>2. phase'[r] = q /\ \A p \in Requests \ {r} : phase'[p] = phase[p]
  BY Zenon, <1>1
<1>3. QED
  BY Zenon, <1>1, <1>2 DEF Closer, Still

LEMMA FinishAdvances ==
  ASSUME DispatcherType, NEW r \in Requests, Finish(r)
  PROVE  Closer(r) /\ \A p \in Requests \ {r} : Still(p)
<1>1. /\ phase' = [phase EXCEPT ![r] = "done"] /\ UNCHANGED <<batches, attempt>>
      /\ phase[r] = "batch" /\ phase \in [Requests -> Phases]
  BY Zenon DEF Finish, Goto, DispatcherType
<1>2. phase'[r] = "done" /\ \A p \in Requests \ {r} : phase'[p] = phase[p]
  BY Zenon, <1>1
<1>3. Distance("done") < Distance("batch")
  BY DEF Distance
<1>4. QED
  BY Zenon, <1>1, <1>2, <1>3 DEF Closer, Still

\* A step of any goroutine.
LEMMA RunAdvances ==
  ASSUME DispatcherInv, NEW r \in Requests, Run(r)
  PROVE  Closer(r) /\ \A q \in Requests \ {r} : Still(q)
<1>1. DispatcherType /\ Accounted
  BY Zenon DEF DispatcherInv
<1>2. QED
  BY Zenon, <1>1, RunKinds, WalksAdvances, AttemptedAdvances, FinishAdvances

\* SendStart finds the senders at their start.
LEMMA SendStartAdvances ==
  ASSUME DispatcherInv, SendStart, NEW r \in Requests, phase[r] # "start"
  PROVE  Still(r)
<1>1. /\ phase \in [Requests -> Phases] /\ DOMAIN batches = Requests
      /\ send = "idle" => \A p \in Platforms : phase[p] = "start"
  BY Zenon DEF DispatcherInv, DispatcherType, Staged
<1>2. r \notin Platforms
  BY Zenon, <1>1 DEF SendStart
<1>3. CASE devices = <<>> \/ oversized
  BY Zenon, <1>3 DEF SendStart, Still
<1>4. CASE ~(devices = <<>> \/ oversized)
  BY Zenon, <1>1, <1>2, <1>4 DEF SendStart, Still
<1>5. QED
  BY Zenon, <1>3, <1>4

\* SingleStart takes its own goroutine from the start.
LEMMA SingleStartAdvances ==
  ASSUME DispatcherInv, NEW q \in Singles, SingleStart(q),
         NEW r \in Requests, phase[r] # "start"
  PROVE  Still(r)
<1>1. phase \in [Requests -> Phases] /\ DOMAIN batches = Requests
  BY Zenon DEF DispatcherInv, DispatcherType
<1>2. r # q
  BY Zenon DEF SingleStart
<1>3. QED
  BY Zenon, <1>1, <1>2 DEF SingleStart, Goto, Still

(***************************************************************************)
(* Every step of sendPlatformBatches, sendBatchWithRetry and sendBatch     *)
(* takes its goroutine closer to its end in a well-founded order, and no   *)
(* other step takes it back: neither a breaker that stays open, nor a      *)
(* limiter or FCM that always fails, nor cancellations make a goroutine of *)
(* Send go on for ever.  This is the safety half of SendTerminates; that   *)
(* the steps happen is the fairness TLC assumes.                           *)
(***************************************************************************)
THEOREM SendersAdvanceHolds == SpecDispatcher => [][SendersAdvance]_allVars
<1>1. DispatcherInv /\ [NextDispatcher]_allVars => [SendersAdvance]_allVars
  <2> SUFFICES ASSUME DispatcherInv, NextDispatcher, NEW r \in Requests
               PROVE  /\ Run(r) => Closer(r)
                      /\ phase[r] # "start" => Closer(r) \/ Still(r)
    BY Zenon DEF SendersAdvance
  <2>1. Run(r) => Closer(r)
    BY Zenon, RunAdvances
  <2>2. ASSUME phase[r] # "start"
        PROVE  Closer(r) \/ Still(r)
    <3>1. CASE SendStart
      BY Zenon, <2>2, <3>1, SendStartAdvances
    <3>2. ASSUME NEW q \in Singles, SingleStart(q)
          PROVE  Still(r)
      BY Zenon, <2>2, <3>2, SingleStartAdvances
    <3>3. ASSUME NEW q \in Requests, Run(q)
          PROVE  Closer(r) \/ Still(r)
      BY Zenon, <3>3, RunAdvances
    <3>4. CASE SendReturns
      BY Zenon, <3>4 DEF SendReturns, Still
    <3>5. ASSUME NEW who, Cancel(who)
          PROVE  Still(r)
      BY Zenon, <3>5 DEF Cancel, Still
    <3>6. CASE UNCHANGED dispVars
      BY Zenon, <3>6 DEF dispVars, Still
    <3>7. QED
      BY Zenon, <3>1, <3>2, <3>3, <3>4, <3>5, <3>6 DEF NextDispatcher
  <2>3. QED
    BY Zenon, <2>1, <2>2
<1>2. QED
  BY <1>1, DispatcherInvHolds, PTL DEF SpecDispatcher
=============================================================================
