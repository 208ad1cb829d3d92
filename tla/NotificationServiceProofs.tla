--------------------- MODULE NotificationServiceProofs ----------------------
(***************************************************************************)
(* The guarantees of the pipeline, for any number of events, recipients,   *)
(* goroutines and faults: what a finished run has left behind, how often   *)
(* an event is dispatched, and what is announced of it.                    *)
(***************************************************************************)
EXTENDS NotificationService, FiniteSetTheorems, TLAPS

\* A goroutine that is not idle has all the fields of a run.
LEMMA BusyRecord ==
  ASSUME TypeOK, NEW r \in Runs, run[r].pc # "idle"
  PROVE  run[r] \in RunRecord
BY DEF TypeOK, Idle

\* Moving a run on, and nothing else, keeps the types.
LEMMA GotoType ==
  ASSUME TypeOK, NEW r \in Runs, run[r].pc # "idle", NEW pc \in States,
         Goto(r, pc)
  PROVE  run' \in [Runs -> RunRecord \cup {Idle}]
<1>1. run[r] \in RunRecord
  BY Zenon, BusyRecord
<1>2. [run[r] EXCEPT !.pc = pc] \in RunRecord
  BY Zenon, <1>1 DEF RunRecord
<1>3. run' = [run EXCEPT ![r] = [run[r] EXCEPT !.pc = pc]]
  BY Zenon DEF Goto, TypeOK
<1>4. QED
  BY Zenon, <1>2, <1>3 DEF TypeOK

\* So does ending it.
LEMMA ReturnType ==
  ASSUME TypeOK, NEW r \in Runs, run[r].pc # "idle", NEW ok \in BOOLEAN,
         Return(r, ok), faults' \in [Events -> 0 .. MaxFaults]
  PROVE  TypeOK'
<1>1. run[r].event \in Events
  BY Zenon, BusyRecord DEF RunRecord
<1>2. QED
  BY Zenon, <1>1 DEF Return, TypeOK, history

\* A fault is counted up to its bound.
LEMMA FaultType ==
  ASSUME TypeOK, NEW f, NEW e \in Events, Fault(f, e)
  PROVE  faults' \in [Events -> 0 .. MaxFaults]
BY ServiceAssumption DEF Fault, TypeOK

\* A delivery starts a run.
LEMMA StartType ==
  ASSUME TypeOK, NEW r \in Runs, NEW e \in Events, NEW retry \in BOOLEAN,
         Start(r, e, retry), faults' \in [Events -> 0 .. MaxFaults]
  PROVE  TypeOK'
<1> DEFINE x == [pc |-> "check", event |-> e, retry |-> retry, owed |-> {},
                 todo |-> {}, sent |-> {}, failed |-> {}, invalid |-> {}]
<1>1. x \in RunRecord
  BY Zenon DEF RunRecord, States
<1>2. run' = [run EXCEPT ![r] = x]
  BY Zenon DEF Start
<1> HIDE DEF x
<1>3. run' \in [Runs -> RunRecord \cup {Idle}]
  BY Zenon, <1>1, <1>2 DEF TypeOK
<1>4. QED
  BY Zenon, <1>3 DEF Start, TypeOK, history

\* The types of resolving the recipients.
LEMMA ResolveType ==
  ASSUME TypeOK, NEW r \in Runs, Resolve(r)
  PROVE  TypeOK'
<1> DEFINE e == run[r].event
           to == Targets(e)
           x == [run[r] EXCEPT !.pc = IF to = {} THEN "mark" ELSE "send",
                               !.owed = to, !.todo = to]
<1>1. run[r] \in RunRecord
  BY BusyRecord, Zenon DEF Resolve
<1>2. e \in Events
  BY Zenon, <1>1 DEF RunRecord
<1>3. to \in SUBSET Recipients
  BY Zenon DEF Targets, Recipients, TypeOK
<1>4. run' = [run EXCEPT ![r] = x]
  BY Zenon DEF Resolve, TypeOK
<1>5. dispatches' = IF to = {} THEN dispatches
                    ELSE [dispatches EXCEPT ![e] = @ + 1]
  BY Zenon DEF Resolve
<1>6. UNCHANGED <<active, marks, dlq, announced, acked, faults, got, dead,
                  settled, excuses, overlapped>>
  BY Zenon DEF Resolve
<1> HIDE DEF to, e
<1>7. x \in RunRecord
  BY <1>1, <1>3, Zenon DEF RunRecord, States
<1> HIDE DEF x
<1>8. run' \in [Runs -> RunRecord \cup {Idle}]
  BY Zenon, <1>4, <1>7 DEF TypeOK
<1>9. dispatches' \in [Events -> Nat]
  BY <1>2, <1>5 DEF TypeOK
<1>10. QED
  BY Zenon, <1>6, <1>8, <1>9 DEF TypeOK

\* The types of sending a batch.
LEMMA SendType ==
  ASSUME TypeOK, NEW r \in Runs, run[r].pc = "send",
         NEW batch \in NextBatches(run[r].todo),
         NEW a \in Answers(run[r].event, batch), SendBatch(r, batch, a)
  PROVE  TypeOK'
<1> DEFINE e == run[r].event
           left == run[r].todo \ batch
           ok == Answered(a, "sent")
           bad == Answered(a, "invalid")
           invalid == run[r].invalid \cup bad
           x == [run[r] EXCEPT !.pc = IF left = {} THEN "invalid" ELSE "send",
                               !.todo = IF left = {} THEN invalid ELSE left,
                               !.sent = @ \cup ok,
                               !.failed = @ \cup (batch \ ok),
                               !.invalid = invalid]
<1>1. run[r] \in RunRecord
  BY Zenon, BusyRecord
<1>2. /\ e \in Events
      /\ run[r].todo \in SUBSET Recipients
      /\ run[r].invalid \in SUBSET Devices
  BY Zenon, <1>1 DEF RunRecord
<1>3. batch \in SUBSET run[r].todo
  BY Zenon DEF NextBatches
<1>4. a \in [batch -> {"sent", "invalid", "failed"}]
      /\ \A d \in batch \cap {Topic} : a[d] # "invalid"
  BY Zenon DEF Answers
<1>5. ok \in SUBSET batch
  BY Zenon, <1>4 DEF Answered
<1>6. bad \in SUBSET Devices
  BY Zenon, <1>2, <1>3, <1>4 DEF Answered, Recipients
<1>7. run' = [run EXCEPT ![r] = x]
  BY Zenon DEF SendBatch, TypeOK
<1>8. got' = [got EXCEPT ![e] = @ \cup ok] /\ dead' = [dead EXCEPT ![e] = @ \cup bad]
  BY Zenon DEF SendBatch
<1>9. UNCHANGED <<active, marks, dlq, announced, acked, faults, settled,
                  dispatches, excuses, overlapped>>
  BY Zenon DEF SendBatch
<1> HIDE DEF ok, bad, e
<1>10. left \in SUBSET Recipients /\ invalid \in SUBSET Devices
       /\ invalid \in SUBSET Recipients
  BY Zenon, <1>2, <1>3, <1>6 DEF Recipients
<1> HIDE DEF left, invalid
<1>11. x \in RunRecord
  BY <1>1, <1>2, <1>3, <1>5, <1>10, Zenon DEF RunRecord, States
<1> HIDE DEF x
<1>12. run' \in [Runs -> RunRecord \cup {Idle}]
  BY Zenon, <1>7, <1>11 DEF TypeOK
<1>13. /\ got' \in [Events -> SUBSET Recipients]
       /\ dead' \in [Events -> SUBSET Devices]
  BY Zenon, <1>2, <1>3, <1>5, <1>6, <1>8 DEF TypeOK
<1>14. QED
  BY Zenon, <1>9, <1>12, <1>13 DEF TypeOK

\* Type correctness of the pipeline and its stores.
THEOREM TypeCorrect == Spec => []TypeOK
<1>1. Init => TypeOK
  <2> SUFFICES ASSUME Init
               PROVE  TypeOK
    BY Zenon
  <2>1. run \in [Runs -> RunRecord \cup {Idle}]
    BY Zenon DEF Init
  <2>2. faults \in [Events -> 0 .. MaxFaults]
    BY ServiceAssumption DEF Init
  <2>3. QED
    BY Zenon, <2>1, <2>2 DEF Init, TypeOK
<1>2. TypeOK /\ [Next]_vars => TypeOK'
  <2> SUFFICES ASSUME TypeOK, [Next]_vars
               PROVE  TypeOK'
    BY Zenon
  <2>1. ASSUME NEW r \in Runs, NEW e \in Events,
               Deliver(r, e) \/ Duplicate(r, e) \/ Resubmit(r, e)
        PROVE  TypeOK'
    <3>1. CASE Deliver(r, e)
      <4>1. faults' \in [Events -> 0 .. MaxFaults]
        BY Zenon, <3>1 DEF Deliver, TypeOK
      <4>2. QED
        BY Zenon, <3>1, <4>1, StartType DEF Deliver
    <3>2. CASE Duplicate(r, e)
      BY Zenon, <3>2, FaultType, StartType DEF Duplicate
    <3>3. CASE Resubmit(r, e)
      BY Zenon, <3>3, FaultType, StartType DEF Resubmit
    <3>4. QED
      BY Zenon, <2>1, <3>1, <3>2, <3>3
  <2>2. ASSUME NEW r \in Runs, processEvent(r)
        PROVE  TypeOK'
    <3> DEFINE e == run[r].event
    <3>1. run[r].pc # "idle"
      BY <2>2, Zenon DEF processEvent, Refuse, CheckErrs, SkipProcessed, Check,
                  FilterSkips, FilterPasses, BuildErrs, Resolve, ResolveErrs,
                  dispatchToDevices, MarkInvalid, MarkInvalidDone,
                  publishToDLQIfUnresolved, publishLifecycleEvent,
                  MarkProcessed, MarkErrs, Finish
    <3>2. run[r] \in RunRecord
      BY Zenon, <3>1, BusyRecord
    <3>3. e \in Events
      BY Zenon, <3>2 DEF RunRecord
    <3>4. CASE Refuse(r) \/ SkipProcessed(r) \/ FilterSkips(r) \/ BuildErrs(r)
      <4>1. faults' \in [Events -> 0 .. MaxFaults]
        BY Zenon, <3>4 DEF Refuse, SkipProcessed, FilterSkips, BuildErrs,
           TypeOK
      <4>2. PICK ok \in BOOLEAN : Return(r, ok)
        BY Zenon, <3>4, ServiceAssumption
        DEF Refuse, SkipProcessed, FilterSkips, BuildErrs
      <4>3. QED
        BY Zenon, <3>1, <4>1, <4>2, ReturnType
    <3>5. CASE CheckErrs(r)
      BY Zenon, <3>1, <3>3, <3>5, FaultType, ReturnType DEF CheckErrs
    <3>6. CASE Check(r) \/ FilterPasses(r) \/ MarkInvalidDone(r)
      <4>1. PICK pc \in States : Goto(r, pc)
        BY Zenon, <3>6 DEF Check, Unmarked, FilterPasses, MarkInvalidDone,
           States
      <4>2. run' \in [Runs -> RunRecord \cup {Idle}]
        BY Zenon, <3>1, <4>1, GotoType
      <4>3. QED
        BY Zenon, <3>3, <3>6, <4>2
        DEF Check, Unmarked, FilterPasses, MarkInvalidDone, TypeOK, history
    <3>7. CASE Resolve(r)
      BY Zenon, <3>7, ResolveType
    <3>8. CASE ResolveErrs(r)
      <4> DEFINE x == [run[r] EXCEPT !.pc = "invalid", !.owed = active]
      <4>1. x \in RunRecord
        BY Zenon, <3>2 DEF RunRecord, States, TypeOK, Recipients
      <4>2. run' = [run EXCEPT ![r] = x]
        BY Zenon, <3>8 DEF ResolveErrs, TypeOK
      <4> HIDE DEF x
      <4>3. run' \in [Runs -> RunRecord \cup {Idle}]
        BY Zenon, <4>1, <4>2 DEF TypeOK
      <4>4. faults' \in [Events -> 0 .. MaxFaults]
        BY Zenon, <3>3, <3>8, FaultType DEF ResolveErrs
      <4>5. QED
        BY Zenon, <3>8, <4>3, <4>4 DEF ResolveErrs, TypeOK, history
    <3>9. CASE dispatchToDevices(r)
      BY Zenon, <3>9, SendType DEF dispatchToDevices
    <3>10. CASE MarkInvalid(r)
      <4>1. PICK d \in run[r].todo :
              /\ run' = [run EXCEPT ![r].todo = @ \ {d}]
              /\ \/ active' = active \ {d} /\ UNCHANGED faults
                 \/ Fault("markInvalid", e) /\ UNCHANGED active
        BY Zenon, <3>10 DEF MarkInvalid
      <4> DEFINE x == [run[r] EXCEPT !.todo = @ \ {d}]
      <4>2. x \in RunRecord
        BY Zenon, <3>2 DEF RunRecord
      <4>3. run' = [run EXCEPT ![r] = x]
        BY Zenon, <4>1 DEF TypeOK
      <4> HIDE DEF x
      <4>4. run' \in [Runs -> RunRecord \cup {Idle}]
        BY Zenon, <4>2, <4>3 DEF TypeOK
      <4>5. faults' \in [Events -> 0 .. MaxFaults] /\ active' \subseteq Devices
        BY Zenon, <3>3, <4>1, FaultType DEF TypeOK
      <4>6. QED
        BY Zenon, <3>10, <4>4, <4>5 DEF MarkInvalid, TypeOK, history
    <3>11. CASE publishToDLQIfUnresolved(r)
      <4>1. run' \in [Runs -> RunRecord \cup {Idle}]
        BY Zenon, <3>1, <3>11, GotoType DEF publishToDLQIfUnresolved, States
      <4>2. faults' \in [Events -> 0 .. MaxFaults] /\ dlq' \subseteq Events
        BY Zenon, <3>3, <3>11, FaultType DEF publishToDLQIfUnresolved, TypeOK
      <4>3. QED
        BY Zenon, <3>11, <4>1, <4>2 DEF publishToDLQIfUnresolved, TypeOK,
           history
    <3>12. CASE publishLifecycleEvent(r)
      <4>1. run' \in [Runs -> RunRecord \cup {Idle}]
        BY Zenon, <3>1, <3>12, GotoType DEF publishLifecycleEvent, States
      <4>2. Lifecycle(r) \subseteq Events \X {"sent", "failed"}
        BY <3>3 DEF Lifecycle
      <4>3. /\ faults' \in [Events -> 0 .. MaxFaults]
            /\ announced' \subseteq Events \X {"sent", "failed"}
        BY Zenon, <3>3, <3>12, <4>2, FaultType DEF publishLifecycleEvent,
           TypeOK
      <4>4. QED
        BY Zenon, <3>12, <4>1, <4>3 DEF publishLifecycleEvent, TypeOK, history
    <3>13. CASE MarkProcessed(r) \/ MarkErrs(r)
      <4>1. Finish(r)
        BY Zenon, <3>13 DEF MarkProcessed, MarkErrs
      <4>2. run' \in [Runs -> RunRecord \cup {Idle}]
        BY Zenon, <4>1 DEF Finish, TypeOK
      <4>3. settled' \in [Events -> SUBSET Recipients]
        BY Zenon, <3>2, <3>3, <4>1 DEF Finish, TypeOK, RunRecord
      <4>4. /\ faults' \in [Events -> 0 .. MaxFaults]
            /\ excuses' \in [Events -> Nat]
            /\ marks' \subseteq Events
        BY <3>3, <3>13, FaultType DEF MarkProcessed, MarkErrs, TypeOK
      <4>5. QED
        BY Zenon, <3>3, <4>1, <4>2, <4>3, <4>4 DEF Finish, TypeOK
    <3>14. QED
      BY Zenon, <2>2, <3>4, <3>5, <3>6, <3>7, <3>8, <3>9, <3>10, <3>11, <3>12,
         <3>13
      DEF processEvent
  <2>3. ASSUME NEW r \in Runs, Crash(r)
        PROVE  TypeOK'
    <3>1. run[r].event \in Events
      BY Zenon, <2>3, BusyRecord DEF Crash, RunRecord
    <3>2. /\ faults' \in [Events -> 0 .. MaxFaults]
          /\ excuses' \in [Events -> Nat]
          /\ run' \in [Runs -> RunRecord \cup {Idle}]
      BY <2>3, <3>1, FaultType DEF Crash, TypeOK
    <3>3. QED
      BY Zenon, <2>3, <3>2 DEF Crash, TypeOK
  <2>4. ASSUME NEW d \in Devices, SaveDevice(d) \/ DeleteDevice(d)
        PROVE  TypeOK'
    BY Zenon, <2>4 DEF SaveDevice, DeleteDevice, TypeOK, history
  <2>5. ASSUME NEW e \in Events, Expire(e)
        PROVE  TypeOK'
    BY <2>5, FaultType DEF Expire, TypeOK
  <2>6. CASE UNCHANGED vars
    BY Zenon, <2>6 DEF vars, history, TypeOK
  <2>7. QED
    BY Zenon, <2>1, <2>2, <2>3, <2>4, <2>5, <2>6 DEF Next
<1>3. QED
  BY <1>1, <1>2, PTL DEF Spec

-----------------------------------------------------------------------------
(* What a finished run has left behind.  While a run sends, everyone it    *)
(* has been through was reached or is in its result as failed; what has    *)
(* failed and is not an invalid FID makes it publish to the DLQ.           *)

Kept(r) ==
  LET x == run[r]
      e == run[r].event
  IN  x.pc # "idle" =>
        /\ x.invalid \subseteq x.failed
        /\ x.invalid \subseteq dead[e]
        /\ x.pc = "send" => x.owed \ x.todo \subseteq Reached(e) \cup x.failed
        /\ x.pc \in {"invalid", "dlq"} =>
             x.owed \subseteq Reached(e) \cup x.failed
        /\ x.pc \in {"bus", "mark"} =>
             x.owed \subseteq Reached(e) \/ e \in dlq

\* The recipients a finished run had are reached, or the event is in the DLQ.
Rested(e) == settled[e] \subseteq Reached(e) \/ e \in dlq

DropInv == (\A r \in Runs : Kept(r)) /\ (\A e \in Events : Rested(e))

\* Nothing is ever un-sent or taken out of the DLQ.
Grows ==
  /\ dlq \subseteq dlq'
  /\ \A e \in Events : Reached(e) \subseteq Reached(e)'
  /\ \A e \in Events : dead[e] \subseteq dead'[e]

\* A run that does not move keeps what it had.
LEMMA OthersKept ==
  ASSUME TypeOK, DropInv, Grows, NEW r \in Runs, run'[r] = run[r]
  PROVE  Kept(r)'
<1>1. run[r].pc # "idle" => run[r].event \in Events
  BY Zenon, BusyRecord DEF RunRecord
<1>2. Kept(r)
  BY Zenon DEF DropInv
<1>3. QED
  BY Zenon, <1>1, <1>2 DEF Kept, Grows, Reached

\* A step that moves one run only and settles nothing.
LEMMA OneMoves ==
  ASSUME TypeOK, DropInv, Grows, NEW r \in Runs,
         \A q \in Runs \ {r} : run'[q] = run[q], Kept(r)',
         UNCHANGED settled
  PROVE  DropInv'
<1>1. \A q \in Runs : Kept(q)'
  BY Zenon, OthersKept
<1>2. \A e \in Events : Rested(e)'
  BY Zenon DEF DropInv, Rested, Grows, Reached
<1>3. QED
  BY Zenon, <1>1, <1>2 DEF DropInv

\* A dispatch with a failure that is no invalid FID is unresolved: its
\* FailureCount exceeds the number of its InvalidFIDs.
LEMMA FailureIsUnresolved ==
  ASSUME TypeOK, NEW r \in Runs, run[r] \in RunRecord,
         run[r].invalid \subseteq run[r].failed,
         run[r].invalid # run[r].failed
  PROVE  Unresolved(r)
<1>1. IsFiniteSet(Recipients)
  BY Zenon, ServiceAssumption, FS_AddElement DEF Recipients
<1>2. IsFiniteSet(run[r].failed)
  BY Zenon, <1>1, FS_Subset DEF RunRecord
<1>3. /\ IsFiniteSet(run[r].invalid)
      /\ Cardinality(run[r].invalid) <= Cardinality(run[r].failed)
      /\ Cardinality(run[r].invalid) # Cardinality(run[r].failed)
  BY Zenon, <1>2, FS_Subset
<1>4. Cardinality(run[r].invalid) \in Nat /\ Cardinality(run[r].failed) \in Nat
  BY Zenon, <1>2, <1>3, FS_CardinalityType
<1>5. QED
  BY <1>3, <1>4 DEF Unresolved

\* Sending a batch accounts for everyone in it.
LEMMA SendKeeps ==
  ASSUME TypeOK, DropInv, NEW r \in Runs, run[r].pc = "send",
         NEW batch \in NextBatches(run[r].todo),
         NEW a \in Answers(run[r].event, batch), SendBatch(r, batch, a)
  PROVE  DropInv'
<1> DEFINE e == run[r].event
           left == run[r].todo \ batch
           ok == Answered(a, "sent")
           bad == Answered(a, "invalid")
           invalid == run[r].invalid \cup bad
           x == [run[r] EXCEPT !.pc = IF left = {} THEN "invalid" ELSE "send",
                               !.todo = IF left = {} THEN invalid ELSE left,
                               !.sent = @ \cup ok,
                               !.failed = @ \cup (batch \ ok),
                               !.invalid = invalid]
<1>1. run[r] \in RunRecord
  BY Zenon, BusyRecord
<1>2. e \in Events
  BY Zenon, <1>1 DEF RunRecord
<1>3. a \in [batch -> {"sent", "invalid", "failed"}]
  BY Zenon DEF Answers
<1>4. ok \in SUBSET batch /\ bad \in SUBSET (batch \ ok)
  BY Zenon, <1>3 DEF Answered
<1>5. run' = [run EXCEPT ![r] = x]
  BY Zenon DEF SendBatch, TypeOK
<1>6. run'[r] = x /\ \A q \in Runs \ {r} : run'[q] = run[q]
  BY Zenon, <1>5 DEF TypeOK
<1>7. /\ got' = [got EXCEPT ![e] = @ \cup ok]
      /\ dead' = [dead EXCEPT ![e] = @ \cup bad]
      /\ UNCHANGED <<dlq, settled>>
  BY Zenon DEF SendBatch
<1> HIDE DEF ok, bad
<1>8. Grows
  BY Zenon, <1>2, <1>7 DEF Grows, Reached, TypeOK
<1>9. /\ x.pc = IF left = {} THEN "invalid" ELSE "send"
      /\ x.event = e /\ x.owed = run[r].owed
      /\ x.todo = IF left = {} THEN invalid ELSE left
      /\ x.failed = run[r].failed \cup (batch \ ok)
      /\ x.invalid = invalid
  BY Zenon, <1>1 DEF RunRecord
<1>10. /\ got'[e] \cup dead'[e] = Reached(e) \cup ok \cup bad
       /\ dead'[e] = dead[e] \cup bad
  BY Zenon, <1>2, <1>7 DEF Reached, TypeOK
<1>11. /\ run[r].owed \ run[r].todo \subseteq Reached(e) \cup run[r].failed
       /\ run[r].invalid \subseteq run[r].failed
       /\ run[r].invalid \subseteq dead[e]
  BY Zenon DEF DropInv, Kept
<1> HIDE DEF x, e
<1>12. /\ x.invalid \subseteq x.failed
       /\ x.invalid \subseteq dead'[e]
       /\ x.owed \ left \subseteq got'[e] \cup dead'[e] \cup x.failed
  BY Zenon, <1>4, <1>9, <1>10, <1>11
<1>13. Kept(r)'
  BY Zenon, <1>6, <1>9, <1>12 DEF Kept, Reached
<1>14. QED
  BY Zenon, <1>6, <1>7, <1>8, <1>13, OneMoves

\* Moving a run on to a state that asks no more of it than the last.
LEMMA GotoKeeps ==
  ASSUME TypeOK, DropInv, NEW r \in Runs, run[r].pc # "idle",
         NEW pc \in States, Goto(r, pc), Grows, UNCHANGED settled,
         \/ pc \in {"filter", "resolve"}
         \/ run[r].pc = "invalid" /\ pc = "dlq"
         \/ run[r].pc = "bus" /\ pc = "mark"
         \/ run[r].pc = "dlq" /\ pc = "bus"
              /\ (run[r].invalid # run[r].failed => run[r].event \in dlq')
  PROVE  DropInv'
<1>1. run[r] \in RunRecord
  BY Zenon, BusyRecord
<1>2. run[r].event \in Events
  BY Zenon, <1>1 DEF RunRecord
<1>3. \A q \in Runs \ {r} : run'[q] = run[q]
  BY Zenon DEF Goto, TypeOK
<1>4. run'[r] = [run[r] EXCEPT !.pc = pc]
  BY Zenon DEF Goto, TypeOK
<1>5. /\ run'[r].pc = pc /\ run'[r].event = run[r].event
      /\ run'[r].owed = run[r].owed /\ run'[r].failed = run[r].failed
      /\ run'[r].invalid = run[r].invalid
  BY Zenon, <1>1, <1>4 DEF RunRecord
<1>6. Kept(r)
  BY Zenon DEF DropInv
<1>7. Kept(r)'
  BY Zenon, <1>2, <1>5, <1>6 DEF Kept, Grows, Reached
<1>8. QED
  BY Zenon, <1>3, <1>7, OneMoves

\* A run that returns, crashes or comes to its end.
LEMMA EndKeeps ==
  ASSUME TypeOK, DropInv, NEW r \in Runs, run' = [run EXCEPT ![r] = Idle],
         Grows,
         \/ UNCHANGED settled
         \/ /\ run[r].pc = "mark"
            /\ settled' = [settled EXCEPT ![run[r].event] = @ \cup run[r].owed]
  PROVE  DropInv'
<1>1. run'[r] = Idle /\ \A q \in Runs \ {r} : run'[q] = run[q]
  BY Zenon DEF TypeOK
<1>2. Kept(r)'
  <2>1. run'[r].pc = "idle"
    BY <1>1 DEF Idle
  <2>2. QED
    BY Zenon, <2>1 DEF Kept
<1>3. \A q \in Runs : Kept(q)'
  BY Zenon, <1>1, <1>2, OthersKept
<1>4. CASE UNCHANGED settled
  BY Zenon, <1>1, <1>2, <1>4, OneMoves
<1>5. CASE /\ run[r].pc = "mark"
           /\ settled' = [settled EXCEPT ![run[r].event] = @ \cup run[r].owed]
  <2>1. run[r].event \in Events
    BY Zenon, <1>5, BusyRecord DEF RunRecord
  <2>2. run[r].owed \subseteq Reached(run[r].event) \/ run[r].event \in dlq
    BY Zenon, <1>5 DEF DropInv, Kept
  <2>3. ASSUME NEW e \in Events
        PROVE  Rested(e)'
    <3>1. Rested(e)
      BY Zenon DEF DropInv
    <3>2. CASE e = run[r].event
      BY Zenon, <1>5, <2>2, <3>1, <3>2 DEF Rested, Grows, Reached, TypeOK
    <3>3. CASE e # run[r].event
      BY Zenon, <1>5, <3>1, <3>3 DEF Rested, Grows, Reached, TypeOK
    <3>4. QED
      BY Zenon, <3>2, <3>3
  <2>4. QED
    BY Zenon, <1>3, <2>3 DEF DropInv
<1>6. QED
  BY Zenon, <1>4, <1>5

(***************************************************************************)
(* Nothing is dropped, as long as the device store and the DLQ answer: for *)
(* every way of splitting into batches, every answer of FCM, overlapping   *)
(* runs, crashes, duplicates, lost and expired marks.                      *)
(***************************************************************************)
THEOREM NothingDroppedHolds ==
  ASSUME "resolve" \notin Faults, "dlq" \notin Faults, EnableDLQ
  PROVE  Spec => []NothingDropped
<1>1. Init => DropInv
  BY DEF Init, DropInv, Kept, Rested, Idle
<1>2. TypeOK /\ DropInv /\ [Next]_vars => DropInv'
  <2> SUFFICES ASSUME TypeOK, DropInv, [Next]_vars
               PROVE  DropInv'
    BY Zenon
  <2>1. ASSUME UNCHANGED <<dlq, got, dead>>
        PROVE  Grows
    BY Zenon, <2>1 DEF Grows, Reached
  <2>2. ASSUME NEW r \in Runs, NEW e \in Events,
               Deliver(r, e) \/ Duplicate(r, e) \/ Resubmit(r, e)
        PROVE  DropInv'
    <3>1. PICK retry \in BOOLEAN : Start(r, e, retry)
      BY Zenon, <2>2 DEF Deliver, Duplicate, Resubmit
    <3>2. /\ run'[r] = [pc |-> "check", event |-> e, retry |-> retry,
                        owed |-> {}, todo |-> {}, sent |-> {}, failed |-> {},
                        invalid |-> {}]
          /\ \A q \in Runs \ {r} : run'[q] = run[q]
      BY Zenon, <3>1 DEF Start, TypeOK
    <3>3. Kept(r)'
      <4>1. run'[r] = [pc |-> "check", event |-> e, retry |-> retry,
                       owed |-> {}, todo |-> {}, sent |-> {}, failed |-> {},
                       invalid |-> {}]
        BY Zenon, <3>2
      <4>2. run'[r].pc = "check" /\ run'[r].invalid = {}
        BY <4>1
      <4>3. QED
        BY Zenon, <4>2 DEF Kept
    <3>4. UNCHANGED <<dlq, got, dead, settled>>
      BY Zenon, <3>1 DEF Start, history
    <3>5. QED
      BY Zenon, <2>1, <3>2, <3>3, <3>4, OneMoves
  <2>3. ASSUME NEW r \in Runs, processEvent(r)
        PROVE  DropInv'
    <3>1. CASE Refuse(r) \/ SkipProcessed(r) \/ FilterSkips(r) \/ BuildErrs(r)
               \/ CheckErrs(r)
      <4>1. PICK ok : Return(r, ok)
        BY Zenon, <3>1 DEF Refuse, SkipProcessed, FilterSkips, BuildErrs,
           CheckErrs
      <4>2. /\ run' = [run EXCEPT ![r] = Idle]
            /\ UNCHANGED <<dlq, got, dead, settled>>
        BY Zenon, <4>1 DEF Return, history
      <4>3. QED
        BY Zenon, <2>1, <4>2, EndKeeps
    <3>2. CASE Check(r) \/ FilterPasses(r) \/ MarkInvalidDone(r)
      <4>1. UNCHANGED <<dlq, got, dead, settled>>
        BY Zenon, <3>2 DEF Check, Unmarked, FilterPasses, MarkInvalidDone,
           history
      <4>2. CASE Check(r) \/ FilterPasses(r)
        BY Zenon, <2>1, <4>1, <4>2, GotoKeeps
        DEF Check, Unmarked, FilterPasses, States
      <4>3. CASE MarkInvalidDone(r)
        BY Zenon, <2>1, <4>1, <4>3, GotoKeeps DEF MarkInvalidDone, States
      <4>4. QED
        BY Zenon, <3>2, <4>2, <4>3
    <3>3. CASE Resolve(r)
      <4> DEFINE to == Targets(run[r].event)
                 x == [run[r] EXCEPT !.pc = IF to = {} THEN "mark" ELSE "send",
                                     !.owed = to, !.todo = to]
      <4>1. run[r] \in RunRecord
        BY <3>3, BusyRecord, Zenon DEF Resolve
      <4>2. run' = [run EXCEPT ![r] = x] /\ UNCHANGED <<dlq, got, dead, settled>>
        BY <3>3, Zenon DEF Resolve, TypeOK
      <4>3. run'[r] = x /\ \A q \in Runs \ {r} : run'[q] = run[q]
        BY Zenon, <4>2 DEF TypeOK
      <4> HIDE DEF to
      <4>4. /\ x.pc = IF to = {} THEN "mark" ELSE "send"
            /\ x.event = run[r].event /\ x.owed = to /\ x.todo = to
            /\ x.failed = run[r].failed /\ x.invalid = run[r].invalid
        BY Zenon, <4>1 DEF RunRecord
      <4> HIDE DEF x
      <4>5. /\ run[r].invalid \subseteq run[r].failed
            /\ run[r].invalid \subseteq dead[run[r].event]
        BY <3>3, Zenon DEF DropInv, Kept, Resolve
      <4>6. Kept(r)'
        BY Zenon, <4>2, <4>3, <4>4, <4>5 DEF Kept, Reached
      <4>7. QED
        BY Zenon, <2>1, <4>2, <4>3, <4>6, OneMoves
    <3>4. CASE ResolveErrs(r)
      BY Zenon, <3>4 DEF ResolveErrs, Fault
    <3>5. CASE dispatchToDevices(r)
      BY Zenon, <3>5, SendKeeps DEF dispatchToDevices
    <3>6. CASE MarkInvalid(r)
      <4>1. PICK d \in run[r].todo : run' = [run EXCEPT ![r].todo = @ \ {d}]
        BY Zenon, <3>6 DEF MarkInvalid
      <4>2. run[r] \in RunRecord /\ run[r].pc = "invalid"
        BY Zenon, <3>6, BusyRecord DEF MarkInvalid
      <4>3. /\ run'[r] = [run[r] EXCEPT !.todo = @ \ {d}]
            /\ \A q \in Runs \ {r} : run'[q] = run[q]
        BY Zenon, <4>1 DEF TypeOK
      <4>4. UNCHANGED <<dlq, got, dead, settled>>
        BY Zenon, <3>6 DEF MarkInvalid, history
      <4>5. /\ run'[r].pc = "invalid" /\ run'[r].event = run[r].event
            /\ run'[r].owed = run[r].owed /\ run'[r].failed = run[r].failed
            /\ run'[r].invalid = run[r].invalid
        BY Zenon, <4>2, <4>3 DEF RunRecord
      <4>6. Kept(r)
        BY Zenon DEF DropInv
      <4>7. Kept(r)'
        BY Zenon, <4>2, <4>4, <4>5, <4>6 DEF Kept, Reached
      <4>8. QED
        BY Zenon, <2>1, <4>3, <4>4, <4>7, OneMoves
    <3>7. CASE publishToDLQIfUnresolved(r)
      <4>1. run[r] \in RunRecord /\ run[r].pc = "dlq"
        BY Zenon, <3>7, BusyRecord DEF publishToDLQIfUnresolved
      <4>2. run[r].invalid \subseteq run[r].failed
        BY Zenon, <4>1 DEF DropInv, Kept
      <4>3. run[r].invalid # run[r].failed => Unresolved(r)
        BY Zenon, <4>1, <4>2, FailureIsUnresolved
      <4>4. run[r].invalid # run[r].failed => run[r].event \in dlq'
        BY Zenon, <3>7, <4>3 DEF publishToDLQIfUnresolved, Fault
      <4>5. Grows /\ UNCHANGED settled
        BY Zenon, <3>7 DEF publishToDLQIfUnresolved, Grows, history, Reached
      <4>6. QED
        BY Zenon, <3>7, <4>1, <4>4, <4>5, GotoKeeps
        DEF publishToDLQIfUnresolved, States
    <3>8. CASE publishLifecycleEvent(r)
      <4>1. UNCHANGED <<dlq, got, dead, settled>>
        BY Zenon, <3>8 DEF publishLifecycleEvent, history
      <4>2. QED
        BY Zenon, <2>1, <3>8, <4>1, GotoKeeps DEF publishLifecycleEvent, States
    <3>9. CASE MarkProcessed(r) \/ MarkErrs(r)
      <4>1. Finish(r)
        BY Zenon, <3>9 DEF MarkProcessed, MarkErrs
      <4>2. QED
        BY Zenon, <2>1, <4>1, EndKeeps DEF Finish
    <3>10. QED
      BY Zenon, <2>3, <3>1, <3>2, <3>3, <3>4, <3>5, <3>6, <3>7, <3>8, <3>9
      DEF processEvent
  <2>4. ASSUME NEW r \in Runs, Crash(r)
        PROVE  DropInv'
    BY Zenon, <2>1, <2>4, EndKeeps DEF Crash
  <2>5. CASE \/ UNCHANGED vars
             \/ \E d \in Devices : SaveDevice(d) \/ DeleteDevice(d)
             \/ \E e \in Events : Expire(e)
    <3>1. UNCHANGED <<run, dlq, got, dead, settled>>
      BY Zenon, <2>5 DEF vars, history, SaveDevice, DeleteDevice, Expire
    <3>2. QED
      BY Zenon, <3>1 DEF DropInv, Kept, Rested, Reached
  <2>6. QED
    BY Zenon, <2>2, <2>3, <2>4, <2>5 DEF Next
<1>3. DropInv => NothingDropped
  BY Zenon DEF DropInv, Rested, NothingDropped
<1>4. QED
  BY <1>1, <1>2, <1>3, TypeCorrect, PTL DEF Spec

-----------------------------------------------------------------------------
(* How often an event is dispatched, as long as no two runs at a time find *)
(* it unmarked.  An event that no run has dispatched and that is not       *)
(* marked, or that a run has checked and not yet dispatched, has an excuse *)
(* for each of its dispatches; any other may have one dispatch more than   *)
(* excuses.                                                                *)

Dispatching(r, e) ==
  Running(r, e) /\ run[r].pc \in {"send", "invalid", "dlq", "bus", "mark"}

OnceFor(e) ==
  /\ \A q, r \in Runs : Past(q, e) /\ Past(r, e) => q = r
  /\ dispatches[e] <= 1 + excuses[e]
  /\ e \notin marks /\ (\A r \in Runs : ~Dispatching(r, e))
       => dispatches[e] <= excuses[e]
  /\ \A r \in Runs :
       Running(r, e) /\ run[r].pc \in {"filter", "resolve"}
         => dispatches[e] <= excuses[e]

OnceInv == \A e \in Events \ overlapped : OnceFor(e)

\* A step of a run on another event.
LEMMA OtherKeepsOnce ==
  ASSUME TypeOK, NEW e \in Events, OnceFor(e), NEW r \in Runs,
         ~Running(r, e), ~Running(r, e)',
         \A q \in Runs \ {r} : run'[q] = run[q],
         e \in marks <=> e \in marks',
         dispatches'[e] = dispatches[e], excuses'[e] = excuses[e]
  PROVE  OnceFor(e)'
<1>1. \A q \in Runs :
        /\ Running(q, e)' <=> Running(q, e)
        /\ Past(q, e)' <=> Past(q, e)
        /\ Dispatching(q, e)' <=> Dispatching(q, e)
        /\ Running(q, e) => run'[q].pc = run[q].pc
  BY Zenon DEF Running, Past, Dispatching
<1>2. QED
  BY Zenon, <1>1 DEF OnceFor

\* A run that stays on its side of the dispatch and changes no mark, or that
\* finds its event unmarked when no other run has.
LEMMA MoveKeepsOnce ==
  ASSUME TypeOK, OnceInv, NEW r \in Runs, NEW pc,
         run[r].pc # "idle", pc # "idle",
         run'[r].pc = pc, run'[r].event = run[r].event,
         \A q \in Runs \ {r} : run'[q] = run[q],
         UNCHANGED <<marks, dispatches, excuses>>,
         overlapped \subseteq overlapped',
         \/ /\ run[r].pc = "check" /\ run[r].event \notin marks
            /\ pc \in {"filter", "resolve"}
            /\ \/ run[r].event \in overlapped'
               \/ \A q \in Runs \ {r} : ~Past(q, run[r].event)
         \/ run[r].pc = "filter" /\ pc = "resolve"
         \/ run[r].pc = "resolve"
              /\ pc \in {"send", "invalid", "dlq", "bus", "mark"}
         \/ /\ run[r].pc \in {"send", "invalid", "dlq", "bus", "mark"}
            /\ pc \in {"send", "invalid", "dlq", "bus", "mark"}
  PROVE  OnceInv'
<1> SUFFICES ASSUME NEW e \in Events, e \notin overlapped'
             PROVE  OnceFor(e)'
  BY Zenon DEF OnceInv
<1>1. OnceFor(e)
  BY Zenon DEF OnceInv
<1>2. CASE run[r].event # e
  BY Zenon, <1>1, <1>2, OtherKeepsOnce DEF Running
<1>3. CASE run[r].event = e
  <2>1. /\ Running(r, e) /\ Running(r, e)'
        /\ pc # "check" /\ Past(r, e)'
        /\ Dispatching(r, e) => Dispatching(r, e)'
    BY Zenon, <1>3 DEF Running, Past, Dispatching
  <2>2. \A q \in Runs \ {r} :
          /\ Running(q, e)' <=> Running(q, e)
          /\ Past(q, e)' <=> Past(q, e)
          /\ Dispatching(q, e)' <=> Dispatching(q, e)
          /\ run'[q].pc = run[q].pc
    BY Zenon DEF Running, Past, Dispatching
  <2>3. \A q \in Runs \ {r} : ~Past(q, e)
    BY Zenon, <1>1, <1>3, <2>1 DEF OnceFor, Past
  <2>4. ASSUME pc \in {"filter", "resolve"}
        PROVE  dispatches[e] <= excuses[e]
    <3>1. CASE run[r].pc = "check"
      BY Zenon, <1>1, <1>3, <2>3, <2>4, <3>1 DEF OnceFor, Past, Dispatching
    <3>2. CASE run[r].pc = "filter"
      BY Zenon, <1>1, <2>1, <3>2 DEF OnceFor
    <3>3. QED
      BY Zenon, <2>4, <3>1, <3>2
  <2>5. \A q, s \in Runs : Past(q, e)' /\ Past(s, e)' => q = s
    BY Zenon, <2>2, <2>3
  <2>6. (\A q \in Runs : ~Dispatching(q, e)') =>
           \A q \in Runs : ~Dispatching(q, e)
    BY Zenon, <2>1, <2>2
  <2>7. ASSUME NEW q \in Runs, Running(q, e)',
               run'[q].pc \in {"filter", "resolve"}
        PROVE  dispatches[e] <= excuses[e]
    BY Zenon, <2>2, <2>3, <2>4, <2>7 DEF Past
  <2>8. QED
    BY Zenon, <1>1, <2>5, <2>6, <2>7 DEF OnceFor
<1>4. QED
  BY Zenon, <1>2, <1>3

\* A run that goes, and either had not dispatched, or has its event marked
\* or excused.
LEMMA EndKeepsOnce ==
  ASSUME TypeOK, OnceInv, NEW r \in Runs, NEW ev \in Events,
         Running(r, ev), run' = [run EXCEPT ![r] = Idle],
         UNCHANGED <<dispatches, overlapped>>,
         \/ UNCHANGED <<marks, excuses>> /\ ~Dispatching(r, ev)
         \/ UNCHANGED excuses /\ marks' = marks \cup {ev}
         \/ UNCHANGED marks /\ excuses' = [excuses EXCEPT ![ev] = @ + 1]
  PROVE  OnceInv'
<1> SUFFICES ASSUME NEW e \in Events, e \notin overlapped
             PROVE  OnceFor(e)'
  BY Zenon DEF OnceInv
<1>1. OnceFor(e)
  BY Zenon DEF OnceInv
<1>2. run'[r] = Idle /\ \A q \in Runs \ {r} : run'[q] = run[q]
  BY Zenon DEF TypeOK
<1>3. \A q \in Runs :
        /\ Running(q, e)' => Running(q, e) /\ q # r /\ run'[q] = run[q]
        /\ Past(q, e)' => Past(q, e)
        /\ Dispatching(q, e) => Dispatching(q, e)' \/ (q = r /\ e = ev)
  BY <1>2 DEF Running, Past, Dispatching, Idle
<1>4. /\ dispatches[e] \in Nat /\ excuses[e] \in Nat
      /\ excuses[e] <= excuses'[e] /\ excuses'[e] \in Nat
  BY DEF TypeOK
<1>5. ASSUME e \notin marks', \A q \in Runs : ~Dispatching(q, e)'
      PROVE  dispatches[e] <= excuses'[e]
  <2>1. CASE \A q \in Runs : ~Dispatching(q, e)
    BY <1>1, <1>4, <1>5, <2>1 DEF OnceFor
  <2>2. CASE \E q \in Runs : Dispatching(q, e)
    <3>1. e = ev /\ Dispatching(r, ev)
      BY Zenon, <1>3, <1>5, <2>2
    <3>2. excuses' = [excuses EXCEPT ![ev] = @ + 1]
      BY Zenon, <1>5, <3>1
    <3>3. QED
      BY <1>1, <1>4, <3>1, <3>2 DEF OnceFor, TypeOK
  <2>3. QED
    BY Zenon, <2>1, <2>2
<1>6. \A q, s \in Runs : Past(q, e)' /\ Past(s, e)' => q = s
  BY Zenon, <1>1, <1>3 DEF OnceFor
<1>7. /\ dispatches[e] <= 1 + excuses'[e]
      /\ \A q \in Runs :
           Running(q, e)' /\ run'[q].pc \in {"filter", "resolve"}
             => dispatches[e] <= excuses'[e]
  BY <1>1, <1>3, <1>4 DEF OnceFor
<1>8. QED
  BY Zenon, <1>5, <1>6, <1>7 DEF OnceFor

\* A run that calls the dispatcher.
LEMMA DispatchKeepsOnce ==
  ASSUME TypeOK, OnceInv, NEW r \in Runs, NEW ev \in Events, Running(r, ev),
         run[r].pc = "resolve", run'[r].pc = "send", run'[r].event = ev,
         \A q \in Runs \ {r} : run'[q] = run[q],
         dispatches' = [dispatches EXCEPT ![ev] = @ + 1],
         UNCHANGED <<marks, excuses, overlapped>>
  PROVE  OnceInv'
<1> SUFFICES ASSUME NEW e \in Events, e \notin overlapped
             PROVE  OnceFor(e)'
  BY Zenon DEF OnceInv
<1>1. OnceFor(e)
  BY Zenon DEF OnceInv
<1>2. CASE e # ev
  BY Zenon, <1>1, <1>2, OtherKeepsOnce DEF Running, TypeOK
<1>3. CASE e = ev
  <2>1. dispatches'[e] = dispatches[e] + 1 /\ dispatches[e] \in Nat
        /\ excuses[e] \in Nat
    BY Zenon, <1>3 DEF TypeOK
  <2>2. dispatches[e] <= excuses[e]
    BY Zenon, <1>1, <1>3 DEF OnceFor
  <2>3. Past(r, e) /\ Past(r, e)' /\ Dispatching(r, e)'
    BY Zenon, <1>3 DEF Past, Running, Dispatching
  <2>4. \A q \in Runs \ {r} : ~Past(q, e) /\ ~Past(q, e)'
    BY Zenon, <1>1, <2>3 DEF OnceFor, Past, Running
  <2>5. \A q \in Runs :
          ~(Running(q, e)' /\ run'[q].pc \in {"filter", "resolve"})
    BY Zenon, <2>4 DEF Past
  <2>6. dispatches'[e] <= 1 + excuses'[e]
    BY <2>1, <2>2
  <2>7. \A q, s \in Runs : Past(q, e)' /\ Past(s, e)' => q = s
    BY Zenon, <2>4
  <2>8. QED
    BY Zenon, <2>3, <2>5, <2>6, <2>7 DEF OnceFor
<1>4. QED
  BY Zenon, <1>2, <1>3

(***************************************************************************)
(* An event that no two runs at a time find unmarked is dispatched once,   *)
(* and once more at most for each crash of its run and each mark lost or   *)
(* expired, however often processEvent is called with it.                  *)
(***************************************************************************)
THEOREM DispatchedOnceHolds == Spec => []DispatchedOnce
<1>1. Init => OnceInv
  BY DEF Init, OnceInv, OnceFor, Past, Running, Dispatching, Idle
<1>2. TypeOK /\ OnceInv /\ [Next]_vars => OnceInv'
  <2> SUFFICES ASSUME TypeOK, OnceInv, [Next]_vars
               PROVE  OnceInv'
    BY Zenon
  <2>1. ASSUME NEW r \in Runs, NEW ev \in Events,
               Deliver(r, ev) \/ Duplicate(r, ev) \/ Resubmit(r, ev)
        PROVE  OnceInv'
    <3>1. PICK retry \in BOOLEAN : Start(r, ev, retry)
      BY Zenon, <2>1 DEF Deliver, Duplicate, Resubmit
    <3>2. /\ run'[r].pc = "check" /\ run'[r].event = ev
          /\ \A q \in Runs \ {r} : run'[q] = run[q]
      BY Zenon, <3>1 DEF Start, TypeOK
    <3>3. /\ run[r].pc = "idle"
          /\ UNCHANGED <<marks, dispatches, excuses, overlapped>>
      BY Zenon, <3>1 DEF Start, history
    <3>4. \A q \in Runs : \A e \in Events :
            /\ Past(q, e)' <=> Past(q, e)
            /\ Dispatching(q, e)' <=> Dispatching(q, e)
      BY Zenon, <3>2, <3>3 DEF Running, Past, Dispatching
    <3>5. \A q \in Runs : \A e \in Events :
            Running(q, e)' /\ run'[q].pc \in {"filter", "resolve"}
              => Running(q, e) /\ run[q].pc \in {"filter", "resolve"}
      BY Zenon, <3>2 DEF Running
    <3>6. QED
      BY Zenon, <3>3, <3>4, <3>5 DEF OnceInv, OnceFor
  <2>2. ASSUME NEW r \in Runs, processEvent(r)
        PROVE  OnceInv'
    <3> DEFINE ev == run[r].event
    <3>1. run[r].pc # "idle"
      BY <2>2, Zenon DEF processEvent, Refuse, CheckErrs, SkipProcessed, Check,
                  FilterSkips, FilterPasses, BuildErrs, Resolve, ResolveErrs,
                  dispatchToDevices, MarkInvalid, MarkInvalidDone,
                  publishToDLQIfUnresolved, publishLifecycleEvent,
                  MarkProcessed, MarkErrs, Finish
    <3>2. run[r] \in RunRecord
      BY Zenon, <3>1, BusyRecord
    <3>3. ev \in Events /\ Running(r, ev)
      BY Zenon, <3>1, <3>2 DEF RunRecord, Running
    <3>4. ASSUME NEW pc, Goto(r, pc)
          PROVE  /\ run'[r].pc = pc /\ run'[r].event = run[r].event
                 /\ \A q \in Runs \ {r} : run'[q] = run[q]
      BY Zenon, <3>2, <3>4 DEF Goto, TypeOK, RunRecord
    <3>5. CASE Refuse(r) \/ SkipProcessed(r) \/ FilterSkips(r) \/ BuildErrs(r)
               \/ CheckErrs(r)
      <4>1. PICK ok : Return(r, ok)
        BY Zenon, <3>5 DEF Refuse, SkipProcessed, FilterSkips, BuildErrs,
           CheckErrs
      <4>2. ~Dispatching(r, ev)
        BY Zenon, <3>5 DEF Refuse, SkipProcessed, FilterSkips, BuildErrs,
           CheckErrs,
                    Dispatching
      <4>3. run' = [run EXCEPT ![r] = Idle]
            /\ UNCHANGED <<marks, excuses, dispatches, overlapped>>
        BY Zenon, <4>1 DEF Return, history
      <4>4. QED
        BY Zenon, <3>3, <4>2, <4>3, EndKeepsOnce
    <3>6. CASE Check(r)
      <4>1. /\ UNCHANGED <<marks, dispatches, excuses>>
            /\ overlapped \subseteq overlapped'
            /\ \/ run[r].event \in overlapped'
               \/ \A q \in Runs \ {r} : ~Past(q, run[r].event)
        BY Zenon, <3>6 DEF Check, Unmarked
      <4>2. PICK pc \in {"filter", "resolve"} : Goto(r, pc)
        BY Zenon, <3>6 DEF Check, Unmarked
      <4>3. run[r].pc = "check" /\ run[r].event \notin marks
        BY Zenon, <3>6 DEF Check
      <4>4. QED
        BY Zenon, <3>4, <4>1, <4>2, <4>3, MoveKeepsOnce
    <3>7. CASE FilterPasses(r)
      <4>1. UNCHANGED <<marks, dispatches, excuses, overlapped>>
            /\ run[r].pc = "filter"
            /\ Goto(r, "resolve")
        BY Zenon, <3>7 DEF FilterPasses, history
      <4>2. QED
        BY Zenon, <3>4, <4>1, MoveKeepsOnce
    <3>8. CASE Resolve(r)
      <4> DEFINE to == Targets(ev)
      <4>1. /\ run'[r].pc = IF to = {} THEN "mark" ELSE "send"
            /\ run'[r].event = ev
            /\ \A q \in Runs \ {r} : run'[q] = run[q]
        BY <3>2, <3>8, Zenon DEF Resolve, TypeOK, RunRecord
      <4>2. UNCHANGED <<marks, excuses, overlapped>> /\ run[r].pc = "resolve"
        BY <3>8, Zenon DEF Resolve
      <4>3. CASE to = {}
        BY Zenon, <3>8, <4>1, <4>2, <4>3, MoveKeepsOnce DEF Resolve
      <4>4. CASE to # {}
        BY <3>3, <3>8, <4>1, <4>2, <4>4, DispatchKeepsOnce, Zenon DEF Resolve
      <4>5. QED
        BY Zenon, <4>3, <4>4
    <3>9. CASE ResolveErrs(r)
      <4>1. /\ run'[r].pc = "invalid" /\ run'[r].event = ev
            /\ \A q \in Runs \ {r} : run'[q] = run[q]
        BY Zenon, <3>2, <3>9 DEF ResolveErrs, TypeOK, RunRecord
      <4>2. UNCHANGED <<marks, dispatches, excuses, overlapped>>
            /\ run[r].pc = "resolve"
        BY Zenon, <3>9 DEF ResolveErrs, history
      <4>3. QED
        BY Zenon, <4>1, <4>2, MoveKeepsOnce
    <3>10. CASE dispatchToDevices(r)
      <4>1. PICK batch \in NextBatches(run[r].todo) :
              \E a \in Answers(run[r].event, batch) : SendBatch(r, batch, a)
        BY Zenon, <3>10 DEF dispatchToDevices
      <4>2. PICK a \in Answers(run[r].event, batch) : SendBatch(r, batch, a)
        BY Zenon, <4>1
      <4>3. /\ run'[r].pc \in {"invalid", "send"} /\ run'[r].event = ev
            /\ \A q \in Runs \ {r} : run'[q] = run[q]
        BY <3>2, <4>2, Zenon DEF SendBatch, TypeOK, RunRecord
      <4>4. UNCHANGED <<marks, dispatches, excuses, overlapped>>
            /\ run[r].pc = "send"
        BY <3>10, <4>2, Zenon DEF SendBatch, dispatchToDevices
      <4>5. QED
        BY Zenon, <4>3, <4>4, MoveKeepsOnce
    <3>11. CASE MarkInvalid(r)
      <4>1. /\ run'[r].pc = "invalid" /\ run'[r].event = ev
            /\ \A q \in Runs \ {r} : run'[q] = run[q]
        BY <3>2, <3>11 DEF MarkInvalid, TypeOK, RunRecord
      <4>2. UNCHANGED <<marks, dispatches, excuses, overlapped>>
            /\ run[r].pc = "invalid"
        BY Zenon, <3>11 DEF MarkInvalid, history
      <4>3. QED
        BY Zenon, <4>1, <4>2, MoveKeepsOnce
    <3>12. CASE \/ MarkInvalidDone(r) \/ publishToDLQIfUnresolved(r)
                \/ publishLifecycleEvent(r)
      <4>1. /\ UNCHANGED <<marks, dispatches, excuses, overlapped>>
            /\ run[r].pc \in {"invalid", "dlq", "bus"}
        BY Zenon, <3>12 DEF MarkInvalidDone, publishToDLQIfUnresolved,
                     publishLifecycleEvent, history
      <4>2. PICK pc \in {"dlq", "bus", "mark"} : Goto(r, pc)
        BY Zenon, <3>12 DEF MarkInvalidDone, publishToDLQIfUnresolved,
                     publishLifecycleEvent
      <4>3. QED
        BY Zenon, <3>4, <4>1, <4>2, MoveKeepsOnce
    <3>13. CASE MarkProcessed(r)
      BY Zenon, <3>3, <3>13, EndKeepsOnce DEF MarkProcessed, Finish
    <3>14. CASE MarkErrs(r)
      BY <3>3, <3>14, EndKeepsOnce, Zenon DEF MarkErrs, Finish
    <3>15. QED
      BY Zenon, <2>2, <3>5, <3>6, <3>7, <3>8, <3>9, <3>10, <3>11, <3>12,
         <3>13, <3>14
      DEF processEvent
  <2>3. ASSUME NEW r \in Runs, Crash(r)
        PROVE  OnceInv'
    <3>1. run[r].event \in Events /\ Running(r, run[r].event)
      BY Zenon, <2>3, BusyRecord DEF Crash, RunRecord, Running
    <3>2. QED
      BY Zenon, <2>3, <3>1, EndKeepsOnce DEF Crash
  <2>4. ASSUME NEW ev \in Events, Expire(ev)
        PROVE  OnceInv'
    <3>1. /\ UNCHANGED <<run, dispatches, overlapped>>
          /\ marks' = marks \ {ev}
          /\ excuses' = [excuses EXCEPT ![ev] = @ + 1]
      BY Zenon, <2>4 DEF Expire
    <3>2. \A e \in Events : dispatches[e] \in Nat /\ excuses[e] \in Nat
      BY Zenon DEF TypeOK
    <3>3. /\ excuses'[ev] = excuses[ev] + 1
          /\ \A e \in Events : e # ev => excuses'[e] = excuses[e]
      BY Zenon, <3>1 DEF TypeOK
    <3>4. \A q \in Runs : \A e \in Events :
            /\ Running(q, e)' <=> Running(q, e)
            /\ Past(q, e)' <=> Past(q, e)
            /\ Dispatching(q, e)' <=> Dispatching(q, e)
      BY Zenon, <3>1 DEF Running, Past, Dispatching
    <3>5. ASSUME NEW e \in Events, OnceFor(e)
          PROVE  OnceFor(e)'
      <4>1. /\ dispatches'[e] <= 1 + excuses'[e]
            /\ dispatches[e] <= excuses[e] => dispatches'[e] <= excuses'[e]
            /\ e = ev => dispatches'[e] <= excuses'[e]
        <5>1. dispatches[e] <= 1 + excuses[e]
          BY Zenon, <3>5 DEF OnceFor
        <5>2. dispatches'[e] = dispatches[e]
          BY Zenon, <3>1
        <5>3. dispatches[e] \in Nat /\ excuses[e] \in Nat
          BY Zenon, <3>2
        <5>4. CASE e = ev
          <6>1. excuses'[e] = excuses[e] + 1
            BY Zenon, <3>3, <5>4
          <6>2. QED
            BY <5>1, <5>2, <5>3, <6>1
        <5>5. CASE e # ev
          <6>1. excuses'[e] = excuses[e]
            BY Zenon, <3>3, <5>5
          <6>2. QED
            BY Zenon, <5>1, <5>2, <5>3, <5>5, <6>1
        <5>6. QED
          BY Zenon, <5>4, <5>5
      <4>2. e # ev => (e \in marks' <=> e \in marks)
        BY Zenon, <3>1
      <4>3. QED
        BY Zenon, <3>1, <3>4, <3>5, <4>1, <4>2 DEF OnceFor
    <3>6. QED
      BY Zenon, <3>1, <3>5 DEF OnceInv
  <2>5. CASE \/ UNCHANGED vars
             \/ \E d \in Devices : SaveDevice(d) \/ DeleteDevice(d)
    <3>1. UNCHANGED <<run, marks, dispatches, excuses, overlapped>>
      BY Zenon, <2>5 DEF vars, history, SaveDevice, DeleteDevice
    <3>2. \A q \in Runs : \A e \in Events :
            /\ Running(q, e)' <=> Running(q, e)
            /\ Past(q, e)' <=> Past(q, e)
            /\ Dispatching(q, e)' <=> Dispatching(q, e)
      BY Zenon, <3>1 DEF Running, Past, Dispatching
    <3>3. \A e \in Events : OnceFor(e) => OnceFor(e)'
      BY Zenon, <3>1, <3>2 DEF OnceFor
    <3>4. QED
      BY Zenon, <3>1, <3>3 DEF OnceInv
  <2>6. QED
    BY Zenon, <2>1, <2>2, <2>3, <2>4, <2>5 DEF Next
<1>3. OnceInv => DispatchedOnce
  BY Zenon DEF OnceInv, OnceFor, DispatchedOnce
<1>4. QED
  BY <1>1, <1>2, <1>3, TypeCorrect, PTL DEF Spec

-----------------------------------------------------------------------------
(* What is announced.  A run that has sent to someone either is still on    *)
(* the way to the bus or has announced it; one that comes to its end with   *)
(* recipients has been through all of them, so it has an outcome to tell.   *)

Outcome(e) == \E what \in {"sent", "failed"} : <<e, what>> \in announced

Told(r) ==
  LET x == run[r]
      e == run[r].event
  IN  x.pc # "idle" =>
        /\ x.sent \subseteq got[e]
        /\ x.pc \in {"check", "filter", "resolve"} =>
             x.sent = {} /\ x.failed = {}
        /\ x.pc = "send" => x.owed \ x.todo \subseteq x.sent \cup x.failed
        /\ x.pc \in {"invalid", "dlq", "bus"} =>
             x.owed \subseteq x.sent \cup x.failed
        /\ x.pc = "mark" => /\ x.owed # {} => Outcome(e)
                            /\ x.sent # {} => <<e, "sent">> \in announced

\* A run has sent the event to someone and has not yet returned.
HasSent(r, e) == Running(r, e) /\ run[r].sent # {}

Truth(e) ==
  /\ <<e, "sent">> \in announced => got[e] # {}
  /\ excuses[e] = 0 /\ got[e] # {} =>
       <<e, "sent">> \in announced \/ \E r \in Runs : HasSent(r, e)
  /\ settled[e] # {} => Outcome(e)

TruthInv == (\A r \in Runs : Told(r)) /\ (\A e \in Events : Truth(e))

\* A step of one run that forgets nothing it has sent, and announces nothing
\* that is not so.
LEMMA OneTells ==
  ASSUME TypeOK, TruthInv, NEW r \in Runs, Told(r)',
         \A q \in Runs \ {r} : run'[q] = run[q],
         announced \subseteq announced',
         \A e \in Events :
           /\ got[e] \subseteq got'[e]
           /\ got'[e] = got[e] \/ HasSent(r, e)'
           /\ <<e, "sent">> \in announced' => got'[e] # {}
           /\ excuses'[e] = 0 => excuses[e] = 0
           /\ excuses'[e] = 0 /\ HasSent(r, e) =>
                HasSent(r, e)' \/ <<e, "sent">> \in announced'
           /\ settled'[e] # {} => settled[e] # {} \/ Outcome(e)'
  PROVE  TruthInv'
<1>1. \A e \in Events : Outcome(e) => Outcome(e)'
  BY Zenon DEF Outcome
<1>2. ASSUME NEW q \in Runs \ {r}
      PROVE  Told(q)'
  <2>1. run[q].pc # "idle" => run[q].event \in Events
    BY Zenon, BusyRecord DEF RunRecord
  <2>2. Told(q)
    BY Zenon DEF TruthInv
  <2>3. QED
    BY Zenon, <1>1, <2>1, <2>2 DEF Told
<1>3. ASSUME NEW e \in Events
      PROVE  Truth(e)'
  <2>1. Truth(e)
    BY Zenon DEF TruthInv
  <2>2. \A q \in Runs \ {r} : HasSent(q, e) => HasSent(q, e)'
    BY Zenon DEF HasSent, Running
  <2>3. ASSUME excuses'[e] = 0, got'[e] # {}
        PROVE  <<e, "sent">> \in announced' \/ \E q \in Runs : HasSent(q, e)'
    BY Zenon, <2>1, <2>2, <2>3 DEF Truth
  <2>4. QED
    BY Zenon, <1>1, <2>1, <2>3 DEF Truth
<1>4. QED
  BY Zenon, <1>2, <1>3 DEF TruthInv

\* A run that moves on without sending or announcing.
LEMMA QuietKeepsTruth ==
  ASSUME TypeOK, TruthInv, NEW r \in Runs, run[r] \in RunRecord, Told(r)',
         \A q \in Runs \ {r} : run'[q] = run[q],
         run'[r].pc # "idle", run'[r].event = run[r].event,
         run'[r].sent = run[r].sent,
         UNCHANGED <<announced, got, excuses, settled>>
  PROVE  TruthInv'
<1>1. \A e \in Events : HasSent(r, e) => HasSent(r, e)'
  BY Zenon DEF HasSent, Running
<1>2. \A e \in Events : <<e, "sent">> \in announced => got[e] # {}
  BY Zenon DEF TruthInv, Truth
<1>3. QED
  BY Zenon, <1>1, <1>2, OneTells

\* A run that ends has announced what it has sent, or has an excuse.
LEMMA EndKeepsTruth ==
  ASSUME TypeOK, TruthInv, NEW r \in Runs, run[r] \in RunRecord,
         run' = [run EXCEPT ![r] = Idle], UNCHANGED <<announced, got>>,
         \/ /\ run[r].pc \in {"check", "filter", "resolve"}
            /\ UNCHANGED <<excuses, settled>>
         \/ /\ run[r].pc = "mark"
            /\ \/ UNCHANGED excuses
               \/ excuses' = [excuses EXCEPT ![run[r].event] = @ + 1]
            /\ settled' = [settled EXCEPT ![run[r].event] = @ \cup run[r].owed]
         \/ /\ excuses' = [excuses EXCEPT ![run[r].event] = @ + 1]
            /\ UNCHANGED settled
  PROVE  TruthInv'
<1>1. PICK ev \in Events : ev = run[r].event
  BY Zenon DEF RunRecord
<1>2. run[r].pc # "idle" /\ run'[r] = Idle
  BY Zenon DEF RunRecord, States, TypeOK
<1>3. \A q \in Runs \ {r} : run'[q] = run[q]
  BY Zenon DEF TypeOK
<1>4. Told(r)
  BY Zenon DEF TruthInv
<1>5. Told(r)'
  <2>1. run'[r].pc = "idle"
    BY <1>2 DEF Idle
  <2>2. QED
    BY Zenon, <2>1 DEF Told
<1>6. \A e \in Events : <<e, "sent">> \in announced => got[e] # {}
  BY Zenon DEF TruthInv, Truth
<1>7. \A e \in Events :
        /\ excuses'[e] = 0 => excuses[e] = 0
        /\ excuses'[e] = 0 /\ e = ev =>
             run[r].pc \in {"check", "filter", "resolve", "mark"}
  <2>1. CASE UNCHANGED excuses
    <3>1. excuses \in [Events -> Nat]
      BY Zenon DEF TypeOK
    <3>2. excuses # [excuses EXCEPT ![ev] = @ + 1]
      BY <3>1
    <3>3. QED
      BY Zenon, <1>1, <2>1, <3>2
  <2>2. CASE excuses' = [excuses EXCEPT ![ev] = @ + 1]
    <3>1. excuses \in [Events -> Nat]
      BY Zenon DEF TypeOK
    <3>2. excuses'[ev] # 0
      BY <2>2, <3>1
    <3>3. \A e \in Events \ {ev} : excuses'[e] = excuses[e]
      BY Zenon, <2>2, <3>1
    <3>4. QED
      BY Zenon, <3>2, <3>3
  <2>3. QED
    BY Zenon, <1>1, <2>1, <2>2
<1>8. ASSUME NEW e \in Events, excuses'[e] = 0, HasSent(r, e)
      PROVE  <<e, "sent">> \in announced
  <2>1. e = ev /\ run[r].sent # {}
    BY Zenon, <1>1, <1>8 DEF HasSent, Running
  <2>2. run[r].pc \in {"check", "filter", "resolve", "mark"}
    BY Zenon, <1>7, <1>8, <2>1
  <2>3. QED
    BY Zenon, <1>1, <1>2, <1>4, <2>1, <2>2 DEF Told
<1>9. ASSUME NEW e \in Events, settled'[e] # {}
      PROVE  settled[e] # {} \/ Outcome(e)'
  <2>1. CASE UNCHANGED settled
    BY Zenon, <1>9, <2>1
  <2>2. CASE /\ run[r].pc = "mark"
             /\ settled' = [settled EXCEPT ![ev] = @ \cup run[r].owed]
    <3>1. run[r].owed # {} => Outcome(ev)
      BY Zenon, <1>1, <2>2, <1>4 DEF Told
    <3>2. settled'[e] = settled[e] \/ (e = ev /\ run[r].owed # {})
      BY Zenon, <1>9, <2>2 DEF TypeOK
    <3>3. QED
      BY Zenon, <1>9, <3>1, <3>2 DEF Outcome
  <2>3. QED
    BY Zenon, <1>1, <2>1, <2>2
<1>10. QED
  BY Zenon, <1>3, <1>5, <1>6, <1>7, <1>8, <1>9, OneTells

\* Sending a batch: whoever was sent the message is in the run's result.
LEMMA SendKeepsTruth ==
  ASSUME TypeOK, TruthInv, NEW r \in Runs, run[r].pc = "send",
         NEW batch \in NextBatches(run[r].todo),
         NEW a \in Answers(run[r].event, batch), SendBatch(r, batch, a)
  PROVE  TruthInv'
<1> DEFINE left == run[r].todo \ batch
           ok == Answered(a, "sent")
           invalid == run[r].invalid \cup Answered(a, "invalid")
           x == [run[r] EXCEPT !.pc = IF left = {} THEN "invalid" ELSE "send",
                               !.todo = IF left = {} THEN invalid ELSE left,
                               !.sent = @ \cup ok,
                               !.failed = @ \cup (batch \ ok),
                               !.invalid = invalid]
<1>1. run[r] \in RunRecord
  BY Zenon, BusyRecord
<1>2. PICK ev \in Events : ev = run[r].event
  BY Zenon, <1>1 DEF RunRecord
<1>3. ok \in SUBSET batch
  BY Zenon DEF Answers, Answered
<1>4. run' = [run EXCEPT ![r] = x]
  BY Zenon DEF SendBatch, TypeOK
<1>5. run'[r] = x /\ \A q \in Runs \ {r} : run'[q] = run[q]
  BY Zenon, <1>4 DEF TypeOK
<1>6. /\ got' = [got EXCEPT ![ev] = @ \cup ok]
      /\ UNCHANGED <<announced, settled, excuses>>
  BY <1>2, Zenon DEF SendBatch
<1> HIDE DEF ok, invalid
<1>7. /\ x.pc = IF left = {} THEN "invalid" ELSE "send"
      /\ x.event = ev /\ x.owed = run[r].owed
      /\ x.todo = IF left = {} THEN invalid ELSE left
      /\ x.sent = run[r].sent \cup ok
      /\ x.failed = run[r].failed \cup (batch \ ok)
  BY Zenon, <1>1, <1>2 DEF RunRecord
<1> HIDE DEF x
<1>8. /\ got'[ev] = got[ev] \cup ok
      /\ \A e \in Events \ {ev} : got'[e] = got[e]
  BY Zenon, <1>6 DEF TypeOK
<1>9. /\ run[r].sent \subseteq got[ev]
      /\ run[r].owed \ run[r].todo \subseteq run[r].sent \cup run[r].failed
  BY <1>2, Zenon DEF TruthInv, Told
<1>10. Told(r)'
  <2>1. x.sent \subseteq got'[ev]
    BY Zenon, <1>7, <1>8, <1>9
  <2>2. x.owed \ left \subseteq x.sent \cup x.failed
    BY Zenon, <1>3, <1>7, <1>9
  <2>3. QED
    BY Zenon, <1>5, <1>7, <2>1, <2>2 DEF Told
<1>11. /\ HasSent(r, ev)' <=> run[r].sent \cup ok # {}
       /\ \A e \in Events \ {ev} : ~HasSent(r, e)
       /\ HasSent(r, ev) => HasSent(r, ev)'
  BY Zenon, <1>2, <1>5, <1>7 DEF HasSent, Running
<1>12. \A e \in Events : <<e, "sent">> \in announced => got[e] # {}
  BY Zenon DEF TruthInv, Truth
<1>13. \A e \in Events :
         /\ got[e] \subseteq got'[e]
         /\ got'[e] = got[e] \/ HasSent(r, e)'
         /\ HasSent(r, e) => HasSent(r, e)'
         /\ <<e, "sent">> \in announced => got'[e] # {}
  BY Zenon, <1>8, <1>11, <1>12
<1>14. QED
  BY <1>5, <1>6, <1>10, <1>13, OneTells, Zenon

\* With a bus, the invariant is kept by every step.
LEMMA TruthHolds ==
  ASSUME "resolve" \notin Faults, "bus" \notin Faults, EnableEventBus
  PROVE  Spec => []AnnouncedIsTrue
<1>1. Init => TruthInv
  <2> SUFFICES ASSUME Init
               PROVE  TruthInv
    BY Zenon
  <2>1. \A r \in Runs : run[r].pc = "idle"
    BY Zenon DEF Init, Idle
  <2>2. announced = {} /\ \A e \in Events : got[e] = {} /\ settled[e] = {}
    BY Zenon DEF Init
  <2>3. QED
    BY Zenon, <2>1, <2>2 DEF TruthInv, Told, Truth
<1>2. TypeOK /\ TruthInv /\ [Next]_vars => TruthInv'
  <2> SUFFICES ASSUME TypeOK, TruthInv, [Next]_vars
               PROVE  TruthInv'
    BY Zenon
  <2>1. ASSUME NEW r \in Runs, NEW e \in Events,
               Deliver(r, e) \/ Duplicate(r, e) \/ Resubmit(r, e)
        PROVE  TruthInv'
    <3>1. PICK retry \in BOOLEAN : Start(r, e, retry)
      BY Zenon, <2>1 DEF Deliver, Duplicate, Resubmit
    <3>2. /\ run'[r] = [pc |-> "check", event |-> e, retry |-> retry,
                        owed |-> {}, todo |-> {}, sent |-> {}, failed |-> {},
                        invalid |-> {}]
          /\ \A q \in Runs \ {r} : run'[q] = run[q]
      <4>1. DOMAIN run = Runs
        BY Zenon DEF TypeOK
      <4>2. run' = [run EXCEPT ![r] =
                      [pc |-> "check", event |-> e, retry |-> retry, owed |-> {},
                       todo |-> {}, sent |-> {}, failed |-> {}, invalid |-> {}]]
        BY Zenon, <3>1 DEF Start
      <4>3. QED
        BY Zenon, <4>1, <4>2
    <3>3. Told(r)'
      <4>1. /\ run'[r].pc = "check"
            /\ run'[r].sent = {}
            /\ run'[r].failed = {}
        <5>1. run'[r] = [pc |-> "check", event |-> e, retry |-> retry,
                         owed |-> {}, todo |-> {}, sent |-> {}, failed |-> {},
                         invalid |-> {}]
          BY Zenon, <3>2
        <5>2. QED
          BY SMTT(30), <5>1
      <4>2. QED
        BY Zenon, <4>1 DEF Told
    <3>4. /\ run[r].pc = "idle"
          /\ UNCHANGED <<announced, got, excuses, settled>>
      BY Zenon, <3>1 DEF Start, history
    <3>5. \A f \in Events : ~HasSent(r, f)
      BY Zenon, <3>4 DEF HasSent, Running
    <3>6. \A f \in Events : <<f, "sent">> \in announced => got[f] # {}
      BY Zenon DEF TruthInv, Truth
    <3>7. QED
      BY Zenon, <3>2, <3>3, <3>4, <3>5, <3>6, OneTells
  <2>2. ASSUME NEW r \in Runs, processEvent(r)
        PROVE  TruthInv'
    <3>1. run[r].pc # "idle"
      BY <2>2, Zenon DEF processEvent, Refuse, CheckErrs, SkipProcessed, Check,
                  FilterSkips, FilterPasses, BuildErrs, Resolve, ResolveErrs,
                  dispatchToDevices, MarkInvalid, MarkInvalidDone,
                  publishToDLQIfUnresolved, publishLifecycleEvent,
                  MarkProcessed, MarkErrs, Finish
    <3>2. run[r] \in RunRecord
      BY Zenon, <3>1, BusyRecord
    <3>3. PICK ev \in Events : ev = run[r].event
      BY Zenon, <3>2 DEF RunRecord
    <3>4. Told(r)
      BY Zenon DEF TruthInv
    <3>5. ASSUME NEW pc \in States, Goto(r, pc)
          PROVE  /\ run'[r].pc = pc /\ pc # "idle"
                 /\ run'[r].event = run[r].event
                 /\ run'[r].owed = run[r].owed /\ run'[r].todo = run[r].todo
                 /\ run'[r].sent = run[r].sent
                 /\ run'[r].failed = run[r].failed
                 /\ \A q \in Runs \ {r} : run'[q] = run[q]
      BY Zenon, <3>2, <3>5 DEF Goto, TypeOK, RunRecord, States
    <3>6. CASE Refuse(r) \/ SkipProcessed(r) \/ FilterSkips(r) \/ BuildErrs(r)
               \/ CheckErrs(r)
      <4>1. PICK ok : Return(r, ok)
        BY Zenon, <3>6 DEF Refuse, SkipProcessed, FilterSkips, BuildErrs,
           CheckErrs
      <4>2. run[r].pc \in {"check", "filter", "resolve"}
        BY Zenon, <3>6 DEF Refuse, SkipProcessed, FilterSkips, BuildErrs,
           CheckErrs
      <4>3. /\ run' = [run EXCEPT ![r] = Idle]
            /\ UNCHANGED <<announced, got, excuses, settled>>
        BY Zenon, <4>1 DEF Return, history
      <4>4. QED
        BY Zenon, <3>2, <4>2, <4>3, EndKeepsTruth
    <3>7. CASE Check(r) \/ FilterPasses(r) \/ MarkInvalidDone(r)
                 \/ publishToDLQIfUnresolved(r)
      <4>1. UNCHANGED <<announced, got, excuses, settled>>
        BY Zenon, <3>7 DEF Check, Unmarked, FilterPasses, MarkInvalidDone,
                    publishToDLQIfUnresolved, history
      <4>2. PICK pc \in States :
              /\ Goto(r, pc)
              /\ \/ /\ run[r].pc \in {"check", "filter"}
                    /\ pc \in {"filter", "resolve"}
                 \/ run[r].pc = "invalid" /\ pc = "dlq"
                 \/ run[r].pc = "dlq" /\ pc = "bus"
        BY Zenon, <3>7 DEF Check, Unmarked, FilterPasses, MarkInvalidDone,
                    publishToDLQIfUnresolved, States
      <4>3. Told(r)'
        BY Zenon, <3>4, <3>5, <4>1, <4>2 DEF Told
      <4>4. QED
        BY Zenon, <3>2, <3>5, <4>1, <4>2, <4>3, QuietKeepsTruth
    <3>8. CASE Resolve(r)
      <4> DEFINE to == Targets(run[r].event)
                 x == [run[r] EXCEPT !.pc = IF to = {} THEN "mark" ELSE "send",
                                     !.owed = to, !.todo = to]
      <4>1. /\ run' = [run EXCEPT ![r] = x]
            /\ UNCHANGED <<announced, got, excuses, settled>>
            /\ run[r].pc = "resolve"
        BY <3>8, Zenon DEF Resolve, TypeOK
      <4>2. run'[r] = x /\ \A q \in Runs \ {r} : run'[q] = run[q]
        BY Zenon, <4>1 DEF TypeOK
      <4> HIDE DEF to
      <4>3. /\ x.pc = IF to = {} THEN "mark" ELSE "send"
            /\ x.event = run[r].event /\ x.owed = to /\ x.todo = to
            /\ x.sent = run[r].sent /\ x.failed = run[r].failed
        BY Zenon, <3>2 DEF RunRecord
      <4> HIDE DEF x
      <4>4. run[r].sent = {}
        BY Zenon, <3>4, <4>1 DEF Told
      <4>5. Told(r)'
        BY Zenon, <4>1, <4>2, <4>3, <4>4 DEF Told
      <4>6. QED
        BY Zenon, <3>2, <4>1, <4>2, <4>3, <4>5, QuietKeepsTruth
    <3>9. CASE ResolveErrs(r)
      BY Zenon, <3>9 DEF ResolveErrs, Fault
    <3>10. CASE dispatchToDevices(r)
      BY Zenon, <3>10, SendKeepsTruth DEF dispatchToDevices
    <3>11. CASE MarkInvalid(r)
      <4>1. PICK d \in run[r].todo : run' = [run EXCEPT ![r].todo = @ \ {d}]
        BY Zenon, <3>11 DEF MarkInvalid
      <4>2. /\ run[r].pc = "invalid"
            /\ UNCHANGED <<announced, got, excuses, settled>>
        BY Zenon, <3>11 DEF MarkInvalid, history
      <4>3. /\ run'[r] = [run[r] EXCEPT !.todo = @ \ {d}]
            /\ \A q \in Runs \ {r} : run'[q] = run[q]
        BY Zenon, <4>1 DEF TypeOK
      <4>4. /\ run'[r].pc = "invalid" /\ run'[r].event = run[r].event
            /\ run'[r].owed = run[r].owed /\ run'[r].failed = run[r].failed
            /\ run'[r].sent = run[r].sent
        BY Zenon, <3>2, <4>2, <4>3 DEF RunRecord
      <4>5. Told(r)'
        BY Zenon, <3>4, <4>2, <4>4 DEF Told
      <4>6. QED
        BY Zenon, <3>2, <4>2, <4>3, <4>4, <4>5, QuietKeepsTruth
    <3>12. CASE publishLifecycleEvent(r)
      <4>1. /\ run[r].pc = "bus" /\ Goto(r, "mark")
            /\ UNCHANGED <<got, excuses, settled>>
            /\ announced' = announced \cup Lifecycle(r)
        BY ZenonT(30), <3>12 DEF publishLifecycleEvent, Fault, history
      <4>2. /\ run'[r].pc = "mark" /\ run'[r].event = ev
            /\ run'[r].owed = run[r].owed /\ run'[r].sent = run[r].sent
            /\ \A q \in Runs \ {r} : run'[q] = run[q]
        BY Zenon, <3>3, <3>5, <4>1 DEF States
      <4>3. /\ run[r].sent \subseteq got[ev]
            /\ run[r].owed \subseteq run[r].sent \cup run[r].failed
        BY Zenon, <3>1, <3>3, <3>4, <4>1 DEF Told
      <4>4. /\ run[r].sent # {} => Lifecycle(r) = {<<ev, "sent">>}
            /\ run[r].sent = {} /\ run[r].failed # {} =>
                 Lifecycle(r) = {<<ev, "failed">>}
            /\ run[r].sent = {} => <<ev, "sent">> \notin Lifecycle(r)
            /\ \A e \in Events \ {ev} : <<e, "sent">> \notin Lifecycle(r)
        BY Zenon, <3>3 DEF Lifecycle
      <4>5. /\ run[r].sent # {} => <<ev, "sent">> \in announced'
            /\ run[r].owed # {} => Outcome(ev)'
        BY Zenon, <4>1, <4>3, <4>4 DEF Outcome
      <4>6. Told(r)'
        BY Zenon, <4>1, <4>2, <4>3, <4>5 DEF Told
      <4>7. \A e \in Events :
              /\ HasSent(r, e) => HasSent(r, e)'
              /\ <<e, "sent">> \in announced' => got[e] # {}
        <5>1. \A e \in Events : HasSent(r, e) => HasSent(r, e)'
          BY Zenon, <3>3, <4>2 DEF HasSent, Running
        <5>2. \A e \in Events : <<e, "sent">> \in announced => got[e] # {}
          BY Zenon DEF TruthInv, Truth
        <5>3. QED
          BY Zenon, <4>1, <4>3, <4>4, <5>1, <5>2
      <4>8. QED
        BY Zenon, <4>1, <4>2, <4>6, <4>7, OneTells
    <3>13. CASE MarkProcessed(r) \/ MarkErrs(r)
      <4>1. Finish(r) /\ \/ UNCHANGED excuses
                         \/ excuses' = [excuses EXCEPT ![run[r].event] = @ + 1]
        BY Zenon, <3>13 DEF MarkProcessed, MarkErrs
      <4>2. QED
        BY Zenon, <3>2, <4>1, EndKeepsTruth DEF Finish
    <3>14. QED
      BY Zenon, <2>2, <3>6, <3>7, <3>8, <3>9, <3>10, <3>11, <3>12, <3>13
      DEF processEvent
  <2>3. ASSUME NEW r \in Runs, Crash(r)
        PROVE  TruthInv'
    BY Zenon, <2>3, BusyRecord, EndKeepsTruth DEF Crash
  <2>4. CASE \/ UNCHANGED vars
             \/ \E d \in Devices : SaveDevice(d) \/ DeleteDevice(d)
    <3>1. UNCHANGED <<run, announced, got, settled, excuses>>
      BY Zenon, <2>4 DEF vars, history, SaveDevice, DeleteDevice
    <3>2. \A q \in Runs : Told(q)'
      BY Zenon, <3>1 DEF TruthInv, Told, Outcome
    <3>3. ASSUME NEW f \in Events
          PROVE  Truth(f)'
      <4>1. Truth(f)
        BY Zenon DEF TruthInv
      <4>2. /\ Outcome(f) => Outcome(f)'
            /\ \A q \in Runs : HasSent(q, f) => HasSent(q, f)'
        BY Zenon, <3>1 DEF Outcome, HasSent, Running
      <4>3. QED
        BY Zenon, <3>1, <4>1, <4>2 DEF Truth
    <3>4. QED
      BY Zenon, <3>2, <3>3 DEF TruthInv
  <2>5. ASSUME NEW e \in Events, Expire(e)
        PROVE  TruthInv'
    <3>1. /\ UNCHANGED <<run, announced, got, settled>>
          /\ \A f \in Events : excuses'[f] = 0 => excuses[f] = 0
      <4>1. /\ UNCHANGED <<run, announced, got, settled>>
            /\ excuses' = [excuses EXCEPT ![e] = @ + 1]
            /\ excuses \in [Events -> Nat]
        BY Zenon, <2>5 DEF Expire, TypeOK
      <4>2. QED
        BY <4>1
    <3>2. \A q \in Runs : Told(q)'
      BY Zenon, <3>1 DEF TruthInv, Told, Outcome
    <3>3. ASSUME NEW f \in Events
          PROVE  Truth(f)'
      <4>1. Truth(f)
        BY Zenon DEF TruthInv
      <4>2. /\ Outcome(f) => Outcome(f)'
            /\ \A q \in Runs : HasSent(q, f) => HasSent(q, f)'
        BY Zenon, <3>1 DEF Outcome, HasSent, Running
      <4>3. QED
        BY Zenon, <3>1, <4>1, <4>2 DEF Truth
    <3>4. QED
      BY Zenon, <3>2, <3>3 DEF TruthInv
  <2>6. QED
    BY Zenon, <2>1, <2>2, <2>3, <2>4, <2>5 DEF Next
<1>3. TruthInv => AnnouncedIsTrue
  BY Zenon DEF TruthInv, Truth, HasSent, Outcome, AnnouncedIsTrue
<1>4. QED
  BY <1>1, <1>2, <1>3, TypeCorrect, PTL DEF Spec

(***************************************************************************)
(* The bus tells the truth about an event, as long as it and the device    *)
(* store answer: "sent" is announced only and, unless a run crashed or a   *)
(* mark was lost, always when someone was sent the message, and no run     *)
(* with recipients comes to its end unannounced.                           *)
(***************************************************************************)
THEOREM AnnouncedIsTrueHolds ==
  ASSUME "resolve" \notin Faults, "bus" \notin Faults
  PROVE  Spec => []AnnouncedIsTrue
<1>1. CASE EnableEventBus
  BY Zenon, <1>1, TruthHolds
<1>2. CASE ~EnableEventBus
  <2>1. AnnouncedIsTrue
    BY Zenon, <1>2 DEF AnnouncedIsTrue
  <2>2. QED
    BY <2>1, PTL
<1>3. QED
  BY Zenon, <1>1, <1>2
-----------------------------------------------------------------------------
(* Progress: the safety half of EventuallyAnswered *)

\* How many stages of processEvent a run has before it.
StagesLeft(pc) ==
  CASE pc = "check" -> 8
    [] pc = "filter" -> 7
    [] pc = "resolve" -> 6
    [] pc = "send" -> 5
    [] pc = "invalid" -> 4
    [] pc = "dlq" -> 3
    [] pc = "bus" -> 2
    [] pc = "mark" -> 1
    [] OTHER -> 0

\* Run r is at a later stage, or has less to do at the same one.  What it has
\* to do is a set of recipients and so finite.
Ahead(r) ==
  \/ StagesLeft(run'[r].pc) < StagesLeft(run[r].pc)
  \/ /\ run'[r].pc = run[r].pc
     /\ run'[r].todo \subseteq run[r].todo /\ run'[r].todo # run[r].todo

\* Every step of a run takes it on, and no step of another run, of a store
\* or of the queue takes it back.
RunsAdvance ==
  \A r \in Runs :
    run[r].pc # "idle" => /\ processEvent(r) => Ahead(r)
                          /\ Ahead(r) \/ run'[r] = run[r]

\* A run that sends has someone to send to.
HasBatch(r) == run[r].pc = "send" => run[r].todo # {}

\* A step of r that takes it on and leaves the other runs alone.
Advances(r) ==
  /\ Ahead(r) /\ HasBatch(r)'
  /\ \A q \in Runs \ {r} : run'[q] = run[q]

\* The end of a run.
LEMMA EndAdvances ==
  ASSUME TypeOK, NEW r \in Runs, run[r].pc # "idle",
         run' = [run EXCEPT ![r] = Idle]
  PROVE  Advances(r)
<1>1. run'[r].pc = "idle" /\ \A q \in Runs \ {r} : run'[q] = run[q]
  BY Zenon DEF TypeOK, Idle
<1>2. run[r].pc \in States
  BY Zenon, BusyRecord DEF RunRecord
<1>3. StagesLeft("idle") < StagesLeft(run[r].pc)
  BY <1>2 DEF StagesLeft, States
<1>4. QED
  BY Zenon, <1>1, <1>3 DEF Advances, Ahead, HasBatch

\* A step from one stage to the next.
LEMMA GotoAdvances ==
  ASSUME TypeOK, NEW r \in Runs, run[r].pc # "idle", NEW pc \in States,
         Goto(r, pc), pc # "send", StagesLeft(pc) < StagesLeft(run[r].pc)
  PROVE  Advances(r)
<1>1. run[r] \in RunRecord /\ run \in [Runs -> RunRecord \cup {Idle}]
  BY Zenon, BusyRecord DEF TypeOK
<1>2. run'[r].pc = pc /\ \A q \in Runs \ {r} : run'[q] = run[q]
  BY Zenon, <1>1 DEF Goto, RunRecord
<1>3. QED
  BY Zenon, <1>2 DEF Advances, Ahead, HasBatch

\* A batch of Split is not empty.
LEMMA BatchIsNonempty ==
  ASSUME NEW todo \in SUBSET Recipients, todo # {},
         NEW batch \in NextBatches(todo)
  PROVE  batch # {} /\ batch \subseteq todo
<1>1. IsFiniteSet(Recipients)
  BY Zenon, ServiceAssumption, FS_AddElement DEF Recipients
<1>2. IsFiniteSet(todo)
  BY Zenon, <1>1, FS_Subset
<1>3. Cardinality(todo) \in Nat /\ Cardinality(todo) # 0
  BY Zenon, <1>2, FS_CardinalityType, FS_EmptySet
<1>4. Cardinality(batch) # 0 /\ batch \subseteq todo
  BY Zenon, <1>3, ServiceAssumption DEF NextBatches
<1>5. QED
  BY Zenon, <1>4, FS_EmptySet

\* dispatchToDevices goes on to the next stage after the last batch, and has
\* fewer recipients before it after any other.
LEMMA SendAdvances ==
  ASSUME TypeOK, NEW r \in Runs, HasBatch(r), dispatchToDevices(r)
  PROVE  Advances(r)
<1>1. run[r].pc = "send" /\ run[r] \in RunRecord
  BY Zenon, BusyRecord DEF dispatchToDevices
<1>2. PICK batch \in NextBatches(run[r].todo) :
        \E a \in Answers(run[r].event, batch) : SendBatch(r, batch, a)
  BY Zenon DEF dispatchToDevices
<1>3. PICK a \in Answers(run[r].event, batch) : SendBatch(r, batch, a)
  BY Zenon, <1>2
<1> DEFINE left == run[r].todo \ batch
           invalid == run[r].invalid \cup Answered(a, "invalid")
           ok == Answered(a, "sent")
           x == [run[r] EXCEPT !.pc = IF left = {} THEN "invalid" ELSE "send",
                               !.todo = IF left = {} THEN invalid ELSE left,
                               !.sent = @ \cup ok,
                               !.failed = @ \cup (batch \ ok),
                               !.invalid = invalid]
<1>4. batch # {} /\ batch \subseteq run[r].todo
  <2>1. run[r].todo \in SUBSET Recipients
    BY Zenon, <1>1 DEF RunRecord
  <2>2. run[r].todo # {}
    BY Zenon, <1>1 DEF HasBatch
  <2>3. QED
    BY Zenon, <1>2, <2>1, <2>2, BatchIsNonempty
<1>5. run' = [run EXCEPT ![r] = x]
  BY Zenon, <1>3 DEF SendBatch, TypeOK
<1>6. left \subseteq run[r].todo /\ left # run[r].todo
  BY Zenon, <1>4
<1> HIDE DEF left, invalid, ok
<1>7. /\ left = {} => x.pc = "invalid"
      /\ left # {} => x.pc = "send" /\ x.todo = left
  BY Zenon, <1>1 DEF RunRecord
<1> HIDE DEF x
<1>8. run'[r] = x /\ \A q \in Runs \ {r} : run'[q] = run[q]
  BY Zenon, <1>5 DEF TypeOK
<1>9. StagesLeft("invalid") < StagesLeft("send")
  BY DEF StagesLeft
<1>10. CASE left = {}
  BY Zenon, <1>1, <1>7, <1>8, <1>9, <1>10 DEF Advances, Ahead, HasBatch
<1>11. CASE left # {}
  BY Zenon, <1>1, <1>6, <1>7, <1>8, <1>11 DEF Advances, Ahead, HasBatch
<1>12. QED
  BY Zenon, <1>10, <1>11

\* Resolving the recipients, and marking one of the invalid FIDs.
LEMMA ResolveAdvances ==
  ASSUME TypeOK, NEW r \in Runs, Resolve(r) \/ ResolveErrs(r)
  PROVE  Advances(r)
<1>1. run[r].pc = "resolve"
  BY Zenon DEF Resolve, ResolveErrs
<1>2. run[r] \in RunRecord /\ run \in [Runs -> RunRecord \cup {Idle}]
  BY Zenon, <1>1, BusyRecord DEF TypeOK
<1>3. /\ run'[r].pc \in {"mark", "send", "invalid"}
      /\ run'[r].pc = "send" => run'[r].todo # {}
      /\ \A q \in Runs \ {r} : run'[q] = run[q]
  <2>1. CASE Resolve(r)
    <3> DEFINE to == Targets(run[r].event)
               x == [run[r] EXCEPT !.pc = IF to = {} THEN "mark" ELSE "send",
                                   !.owed = to, !.todo = to]
    <3>1. run' = [run EXCEPT ![r] = x]
      BY Zenon, <2>1 DEF Resolve, TypeOK
    <3> HIDE DEF to
    <3>2. /\ x.pc \in {"mark", "send"}
          /\ x.pc = "send" => x.todo # {}
      BY Zenon, <1>2 DEF RunRecord
    <3> HIDE DEF x
    <3>3. run'[r] = x /\ \A q \in Runs \ {r} : run'[q] = run[q]
      BY Zenon, <1>2, <3>1
    <3>4. QED
      BY Zenon, <3>2, <3>3
  <2>2. CASE ResolveErrs(r)
    BY Zenon, <1>2, <2>2 DEF ResolveErrs, RunRecord
  <2>3. QED
    BY Zenon, <2>1, <2>2
<1>4. \A pc \in {"mark", "send", "invalid"} :
        StagesLeft(pc) < StagesLeft("resolve")
  BY DEF StagesLeft
<1>5. PICK pc \in {"mark", "send", "invalid"} : run'[r].pc = pc
  BY Zenon, <1>3
<1>6. StagesLeft(pc) < StagesLeft("resolve")
  BY Zenon, <1>4
<1>7. Ahead(r)
  BY Zenon, <1>1, <1>5, <1>6 DEF Ahead
<1>8. HasBatch(r)'
  BY Zenon, <1>3 DEF HasBatch
<1>9. \A q \in Runs \ {r} : run'[q] = run[q]
  BY Zenon, <1>3
<1>10. QED
  BY Zenon, <1>7, <1>8, <1>9 DEF Advances

LEMMA MarkInvalidAdvances ==
  ASSUME TypeOK, NEW r \in Runs, MarkInvalid(r)
  PROVE  Advances(r)
<1>1. run[r].pc = "invalid"
  BY Zenon DEF MarkInvalid
<1>2. run[r] \in RunRecord /\ run \in [Runs -> RunRecord \cup {Idle}]
  BY Zenon, <1>1, BusyRecord DEF TypeOK
<1>3. PICK d \in run[r].todo : run' = [run EXCEPT ![r].todo = @ \ {d}]
  BY Zenon DEF MarkInvalid
<1>4. /\ run'[r].pc = "invalid" /\ run'[r].todo = run[r].todo \ {d}
      /\ \A q \in Runs \ {r} : run'[q] = run[q]
  BY Zenon, <1>1, <1>2, <1>3 DEF RunRecord
<1>5. QED
  BY Zenon, <1>1, <1>3, <1>4 DEF Advances, Ahead, HasBatch

\* Every step of processEvent.
LEMMA ProcessAdvances ==
  ASSUME TypeOK, NEW r \in Runs, HasBatch(r), processEvent(r)
  PROVE  Advances(r)
<1>1. CASE Refuse(r) \/ CheckErrs(r) \/ SkipProcessed(r) \/ FilterSkips(r)
           \/ BuildErrs(r) \/ MarkProcessed(r) \/ MarkErrs(r)
  <2>1. run[r].pc # "idle" /\ run' = [run EXCEPT ![r] = Idle]
    BY Zenon, <1>1 DEF Refuse, CheckErrs, SkipProcessed, FilterSkips,
                       BuildErrs, MarkProcessed, MarkErrs, Finish, Return
  <2>2. QED
    BY Zenon, <2>1, EndAdvances
<1>2. CASE Check(r)
  <2>1. PICK pc \in {"filter", "resolve"} : run[r].pc = "check" /\ Goto(r, pc)
    BY Zenon, <1>2 DEF Check, Unmarked
  <2>2. StagesLeft(pc) < StagesLeft("check") /\ pc \in States \ {"send"}
    BY DEF StagesLeft, States
  <2>3. QED
    BY Zenon, <2>1, <2>2, GotoAdvances
<1>3. CASE \/ FilterPasses(r) \/ MarkInvalidDone(r)
           \/ publishToDLQIfUnresolved(r) \/ publishLifecycleEvent(r)
  <2>1. PICK pc \in States \ {"send"} :
          /\ run[r].pc # "idle" /\ Goto(r, pc)
          /\ StagesLeft(pc) < StagesLeft(run[r].pc)
    <3>1. CASE FilterPasses(r)
      BY <3>1 DEF FilterPasses, StagesLeft, States
    <3>2. CASE MarkInvalidDone(r)
      BY <3>2 DEF MarkInvalidDone, StagesLeft, States
    <3>3. CASE publishToDLQIfUnresolved(r)
      BY <3>3 DEF publishToDLQIfUnresolved, StagesLeft, States
    <3>4. CASE publishLifecycleEvent(r)
      BY <3>4 DEF publishLifecycleEvent, StagesLeft, States
    <3>5. QED
      BY Zenon, <1>3, <3>1, <3>2, <3>3, <3>4
  <2>2. QED
    BY Zenon, <2>1, GotoAdvances
<1>4. QED
  BY Zenon, <1>1, <1>2, <1>3, ResolveAdvances, SendAdvances,
     MarkInvalidAdvances DEF processEvent

(***************************************************************************)
(* Every step of processEvent takes its run to a later stage, or leaves it *)
(* fewer recipients or invalid FIDs to go through at the same one, and     *)
(* nothing that other runs, the stores or the queue do takes it back: no   *)
(* run goes on for ever, whatever the batch size and the answers.  This is *)
(* the safety half of EventuallyAnswered; that the steps happen is the     *)
(* fairness TLC assumes.                                                   *)
(***************************************************************************)
THEOREM RunsAdvanceHolds == Spec => [][RunsAdvance]_vars
<1> DEFINE Inv == \A r \in Runs : HasBatch(r)
<1>1. Init => Inv
  BY DEF Init, HasBatch, Idle
<1>2. TypeOK /\ Inv /\ [Next]_vars => Inv' /\ [RunsAdvance]_vars
  <2> SUFFICES ASSUME TypeOK, Inv, [Next]_vars
               PROVE  Inv' /\ [RunsAdvance]_vars
    BY Zenon
  <2>1. ASSUME NEW r \in Runs, Advances(r)
        PROVE  Inv' /\ RunsAdvance
    <3>1. Inv'
      BY Zenon, <2>1 DEF Advances, HasBatch
    <3>2. ASSUME NEW q \in Runs, processEvent(q)
          PROVE  Ahead(q)
      BY Zenon, <3>2, ProcessAdvances DEF Advances
    <3>3. \A q \in Runs : Ahead(q) \/ run'[q] = run[q]
      BY Zenon, <2>1 DEF Advances
    <3>4. QED
      BY Zenon, <3>1, <3>2, <3>3 DEF RunsAdvance
  <2>2. ASSUME NEW r \in Runs, NEW e \in Events,
               Deliver(r, e) \/ Duplicate(r, e) \/ Resubmit(r, e)
        PROVE  Inv' /\ RunsAdvance
    <3>1. PICK retry \in BOOLEAN : Start(r, e, retry)
      BY Zenon, <2>2 DEF Deliver, Duplicate, Resubmit
    <3>2. /\ run[r].pc = "idle" /\ run'[r].pc = "check"
          /\ \A q \in Runs \ {r} : run'[q] = run[q]
      BY Zenon, <3>1 DEF Start, TypeOK
    <3>3. ASSUME NEW q \in Runs, processEvent(q)
          PROVE  Ahead(q)
      BY Zenon, <3>3, ProcessAdvances DEF Advances
    <3>4. \A q \in Runs : run[q].pc # "idle" => run'[q] = run[q]
      BY Zenon, <3>2
    <3>5. Inv'
      BY Zenon, <3>2 DEF HasBatch
    <3>6. QED
      BY Zenon, <3>3, <3>4, <3>5 DEF RunsAdvance
  <2>3. ASSUME NEW r \in Runs, Crash(r)
        PROVE  Inv' /\ RunsAdvance
    <3>1. run[r].pc # "idle" /\ run' = [run EXCEPT ![r] = Idle]
      BY Zenon, <2>3 DEF Crash
    <3>2. QED
      BY Zenon, <2>1, <3>1, EndAdvances
  <2>4. ASSUME UNCHANGED run
        PROVE  Inv' /\ RunsAdvance
    <3>1. ASSUME NEW q \in Runs, processEvent(q)
          PROVE  Ahead(q)
      BY Zenon, <3>1, ProcessAdvances DEF Advances
    <3>2. Inv'
      BY Zenon, <2>4 DEF HasBatch
    <3>3. QED
      BY Zenon, <2>4, <3>1, <3>2 DEF RunsAdvance
  <2>5. ASSUME NEW r \in Runs, processEvent(r)
        PROVE  Inv' /\ RunsAdvance
    BY Zenon, <2>1, <2>5, ProcessAdvances
  <2>6. CASE (\E d \in Devices : SaveDevice(d) \/ DeleteDevice(d))
             \/ (\E e \in Events : Expire(e)) \/ UNCHANGED vars
    <3>1. UNCHANGED run
      BY Zenon, <2>6 DEF SaveDevice, DeleteDevice, Expire, vars
    <3>2. QED
      BY Zenon, <2>4, <3>1
  <2>7. QED
    BY Zenon, <2>2, <2>3, <2>5, <2>6 DEF Next
<1>3. QED
  BY <1>1, <1>2, TypeCorrect, PTL DEF Spec
=============================================================================
