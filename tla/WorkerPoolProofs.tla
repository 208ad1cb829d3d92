-------------------------- MODULE WorkerPoolProofs --------------------------
(***************************************************************************)
(* Safety of the worker pool for any number of events, callers and         *)
(* workers and any queue size: Submit and Close racing in any order, an    *)
(* accepted event is neither lost nor duplicated, and Close returns only   *)
(* when the queue is drained.                                              *)
(***************************************************************************)
EXTENDS WorkerPool, FiniteSetTheorems, TLAPS

Elements(q) == {q[i] : i \in 1 .. Len(q)}
Distinct(q) == \A i, j \in 1 .. Len(q) : q[i] = q[j] => i = j

\* Sending on the queue adds one element, at its end.
LEMMA AppendElements ==
  ASSUME NEW S, NEW q \in Seq(S), NEW e \in S, Distinct(q), e \notin Elements(q)
  PROVE  /\ Append(q, e) \in Seq(S)
         /\ Elements(Append(q, e)) = Elements(q) \cup {e}
         /\ Distinct(Append(q, e))
<1> DEFINE a == Append(q, e)
<1>1. /\ a \in Seq(S)
      /\ Len(a) = Len(q) + 1
      /\ \A i \in 1 .. Len(q) : a[i] = q[i]
      /\ a[Len(q) + 1] = e
      /\ Len(q) \in Nat
  OBVIOUS
<1> HIDE DEF a
<1>2. \A i \in 1 .. Len(a) : i \in 1 .. Len(q) \/ i = Len(q) + 1
  BY <1>1
<1>3. Elements(a) = Elements(q) \cup {e}
  <2>1. Elements(a) \subseteq Elements(q) \cup {e}
    BY Zenon, <1>1, <1>2 DEF Elements
  <2>2. Elements(q) \subseteq Elements(a)
    BY <1>1 DEF Elements
  <2>3. e \in Elements(a)
    <3>1. Len(q) + 1 \in 1 .. Len(a)
      BY <1>1
    <3>2. QED
      BY Zenon, <1>1, <3>1 DEF Elements
  <2>4. QED
    BY Zenon, <2>1, <2>2, <2>3
<1>4. Distinct(a)
  BY <1>1, <1>2 DEF Distinct, Elements
<1>5. QED
  BY Zenon, <1>1, <1>3, <1>4 DEF a

\* Receiving from the queue takes its head away and nothing else.
LEMMA TailElements ==
  ASSUME NEW S, NEW q \in Seq(S), q # <<>>, Distinct(q)
  PROVE  /\ Head(q) \in S
         /\ Tail(q) \in Seq(S)
         /\ Len(Tail(q)) = Len(q) - 1
         /\ Elements(q) = {Head(q)} \cup Elements(Tail(q))
         /\ Head(q) \notin Elements(Tail(q))
         /\ Distinct(Tail(q))
<1> DEFINE t == Tail(q)
<1>1. /\ t \in Seq(S)
      /\ Len(t) = Len(q) - 1
      /\ \A i \in 1 .. Len(t) : t[i] = q[i + 1]
      /\ Len(q) \in Nat \ {0}
      /\ Head(q) = q[1]
      /\ Head(q) \in S
  OBVIOUS
<1> HIDE DEF t
<1>2. Elements(q) = {Head(q)} \cup Elements(t)
  <2>1. ASSUME NEW i \in 1 .. Len(q)
        PROVE  q[i] \in {Head(q)} \cup Elements(t)
    <3>1. CASE i = 1
      BY Zenon, <3>1, <1>1
    <3>2. CASE i # 1
      <4>1. i - 1 \in 1 .. Len(t) /\ t[i - 1] = q[i]
        BY <3>2, <1>1
      <4>2. QED
        BY Zenon, <4>1 DEF Elements
    <3>3. QED
      BY Zenon, <3>1, <3>2
  <2>2. \A i \in 1 .. Len(t) : t[i] \in Elements(q)
    BY <1>1 DEF Elements
  <2>3. Head(q) \in Elements(q)
    BY <1>1 DEF Elements
  <2>4. QED
    BY Zenon, <2>1, <2>2, <2>3 DEF Elements
<1>3. Head(q) \notin Elements(t) /\ Distinct(t)
  <2>1. \A i \in 1 .. Len(t) : i + 1 \in 1 .. Len(q) /\ i + 1 # 1
    BY <1>1
  <2>2. 1 \in 1 .. Len(q)
    BY <1>1
  <2>3. Head(q) \notin Elements(t)
    BY <1>1, <2>1, <2>2 DEF Elements, Distinct
  <2>4. ASSUME NEW i \in 1 .. Len(t), NEW j \in 1 .. Len(t), t[i] = t[j]
        PROVE  i = j
    <3>1. i + 1 = j + 1
      BY Zenon, <1>1, <2>1, <2>4 DEF Distinct
    <3>2. QED
      BY <3>1
  <2>5. QED
    BY Zenon, <2>3, <2>4 DEF Distinct
<1>4. QED
  BY Zenon, <1>1, <1>2, <1>3 DEF t

(***************************************************************************)
(* Type correctness; in particular Submit never fills the queue past its   *)
(* capacity.                                                               *)
(***************************************************************************)
THEOREM TypeCorrect == Spec => []TypeOK
<1> USE PoolAssumption
<1>1. Init => TypeOK
  <2> SUFFICES ASSUME Init
               PROVE  TypeOK
    BY Zenon
  <2>1. queue \in Seq(Events) /\ Len(queue) <= QueueSize
    BY DEF Init
  <2>2. QED
    BY Zenon, <2>1 DEF Init, TypeOK, InClose
<1>2. TypeOK /\ [Next]_vars => TypeOK'
  <2> SUFFICES ASSUME TypeOK, [Next]_vars
               PROVE  TypeOK'
    BY Zenon
  <2> USE DEF TypeOK
  <2>1. ASSUME NEW c \in Callers, NEW e \in Events, SubmitRefused(c, e)
        PROVE  TypeOK'
    BY Zenon, <2>1 DEF SubmitRefused, poolVars
  <2>2. ASSUME NEW c \in Callers, NEW e \in Events, SubmitChecked(c, e)
        PROVE  TypeOK'
    BY Zenon, <2>2 DEF SubmitChecked, poolVars
  <2>3. ASSUME NEW c \in Callers, SubmitEnqueued(c)
        PROVE  TypeOK'
    BY <2>3 DEF SubmitEnqueued
  <2>4. ASSUME NEW c \in Callers, SubmitFull(c) \/ SubmitPanics(c)
        PROVE  TypeOK'
    BY Zenon, <2>4 DEF SubmitFull, SubmitPanics, poolVars
  <2>5. ASSUME NEW c \in Callers, Close(c)
        PROVE  TypeOK'
    BY Zenon, <2>5 DEF Close, CloseEnter, StopClosesQueue, StopReturns,
       CloseAgain,
                CloseAgainReturns, InClose, poolVars
  <2>6. ASSUME NEW w \in Workers, Receive(w)
        PROVE  TypeOK'
    BY <2>6 DEF Receive, serviceVars
  <2>7. ASSUME NEW w \in Workers, HandlerReturns(w) \/ WorkerExits(w)
        PROVE  TypeOK'
    BY Zenon, <2>7 DEF HandlerReturns, WorkerExits, serviceVars
  <2>8. CASE UNCHANGED vars
    BY Zenon, <2>8 DEF vars
  <2>9. QED
    BY Zenon, <2>1, <2>2, <2>3, <2>4, <2>5, <2>6, <2>7, <2>8 DEF Next, Submit,
       Work
<1>3. QED
  BY <1>1, <1>2, PTL DEF Spec
(***************************************************************************)
(* The invariant behind the two theorems that follow.  An event on its way *)
(* from the closed check to the queue is known to nobody else, so sending  *)
(* it cannot duplicate one; a worker exits only when the queue is closed   *)
(* and empty, and neither ever changes back.                               *)
(***************************************************************************)
PoolInv ==
  /\ NothingLost
  /\ accepted \subseteq submitted
  /\ \A c \in Callers : caller[c] \in Events =>
       caller[c] \in submitted /\ caller[c] \notin accepted
  /\ \A c, d \in Callers : caller[c] \in Events /\ caller[c] = caller[d]
       => c = d
  /\ \A w \in Workers : worker[w] = "exited" => ~queueOpen /\ queue = <<>>
  /\ once = "done" \/ cancelled => \A w \in Workers : worker[w] = "exited"

\* PoolInv is inductive, given the types.
THEOREM PoolInvHolds == Spec => []PoolInv
<1> USE PoolAssumption
<1>1. Init => PoolInv
  <2> SUFFICES ASSUME Init
               PROVE  PoolInv
    BY Zenon
  <2>1. Queued = {} /\ InHandler = {}
    BY DEF Init, Queued, InHandler
  <2>2. QED
    BY <2>1 DEF Init, PoolInv, NothingLost
<1>2. TypeOK /\ PoolInv /\ [Next]_vars => PoolInv'
  <2> SUFFICES ASSUME TypeOK, PoolInv, [Next]_vars
               PROVE  PoolInv'
    BY Zenon
  <2>1. ASSUME NEW c \in Callers, NEW e \in Events, SubmitRefused(c, e)
        PROVE  PoolInv'
    BY <2>1 DEF SubmitRefused, poolVars, PoolInv, NothingLost, Queued,
                InHandler, TypeOK
  <2>2. ASSUME NEW c \in Callers, NEW e \in Events, SubmitChecked(c, e)
        PROVE  PoolInv'
    <3>1. \A d \in Callers : caller'[d] = IF d = c THEN e ELSE caller[d]
      BY Zenon, <2>2 DEF SubmitChecked, TypeOK
    <3>2. NothingLost'
      BY <2>2 DEF SubmitChecked, poolVars, PoolInv, NothingLost, Queued,
                  InHandler
    <3>3. e \notin submitted /\ submitted' = submitted \cup {e}
          /\ accepted' = accepted
      BY Zenon, <2>2 DEF SubmitChecked
    <3>4. QED
      BY <2>2, <3>1, <3>2, <3>3 DEF SubmitChecked, poolVars, PoolInv
  <2>3. ASSUME NEW c \in Callers, SubmitEnqueued(c)
        PROVE  PoolInv'
    <3> DEFINE e == caller[c]
    <3>1. /\ e \in Events
          /\ e \in submitted
          /\ e \notin accepted
          /\ queueOpen
          /\ queue' = Append(queue, e)
          /\ accepted' = accepted \cup {e}
          /\ UNCHANGED <<once, submitted, queueOpen, cancelled, worker, handled>>
      BY Zenon, <2>3 DEF SubmitEnqueued, PoolInv
    <3>2. Distinct(queue) /\ e \notin Elements(queue)
      BY Zenon, <3>1 DEF PoolInv, NothingLost, Queued, Distinct, Elements
    <3>3. /\ Queued' = Queued \cup {e}
          /\ Distinct(queue')
      BY <3>1, <3>2, AppendElements DEF TypeOK, Queued, Elements
    <3>4. InHandler' = InHandler
      BY Zenon, <3>1 DEF InHandler
    <3>5. NothingLost'
      BY <3>1, <3>3, <3>4 DEF PoolInv, NothingLost, Distinct
    <3>6. \A d \in Callers : caller'[d] = IF d = c THEN "idle" ELSE caller[d]
      BY Zenon, <2>3 DEF SubmitEnqueued, TypeOK
    <3>7. \A d \in Callers : caller'[d] \in Events =>
            d # c /\ caller'[d] = caller[d] /\ caller[d] # e
      BY Zenon, <3>1, <3>6 DEF PoolInv
    <3>8. QED
      BY Zenon, <3>1, <3>5, <3>7 DEF PoolInv
  <2>4. ASSUME NEW c \in Callers, SubmitFull(c) \/ SubmitPanics(c)
        PROVE  PoolInv'
    <3>1. \A d \in Callers : caller'[d] \in Events => caller'[d] = caller[d]
      BY Zenon, <2>4 DEF SubmitFull, SubmitPanics, TypeOK
    <3>2. NothingLost'
      BY <2>4 DEF SubmitFull, SubmitPanics, poolVars, PoolInv, NothingLost,
                  Queued, InHandler
    <3>3. QED
      BY <2>4, <3>1, <3>2 DEF SubmitFull, SubmitPanics, poolVars, PoolInv
  <2>5. ASSUME NEW c \in Callers, Close(c)
        PROVE  PoolInv'
    <3>1. \A d \in Callers : caller'[d] \in Events => caller'[d] = caller[d]
      BY Zenon, <2>5 DEF Close, CloseEnter, StopClosesQueue, StopReturns,
         CloseAgain,
                  CloseAgainReturns, InClose, TypeOK
    <3>2. UNCHANGED <<queue, worker, handled, submitted, accepted>>
      BY Zenon, <2>5 DEF Close, CloseEnter, StopClosesQueue, StopReturns,
         CloseAgain,
                  CloseAgainReturns, poolVars
    <3>3. NothingLost'
      BY <3>2 DEF PoolInv, NothingLost, Queued, InHandler
    <3>4. queueOpen' => queueOpen
      BY Zenon, <2>5 DEF Close, CloseEnter, StopClosesQueue, StopReturns,
         CloseAgain,
                  CloseAgainReturns, poolVars
    <3>5. once' = "done" \/ cancelled' =>
            \A w \in Workers : worker[w] = "exited"
      BY Zenon, <2>5 DEF Close, CloseEnter, StopClosesQueue, StopReturns,
         CloseAgain,
                  CloseAgainReturns, poolVars, PoolInv
    <3>6. QED
      BY Zenon, <3>1, <3>2, <3>3, <3>4, <3>5 DEF PoolInv
  <2>6. ASSUME NEW w \in Workers, Receive(w)
        PROVE  PoolInv'
    <3> DEFINE e == Head(queue)
    <3>1. /\ worker[w] = "ready"
          /\ queue # <<>>
          /\ queue' = Tail(queue)
          /\ UNCHANGED <<once, caller, submitted, accepted, queueOpen,
                         cancelled, handled>>
      BY Zenon, <2>6 DEF Receive, serviceVars
    <3>2. \A v \in Workers : worker'[v] = IF v = w THEN e ELSE worker[v]
      BY Zenon, <2>6 DEF Receive, TypeOK
    <3>3. Distinct(queue) /\ queue \in Seq(Events)
      BY Zenon DEF PoolInv, NothingLost, Distinct, TypeOK
    <3>4. /\ e \in Events
          /\ Queued = {e} \cup Queued'
          /\ e \notin Queued'
          /\ Distinct(queue')
      <4>1. Queued = Elements(queue) /\ Queued' = Elements(queue')
        BY Zenon DEF Queued, Elements
      <4>2. /\ Head(queue) \in Events
            /\ Elements(queue) = {Head(queue)} \cup Elements(Tail(queue))
            /\ Head(queue) \notin Elements(Tail(queue))
            /\ Distinct(Tail(queue))
        BY Zenon, <3>1, <3>3, TailElements
      <4>3. QED
        BY Zenon, <3>1, <4>1, <4>2
    <3>5. InHandler' = InHandler \cup {e}
      BY Zenon, <3>1, <3>2, <3>4 DEF InHandler
    <3>6. e \notin InHandler
      BY Zenon, <3>4 DEF PoolInv, NothingLost
    <3>7. \A u, v \in Workers :
            worker'[u] = worker'[v] /\ worker'[u] \in Events => u = v
      BY Zenon, <3>2, <3>4, <3>6 DEF PoolInv, NothingLost, InHandler
    <3>8. NothingLost'
      BY <3>1, <3>4, <3>5, <3>6, <3>7 DEF PoolInv, NothingLost, Distinct
    <3>9. \A v \in Workers : worker'[v] # "exited" /\ worker[v] # "exited"
      BY Zenon, <3>1, <3>2, <3>4 DEF PoolInv
    <3>10. QED
      BY Zenon, <3>1, <3>8, <3>9 DEF PoolInv
  <2>7. ASSUME NEW w \in Workers, HandlerReturns(w)
        PROVE  PoolInv'
    <3> DEFINE e == worker[w]
    <3>1. /\ e \in Events
          /\ handled' = handled \cup {e}
          /\ UNCHANGED <<once, caller, submitted, accepted, queue, queueOpen,
                         cancelled>>
      BY Zenon, <2>7 DEF HandlerReturns, serviceVars
    <3>2. \A v \in Workers : worker'[v] = IF v = w THEN "ready" ELSE worker[v]
      BY Zenon, <2>7 DEF HandlerReturns, TypeOK
    <3>3. InHandler' = InHandler \ {e} /\ e \in InHandler
      BY <3>1, <3>2 DEF InHandler, PoolInv, NothingLost
    <3>4. Queued' = Queued
      BY Zenon, <3>1 DEF Queued
    <3>5. NothingLost'
      <4>1. \A u, v \in Workers :
              worker'[u] = worker'[v] /\ worker'[u] \in Events => u = v
        BY Zenon, <3>2 DEF PoolInv, NothingLost
      <4>2. /\ accepted' = Queued' \cup InHandler' \cup handled'
            /\ Queued' \cap InHandler' = {}
            /\ Queued' \cap handled' = {}
            /\ InHandler' \cap handled' = {}
        BY <3>1, <3>3, <3>4 DEF PoolInv, NothingLost
      <4>3. \A i, j \in 1 .. Len(queue') : queue'[i] = queue'[j] => i = j
        BY <3>1 DEF PoolInv, NothingLost
      <4>4. QED
        BY Zenon, <4>1, <4>2, <4>3 DEF NothingLost
    <3>6. \A v \in Workers : worker'[v] = "exited" <=> worker[v] = "exited"
      BY Zenon, <3>1, <3>2
    <3>7. QED
      BY Zenon, <3>1, <3>5, <3>6 DEF PoolInv
  <2>8. ASSUME NEW w \in Workers, WorkerExits(w)
        PROVE  PoolInv'
    <3>1. /\ worker[w] = "ready"
          /\ ~queueOpen /\ queue = <<>>
          /\ UNCHANGED <<once, caller, submitted, accepted, queue, queueOpen,
                         cancelled, handled>>
      BY Zenon, <2>8 DEF WorkerExits, serviceVars
    <3>2. \A v \in Workers : worker'[v] = IF v = w THEN "exited" ELSE worker[v]
      BY Zenon, <2>8 DEF WorkerExits, TypeOK
    <3>3. InHandler' = InHandler
      BY Zenon, <3>1, <3>2 DEF InHandler
    <3>4. NothingLost'
      BY <3>1, <3>2, <3>3 DEF PoolInv, NothingLost, Queued
    <3>5. QED
      BY Zenon, <3>1, <3>2, <3>4 DEF PoolInv
  <2>9. CASE UNCHANGED vars
    BY <2>9 DEF vars, PoolInv, NothingLost, Queued, InHandler
  <2>10. QED
    BY Zenon, <2>1, <2>2, <2>3, <2>4, <2>5, <2>6, <2>7, <2>8, <2>9
    DEF Next, Submit, Work
<1>3. QED
  BY <1>1, <1>2, TypeCorrect, PTL DEF Spec

(***************************************************************************)
(* Whatever callers and workers do, every event Submit accepted is in the  *)
(* queue once, in one handler, or handled, and in one of these only.       *)
(***************************************************************************)
THEOREM NothingLostHolds == Spec => []NothingLost
<1>1. PoolInv => NothingLost
  BY Zenon DEF PoolInv
<1>2. QED
  BY <1>1, PoolInvHolds, PTL

(***************************************************************************)
(* The guarantee of WorkerPool.Stop: when Close has returned, every event  *)
(* that was accepted has been run through the handler.                     *)
(***************************************************************************)
THEOREM DrainedWhenClosedHolds == Spec => []DrainedWhenClosed
<1>1. PoolInv => DrainedWhenClosed
  <2> SUFFICES ASSUME PoolInv, once = "done"
               PROVE  accepted = handled
    BY Zenon DEF DrainedWhenClosed
  <2>1. \A w \in Workers : worker[w] = "exited"
    BY Zenon DEF PoolInv
  <2>2. queue = <<>>
    BY Zenon, <2>1, PoolAssumption DEF PoolInv
  <2>3. Queued = {} /\ InHandler = {}
    BY <2>1, <2>2, PoolAssumption DEF Queued, InHandler
  <2>4. QED
    BY Zenon, <2>3 DEF PoolInv, NothingLost
<1>2. QED
  BY <1>1, PoolInvHolds, PTL

(***************************************************************************)
(* The ctx.Done() case of the worker's select is dead code: the context is *)
(* cancelled only when no worker is left to see it.                        *)
(***************************************************************************)
THEOREM CancelAfterExitHolds == Spec => []CancelAfterExit
<1>1. PoolInv => CancelAfterExit
  BY Zenon DEF PoolInv, CancelAfterExit
<1>2. QED
  BY <1>1, PoolInvHolds, PTL

(***************************************************************************)
(* Where the panic of Submit comes from.  QuietClose is the discipline a   *)
(* caller can keep: Close is entered only when no Submit is between its    *)
(* closed check and its send.  Under it every Submit that has passed the   *)
(* check finds the service, and so the queue, still open.                  *)
(***************************************************************************)
QuietClose ==
  [][\A c \in Callers : CloseEnter(c) =>
       \A d \in Callers : caller[d] \notin Events]_vars

QuietInv ==
  /\ ~panicked
  /\ once = "free" <=> ~closed
  /\ closed => \A c \in Callers : caller[c] \notin Events
  /\ ~queueOpen => closed
  /\ \A c \in Callers : caller[c] \in InClose => closed

\* If Close is entered only while no Submit is in flight, Submit returns nil
\* or an error, as interfaces.go says, and never panics: the send racing with
\* Close is the only way to the panic.
THEOREM QuietCloseNeverPanics == Spec /\ QuietClose => []SubmitNeverPanics
<1> USE PoolAssumption
<1> DEFINE Quiet == \A c \in Callers : CloseEnter(c) =>
                      \A d \in Callers : caller[d] \notin Events
<1>1. Init => QuietInv
  BY Zenon DEF Init, QuietInv, InClose
<1>2. TypeOK /\ QuietInv /\ [Next]_vars /\ [Quiet]_vars => QuietInv'
  <2> SUFFICES ASSUME TypeOK, QuietInv, [Next]_vars, [Quiet]_vars
               PROVE  QuietInv'
    BY Zenon
  <2>1. ASSUME NEW c \in Callers, NEW e \in Events, SubmitRefused(c, e)
        PROVE  QuietInv'
    BY Zenon, <2>1 DEF SubmitRefused, poolVars, QuietInv
  <2>2. ASSUME NEW c \in Callers, NEW e \in Events, SubmitChecked(c, e)
        PROVE  QuietInv'
    <3>1. \A d \in Callers : caller'[d] = IF d = c THEN e ELSE caller[d]
      BY Zenon, <2>2 DEF SubmitChecked, TypeOK
    <3>2. QED
      BY Zenon, <2>2, <3>1 DEF SubmitChecked, poolVars, QuietInv
  <2>3. ASSUME NEW c \in Callers, SubmitEnqueued(c) \/ SubmitFull(c)
        PROVE  QuietInv'
    <3>1. \A d \in Callers : caller'[d] = IF d = c THEN "idle" ELSE caller[d]
      BY Zenon, <2>3 DEF SubmitEnqueued, SubmitFull, TypeOK
    <3>2. QED
      BY <2>3, <3>1 DEF SubmitEnqueued, SubmitFull, poolVars, QuietInv, InClose
  <2>4. ASSUME NEW c \in Callers, SubmitPanics(c)
        PROVE  FALSE
    BY Zenon, <2>4 DEF SubmitPanics, QuietInv
  <2>5. ASSUME NEW c \in Callers, CloseEnter(c)
        PROVE  QuietInv'
    <3>1. \A d \in Callers : caller[d] \notin Events
      <4>1. vars' # vars
        BY Zenon, <2>5 DEF CloseEnter, vars
      <4>2. QED
        BY Zenon, <2>5, <4>1
    <3>2. \A d \in Callers : caller'[d] = IF d = c THEN "closing" ELSE caller[d]
      BY Zenon, <2>5 DEF CloseEnter, TypeOK
    <3>3. QED
      BY Zenon, <2>5, <3>1, <3>2 DEF CloseEnter, poolVars, QuietInv, InClose
  <2>6. ASSUME NEW c \in Callers,
               \/ StopClosesQueue(c)
               \/ StopReturns(c)
               \/ CloseAgain(c)
               \/ CloseAgainReturns(c)
        PROVE  QuietInv'
    <3>1. closed /\ closed' /\ UNCHANGED panicked /\ once' # "free"
      BY Zenon, <2>6 DEF StopClosesQueue, StopReturns, CloseAgain,
         CloseAgainReturns,
                  QuietInv, InClose
    <3>2. \A d \in Callers : caller'[d] \in Events => caller'[d] = caller[d]
      BY Zenon, <2>6 DEF StopClosesQueue, StopReturns, CloseAgain,
         CloseAgainReturns,
                  InClose, TypeOK
    <3>3. QED
      BY Zenon, <3>1, <3>2 DEF QuietInv
  <2>7. ASSUME NEW w \in Workers, Work(w)
        PROVE  QuietInv'
    BY <2>7 DEF Work, Receive, HandlerReturns, WorkerExits, serviceVars, QuietInv
  <2>8. CASE UNCHANGED vars
    BY Zenon, <2>8 DEF vars, QuietInv
  <2>9. QED
    BY Zenon, <2>1, <2>2, <2>3, <2>4, <2>5, <2>6, <2>7, <2>8 DEF Next, Submit,
       Close
<1>3. QuietInv => SubmitNeverPanics
  BY Zenon DEF QuietInv, SubmitNeverPanics
<1>4. QED
  BY <1>1, <1>2, <1>3, TypeCorrect, PTL DEF Spec, QuietClose

\* In particular, a program that calls Submit and Close from one goroutine
\* never sees the panic, whatever the workers do meanwhile.
THEOREM OneCallerNeverPanics ==
  ASSUME \A c, d \in Callers : c = d
  PROVE  Spec => []SubmitNeverPanics
<1>1. [Next]_vars => [\A c \in Callers : CloseEnter(c) =>
                        \A d \in Callers : caller[d] \notin Events]_vars
  BY Zenon, PoolAssumption DEF CloseEnter
<1>2. QED
  BY <1>1, QuietCloseNeverPanics, PTL DEF Spec, QuietClose

(***************************************************************************)
(* Why Close returns.  CloseReturns itself needs fairness and is checked   *)
(* by TLC; the two theorems below are its safety half: at every moment of  *)
(* a shutdown somebody has a step to take, and the steps run out.          *)
(***************************************************************************)
Stopping == {c \in Callers : caller[c] \in {"closing", "draining"}}

ShutdownInv ==
  /\ once = "running" <=> Stopping # {}
  /\ \A c, d \in Stopping : c = d
  /\ \A c \in Callers : caller[c] = "waiting" => once # "free"
  /\ \A c \in Callers : caller[c] = "draining" => ~queueOpen

\* A Close that has begun is never stuck: it can return, or one caller runs
\* Stop, which can close the queue, has every worker's exit to return on, or
\* waits for a worker that can receive, return from its handler or exit.
ShutdownGoesOn ==
  \A c \in Callers : caller[c] \in InClose =>
    \/ caller[c] = "waiting" /\ once = "done"
    \/ \E d \in Callers : caller[d] = "closing"
    \/ \E d \in Callers :
         /\ caller[d] = "draining"
         /\ \/ \A w \in Workers : worker[w] = "exited"
            \/ \E w \in Workers :
                 \/ worker[w] \in Events
                 \/ worker[w] = "ready" /\ (queue # <<>> \/ ~queueOpen)

\* Nobody who is inside Close waits for something that nobody will do: Close
\* and Submit called in any order by any number of goroutines.
THEOREM ShutdownGoesOnHolds == Spec => []ShutdownGoesOn
<1> USE PoolAssumption
<1>1. Init => ShutdownInv
  BY Zenon DEF Init, ShutdownInv, Stopping
<1>2. TypeOK /\ ShutdownInv /\ [Next]_vars => ShutdownInv'
  <2> SUFFICES ASSUME TypeOK, ShutdownInv, [Next]_vars
               PROVE  ShutdownInv'
    BY Zenon
  <2>1. ASSUME NEW c \in Callers, Submit(c)
        PROVE  ShutdownInv'
    <3>1. UNCHANGED <<once, queueOpen>>
      BY Zenon, <2>1 DEF Submit, SubmitRefused, SubmitChecked, SubmitEnqueued,
                  SubmitFull, SubmitPanics, poolVars
    <3>2. \A d \in Callers : \/ caller[d] = caller'[d]
                             \/ /\ caller[d] \notin InClose
                                /\ caller'[d] \notin InClose
      <4>1. CASE \E e \in Events : SubmitChecked(c, e)
        BY Zenon, <4>1 DEF SubmitChecked, TypeOK, InClose
      <4>2. CASE SubmitEnqueued(c) \/ SubmitFull(c)
        BY Zenon, <4>2 DEF SubmitEnqueued, SubmitFull, TypeOK, InClose
      <4>3. CASE SubmitPanics(c) \/ \E e \in Events : SubmitRefused(c, e)
        BY Zenon, <4>3 DEF SubmitPanics, SubmitRefused
      <4>4. QED
        BY Zenon, <2>1, <4>1, <4>2, <4>3 DEF Submit
    <3>3. Stopping' = Stopping
      BY Zenon, <3>2 DEF Stopping, InClose
    <3>4. QED
      BY Zenon, <3>1, <3>2, <3>3 DEF ShutdownInv, InClose
  <2>2. ASSUME NEW c \in Callers, CloseEnter(c)
        PROVE  ShutdownInv'
    <3>1. /\ once = "free" /\ once' = "running"
          /\ UNCHANGED queueOpen
          /\ \A d \in Callers :
               caller'[d] = IF d = c THEN "closing" ELSE caller[d]
      BY Zenon, <2>2 DEF CloseEnter, TypeOK, poolVars
    <3>2. Stopping' = {c}
      BY Zenon, <3>1 DEF ShutdownInv, Stopping
    <3>3. QED
      BY Zenon, <3>1, <3>2 DEF ShutdownInv
  <2>3. ASSUME NEW c \in Callers, StopClosesQueue(c)
        PROVE  ShutdownInv'
    <3>1. /\ UNCHANGED once
          /\ ~queueOpen'
          /\ caller[c] = "closing"
          /\ caller'[c] = "draining"
          /\ \A d \in Callers \ {c} : caller'[d] = caller[d]
      BY Zenon, <2>3 DEF StopClosesQueue, TypeOK
    <3>2. Stopping' = Stopping
      BY Zenon, <3>1 DEF Stopping
    <3>3. \A d \in Callers : caller'[d] = "waiting" => once' # "free"
      BY Zenon, <3>1 DEF ShutdownInv
    <3>4. QED
      BY Zenon, <3>1, <3>2, <3>3 DEF ShutdownInv
  <2>4. ASSUME NEW c \in Callers, StopReturns(c)
        PROVE  ShutdownInv'
    <3>1. /\ once' = "done"
          /\ UNCHANGED queueOpen
          /\ caller[c] = "draining"
          /\ \A d \in Callers :
               caller'[d] = IF d = c THEN "idle" ELSE caller[d]
      BY Zenon, <2>4 DEF StopReturns, TypeOK
    <3>2. Stopping' = {}
      BY <3>1 DEF ShutdownInv, Stopping
    <3>3. QED
      BY Zenon, <3>1, <3>2 DEF ShutdownInv
  <2>5. ASSUME NEW c \in Callers, CloseAgain(c) \/ CloseAgainReturns(c)
        PROVE  ShutdownInv'
    <3>1. /\ UNCHANGED <<once, queueOpen>>
          /\ caller[c] \in {"idle", "waiting"}
          /\ caller'[c] \in {"idle", "waiting"}
          /\ once # "free"
          /\ \A d \in Callers \ {c} : caller'[d] = caller[d]
      <4>1. CASE CloseAgain(c)
        BY Zenon, <4>1 DEF CloseAgain, TypeOK, poolVars
      <4>2. CASE CloseAgainReturns(c)
        BY Zenon, <4>2 DEF CloseAgainReturns, TypeOK, poolVars
      <4>3. QED
        BY Zenon, <2>5, <4>1, <4>2
    <3>2. \A d \in Callers : caller'[d] \in {"closing", "draining"} <=>
                             caller[d] \in {"closing", "draining"}
      BY Zenon, <3>1
    <3>3. Stopping' = Stopping
      BY Zenon, <3>2 DEF Stopping
    <3>4. QED
      BY Zenon, <3>1, <3>3 DEF ShutdownInv
  <2>6. ASSUME NEW w \in Workers, Work(w)
        PROVE  ShutdownInv'
    BY <2>6 DEF Work, Receive, HandlerReturns, WorkerExits, serviceVars,
                ShutdownInv, Stopping
  <2>7. CASE UNCHANGED vars
    BY Zenon, <2>7 DEF vars, ShutdownInv, Stopping
  <2>8. QED
    BY Zenon, <2>1, <2>2, <2>3, <2>4, <2>5, <2>6, <2>7 DEF Next, Close
<1>3. TypeOK /\ ShutdownInv => ShutdownGoesOn
  <2> SUFFICES ASSUME TypeOK, ShutdownInv,
                      NEW c \in Callers, caller[c] \in InClose,
                      ~(caller[c] = "waiting" /\ once = "done"),
                      \A d \in Callers : caller[d] # "closing"
               PROVE  \E d \in Callers :
                        /\ caller[d] = "draining"
                        /\ \/ \A w \in Workers : worker[w] = "exited"
                           \/ \E w \in Workers :
                                \/ worker[w] \in Events
                                \/ /\ worker[w] = "ready"
                                   /\ queue # <<>> \/ ~queueOpen
    BY Zenon DEF ShutdownGoesOn
  <2>1. \E d \in Callers : caller[d] = "draining"
    <3>1. CASE caller[c] = "waiting"
      <4>1. once = "running"
        BY Zenon, <3>1 DEF ShutdownInv, TypeOK
      <4>2. Stopping # {}
        BY Zenon, <4>1 DEF ShutdownInv
      <4>3. QED
        BY Zenon, <4>2 DEF Stopping
    <3>2. CASE caller[c] # "waiting"
      BY Zenon, <3>2 DEF InClose
    <3>3. QED
      BY Zenon, <3>1, <3>2
  <2>2. ~queueOpen
    BY Zenon, <2>1 DEF ShutdownInv
  <2>3. \A w \in Workers : worker[w] \in {"ready", "exited"} \cup Events
    BY Zenon DEF TypeOK
  <2>4. QED
    BY Zenon, <2>1, <2>2, <2>3
<1>4. QED
  BY <1>1, <1>2, <1>3, TypeCorrect, PTL DEF Spec

(***************************************************************************)
(* The worker steps a shutdown still needs: an event in the queue is to be *)
(* received and handled, one in a handler to be handled, and each worker   *)
(* is to exit.                                                             *)
(***************************************************************************)
Busy == {w \in Workers : worker[w] \in Events}
Alive == {w \in Workers : worker[w] # "exited"}
DrainSteps == 2 * Len(queue) + Cardinality(Busy) + Cardinality(Alive)

\* Once Stop has closed the queue the drain only shrinks, and every step of a
\* worker shrinks it, so Stop waits for at most 2 * QueueSize steps and two
\* for each worker: no event comes in that would keep it waiting.
DrainShrinks ==
  ~queueOpen =>
    /\ DrainSteps \in 0 .. 2 * QueueSize + 2 * Cardinality(Workers)
    /\ DrainSteps' <= DrainSteps
    /\ \A w \in Workers : Work(w) => DrainSteps' < DrainSteps

\* The sets of DrainSteps are finite, and so it is a bounded number.
LEMMA DrainStepsBounded ==
  ASSUME TypeOK
  PROVE  /\ IsFiniteSet(Busy) /\ IsFiniteSet(Alive)
         /\ Cardinality(Busy) \in Nat /\ Cardinality(Alive) \in Nat
         /\ Len(queue) \in Nat
         /\ DrainSteps \in 0 .. 2 * QueueSize + 2 * Cardinality(Workers)
<1>1. Busy \subseteq Workers /\ Alive \subseteq Workers
  BY Zenon DEF Busy, Alive
<1>2. /\ IsFiniteSet(Busy) /\ Cardinality(Busy) <= Cardinality(Workers)
      /\ IsFiniteSet(Alive) /\ Cardinality(Alive) <= Cardinality(Workers)
  BY Zenon, <1>1, PoolAssumption, FS_Subset
<1>3. /\ Cardinality(Busy) \in Nat /\ Cardinality(Alive) \in Nat
      /\ Cardinality(Workers) \in Nat
  BY Zenon, <1>2, PoolAssumption, FS_CardinalityType
<1>4. /\ Len(queue) \in Nat /\ Len(queue) <= QueueSize
      /\ QueueSize \in Nat
  BY PoolAssumption DEF TypeOK
<1>5. QED
  BY <1>2, <1>3, <1>4 DEF DrainSteps

\* DrainShrinks holds of every step, whatever the callers do.
THEOREM DrainShrinksHolds == Spec => [][DrainShrinks]_vars
<1> USE PoolAssumption
<1>1. TypeOK /\ TypeOK' /\ [Next]_vars => [DrainShrinks]_vars
  <2> SUFFICES ASSUME TypeOK, TypeOK', Next, ~queueOpen
               PROVE  /\ DrainSteps' <= DrainSteps
                      /\ \A w \in Workers : Work(w) => DrainSteps' < DrainSteps
    BY Zenon, DrainStepsBounded DEF DrainShrinks
  <2>1. /\ IsFiniteSet(Busy) /\ IsFiniteSet(Alive)
        /\ Cardinality(Busy) \in Nat /\ Cardinality(Alive) \in Nat
        /\ Len(queue) \in Nat
        /\ DrainSteps \in Nat
    <3>1. Cardinality(Workers) \in Nat
      BY Zenon, FS_CardinalityType
    <3>2. QED
      BY <3>1, DrainStepsBounded
  <2>0. DrainSteps' \in Nat
    <3>1. (DrainSteps \in 0 .. 2 * QueueSize + 2 * Cardinality(Workers))'
      BY DrainStepsBounded, PTL
    <3>2. Cardinality(Workers) \in Nat
      BY Zenon, FS_CardinalityType
    <3>3. QED
      BY <3>1, <3>2
  <2>2. ASSUME NEW w \in Workers, Receive(w)
        PROVE  DrainSteps' < DrainSteps
    <3>1. /\ worker[w] = "ready"
          /\ Len(queue') = Len(queue) - 1
          /\ worker'[w] \in Events
          /\ \A v \in Workers \ {w} : worker'[v] = worker[v]
      BY <2>2 DEF Receive, TypeOK
    <3>2. Busy' = Busy \cup {w} /\ w \notin Busy /\ Alive' = Alive
      BY Zenon, <3>1 DEF Busy, Alive
    <3>3. Cardinality(Busy') = Cardinality(Busy) + 1
      BY Zenon, <2>1, <3>2, FS_AddElement
    <3>4. QED
      BY <2>1, <3>1, <3>2, <3>3 DEF DrainSteps
  <2>3. ASSUME NEW w \in Workers, HandlerReturns(w)
        PROVE  DrainSteps' < DrainSteps
    <3>1. /\ worker[w] \in Events
          /\ UNCHANGED queue
          /\ worker'[w] = "ready"
          /\ \A v \in Workers \ {w} : worker'[v] = worker[v]
      BY Zenon, <2>3 DEF HandlerReturns, TypeOK
    <3>2. Busy' = Busy \ {w} /\ w \in Busy /\ Alive' = Alive
      BY Zenon, <3>1 DEF Busy, Alive
    <3>3. Cardinality(Busy') = Cardinality(Busy) - 1
      BY Zenon, <2>1, <3>2, FS_RemoveElement
    <3>4. QED
      BY <2>1, <3>1, <3>2, <3>3 DEF DrainSteps
  <2>4. ASSUME NEW w \in Workers, WorkerExits(w)
        PROVE  DrainSteps' < DrainSteps
    <3>1. /\ worker[w] = "ready"
          /\ UNCHANGED queue
          /\ worker'[w] = "exited"
          /\ \A v \in Workers \ {w} : worker'[v] = worker[v]
      BY Zenon, <2>4 DEF WorkerExits, TypeOK
    <3>2. Busy' = Busy /\ Alive' = Alive \ {w} /\ w \in Alive
      BY Zenon, <3>1 DEF Busy, Alive
    <3>3. Cardinality(Alive') = Cardinality(Alive) - 1
      BY Zenon, <2>1, <3>2, FS_RemoveElement
    <3>4. QED
      BY <2>1, <3>1, <3>2, <3>3 DEF DrainSteps
  <2>5. ASSUME NEW c \in Callers, Submit(c) \/ Close(c)
        PROVE  DrainSteps' = DrainSteps
    <3>1. UNCHANGED <<queue, worker>>
      BY Zenon, <2>5 DEF Submit, SubmitRefused, SubmitChecked, SubmitEnqueued,
                  SubmitFull, SubmitPanics, Close, CloseEnter, StopClosesQueue,
                  StopReturns, CloseAgain, CloseAgainReturns, poolVars
    <3>2. QED
      BY Zenon, <3>1 DEF DrainSteps, Busy, Alive
  <2>6. \A w \in Workers : Work(w) => DrainSteps' < DrainSteps
    BY Zenon, <2>2, <2>3, <2>4 DEF Work
  <2>7. DrainSteps' <= DrainSteps
    <3>1. CASE \E w \in Workers : Work(w)
      BY <2>0, <2>1, <2>6, <3>1
    <3>2. CASE \E c \in Callers : Submit(c) \/ Close(c)
      BY <2>1, <2>5, <3>2
    <3>3. QED
      BY Zenon, <3>1, <3>2 DEF Next
  <2>8. QED
    BY Zenon, <2>6, <2>7
<1>2. QED
  BY <1>1, TypeCorrect, PTL DEF Spec
=============================================================================
