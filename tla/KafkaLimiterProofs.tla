------------------------- MODULE KafkaLimiterProofs -------------------------
(***************************************************************************)
(* What the committed offset of the Kafka consumer stands for, for a       *)
(* partition of any length, any set of poison messages and of messages     *)
(* that may fail, any pool and any number of crashes and rebalances; and   *)
(* the promise of the shared token bucket and the stopping of Wait, for    *)
(* any number of replicas and calls, any limits and any clock.             *)
(***************************************************************************)
EXTENDS KafkaConsumer, RateLimiter, TLAPS

-----------------------------------------------------------------------------
(* The Kafka consumer *)

\* ConsumeClaim is done with m; and, if Submit runs the pipeline itself and
\* the pipeline does not fail on m, so is the pipeline.
Settled(m) ==
  /\ m \in attempted
  /\ ~pooled /\ m \notin Poison \cup MayFail => m \in processed

\* Everything behind the committed offset is settled.  To keep it so, all
\* that is marked must be, and all that has been fetched but the message in
\* hand, which is the last one fetched.
KafkaInv ==
  /\ \A m \in Offsets : m < committed => Settled(m)
  /\ session =>
       /\ committed <= marked
       /\ marked <= pos
       /\ \A m \in Offsets : m < marked => Settled(m)
       /\ \A m \in Offsets : m < pos => Settled(m) \/ m = inHand
  /\ inHand # None => session /\ inHand = pos - 1 /\ marked < pos

\* Type correctness of the consumer and of the pool behind it.
THEOREM TypeCorrect == SpecKafka => []TypeOKKafka
<1> USE KafkaAssumption DEF Offsets, None
<1>1. InitKafka => TypeOKKafka
  <2> SUFFICES ASSUME InitKafka
               PROVE  TypeOKKafka
    BY Zenon
  <2>1. queued \in Seq(Offsets) /\ Len(queued) <= PoolQueueSize
    BY DEF InitKafka
  <2>2. working \in [1 .. PoolWorkers -> Offsets \cup {None}]
    BY Zenon DEF InitKafka
  <2>3. session \in BOOLEAN /\ pooled \in BOOLEAN
    BY Zenon DEF InitKafka
  <2>4. /\ pos \in 0 .. LogLen /\ marked \in 0 .. LogLen
        /\ committed \in 0 .. LogLen /\ restarts \in 0 .. MaxRestarts
        /\ inHand \in Offsets \cup {None}
    BY DEF InitKafka
  <2>5. attempted \subseteq Offsets /\ processed \subseteq Offsets
    BY Zenon DEF InitKafka
  <2>6. QED
    BY Zenon, <2>1, <2>2, <2>3, <2>4, <2>5 DEF TypeOKKafka
<1>2. TypeOKKafka /\ [NextKafka]_kafkaVars => TypeOKKafka'
  <2> SUFFICES ASSUME TypeOKKafka, [NextKafka]_kafkaVars
               PROVE  TypeOKKafka'
    BY Zenon
  <2> USE DEF TypeOKKafka
  <2>1. CASE Fetch
    BY <2>1 DEF Fetch
  <2>2. ASSUME NEW marks \in BOOLEAN, Done(marks), inHand \in Offsets
        PROVE  /\ marked' \in 0 .. LogLen
               /\ inHand' \in Offsets \cup {None}
               /\ attempted' \subseteq Offsets
               /\ UNCHANGED <<pooled, session, pos, committed, restarts>>
    BY <2>2 DEF Done, MarkMessage
  <2>3. CASE DecodeFails
    BY Zenon, <2>2, <2>3 DEF DecodeFails
  <2>4. CASE HandlerSucceeds
    BY Zenon, <2>2, <2>4 DEF HandlerSucceeds
  <2>5. CASE HandlerFails
    BY Zenon, <2>2, <2>5 DEF HandlerFails
  <2>6. CASE HandlerEnqueues
    <3>1. inHand \in Offsets /\ Len(queued) < PoolQueueSize
      BY Zenon, <2>6 DEF HandlerEnqueues
    <3>2. Append(queued, inHand) \in Seq(Offsets)
      BY <3>1
    <3>3. Len(Append(queued, inHand)) <= PoolQueueSize
      BY <3>1
    <3>4. queued' = Append(queued, inHand) /\ UNCHANGED <<working, processed>>
      BY Zenon, <2>6 DEF HandlerEnqueues
    <3>5. Done(TRUE)
      BY Zenon, <2>6 DEF HandlerEnqueues
    <3>6. QED
      BY Zenon, <2>2, <3>1, <3>2, <3>3, <3>4, <3>5
  <2>7. CASE HandlerRefused
    BY Zenon, <2>2, <2>7 DEF HandlerRefused
  <2>8. ASSUME NEW w \in 1 .. PoolWorkers, PoolReceives(w)
        PROVE  TypeOKKafka'
    BY <2>8 DEF PoolReceives
  <2>9. ASSUME NEW w \in 1 .. PoolWorkers, WorkerReturns(w)
        PROVE  TypeOKKafka'
    BY Zenon, <2>9 DEF WorkerReturns
  <2>10. CASE SessionStart \/ Commit
    BY Zenon, <2>10 DEF SessionStart, Commit
  <2>11. CASE SessionEnd
    <3>1. session' \in BOOLEAN
      BY Zenon, <2>11 DEF SessionEnd
    <3>2. restarts' \in 0 .. MaxRestarts
      BY <2>11 DEF SessionEnd
    <3>3. QED
      BY Zenon, <2>11, <3>1, <3>2 DEF SessionEnd
  <2>12. CASE Crash
    <3>1. queued' \in Seq(Offsets) /\ Len(queued') <= PoolQueueSize
      BY <2>12 DEF Crash
    <3>2. working' \in [1 .. PoolWorkers -> Offsets \cup {None}]
      BY Zenon, <2>12 DEF Crash
    <3>3. session' \in BOOLEAN
      BY Zenon, <2>12 DEF Crash
    <3>4. restarts' \in 0 .. MaxRestarts
      BY <2>12 DEF Crash
    <3>5. QED
      BY Zenon, <2>12, <3>1, <3>2, <3>3, <3>4 DEF Crash
  <2>13. CASE UNCHANGED kafkaVars
    BY Zenon, <2>13 DEF kafkaVars
  <2>14. QED
    BY Zenon, <2>1, <2>3, <2>4, <2>5, <2>6, <2>7, <2>8, <2>9, <2>10, <2>11,
       <2>12,
       <2>13
    DEF NextKafka, ConsumeClaim
<1>3. QED
  BY <1>1, <1>2, PTL DEF SpecKafka

\* A step of ConsumeClaim that settles the message in hand, marked or not,
\* and unsettles nothing, keeps KafkaInv.
LEMMA DoneKeepsInv ==
  ASSUME TypeOKKafka, KafkaInv, NEW marks \in BOOLEAN, Done(marks),
         inHand \in Offsets, processed \subseteq processed',
         ~pooled /\ inHand \notin Poison \cup MayFail
           => inHand \in processed'
  PROVE  KafkaInv'
<1> USE KafkaAssumption DEF Offsets, None
<1>1. \A m \in Offsets : Settled(m) => Settled(m)'
  BY Zenon DEF Done, Settled
<1>2. \A m \in Offsets : m = inHand => Settled(m)'
  BY Zenon DEF Done, Settled
<1>3. /\ session /\ inHand = pos - 1 /\ marked < pos
      /\ marked' = marked \/ marked' = pos
      /\ UNCHANGED <<pooled, session, pos, committed>>
      /\ inHand' = None
  BY DEF KafkaInv, TypeOKKafka, Done, MarkMessage
<1>4. \A m \in Offsets : m < pos => Settled(m)'
  BY <1>1, <1>2 DEF KafkaInv, TypeOKKafka, Settled
<1>5. QED
  BY <1>1, <1>3, <1>4 DEF KafkaInv, TypeOKKafka, Settled

\* KafkaInv is inductive, given the types.
THEOREM KafkaInvHolds == SpecKafka => []KafkaInv
<1> USE KafkaAssumption DEF Offsets, None
<1>1. InitKafka => KafkaInv
  BY DEF InitKafka, KafkaInv
<1>2. TypeOKKafka /\ KafkaInv /\ [NextKafka]_kafkaVars => KafkaInv'
  <2> SUFFICES ASSUME TypeOKKafka, KafkaInv, [NextKafka]_kafkaVars
               PROVE  KafkaInv'
    BY Zenon
  <2>1. CASE Fetch
    BY <2>1 DEF Fetch, KafkaInv, Settled, TypeOKKafka
  <2>2. CASE DecodeFails
    BY Zenon, <2>2, DoneKeepsInv DEF DecodeFails
  <2>3. CASE HandlerSucceeds
    BY Zenon, <2>3, DoneKeepsInv DEF HandlerSucceeds
  <2>4. CASE HandlerFails
    BY Zenon, <2>4, DoneKeepsInv DEF HandlerFails
  <2>5. CASE HandlerEnqueues
    BY Zenon, <2>5, DoneKeepsInv DEF HandlerEnqueues
  <2>6. CASE HandlerRefused
    BY Zenon, <2>6, DoneKeepsInv DEF HandlerRefused
  <2>7. ASSUME NEW w \in 1 .. PoolWorkers, PoolReceives(w) \/ WorkerReturns(w)
        PROVE  KafkaInv'
    <3>1. \A m \in Offsets : Settled(m) => Settled(m)'
      BY Zenon, <2>7 DEF PoolReceives, WorkerReturns, Settled
    <3>2. UNCHANGED <<pooled, session, pos, inHand, marked, committed>>
      BY Zenon, <2>7 DEF PoolReceives, WorkerReturns
    <3>3. QED
      BY Zenon, <3>1, <3>2 DEF KafkaInv, Settled
  <2>8. CASE SessionStart
    BY <2>8 DEF SessionStart, KafkaInv, Settled, TypeOKKafka
  <2>9. CASE Commit
    BY <2>9 DEF Commit, KafkaInv, Settled, TypeOKKafka
  <2>10. CASE SessionEnd
    BY Zenon, <2>10 DEF SessionEnd, KafkaInv, Settled, TypeOKKafka
  <2>11. CASE Crash
    BY Zenon, <2>11 DEF Crash, KafkaInv, Settled
  <2>12. CASE UNCHANGED kafkaVars
    BY Zenon, <2>12 DEF kafkaVars, KafkaInv, Settled
  <2>13. QED
    BY Zenon, <2>1, <2>2, <2>3, <2>4, <2>5, <2>6, <2>7, <2>8, <2>9, <2>10,
       <2>11,
       <2>12
    DEF NextKafka, ConsumeClaim
<1>3. QED
  BY <1>1, <1>2, TypeCorrect, PTL DEF SpecKafka

(***************************************************************************)
(* No crash and no rebalance makes the group skip a message unseen.        *)
(***************************************************************************)
THEOREM CommittedWasAttemptedHolds == SpecKafka => []CommittedWasAttempted
<1>1. KafkaInv => CommittedWasAttempted
  BY Zenon DEF KafkaInv, Settled, CommittedWasAttempted
<1>2. QED
  BY <1>1, KafkaInvHolds, PTL

(***************************************************************************)
(* Without backpressure the at-least-once contract holds for every message *)
(* the pipeline does not fail on.                                          *)
(***************************************************************************)
THEOREM GoodIsProcessedHolds == SpecKafka => []GoodIsProcessed
<1>1. KafkaInv => GoodIsProcessed
  BY Zenon DEF KafkaInv, Settled, GoodIsProcessed
<1>2. QED
  BY <1>1, KafkaInvHolds, PTL

(***************************************************************************)
(* The group never moves back: no crash, rebalance or late commit makes it *)
(* read again what it has committed.  A commit of an older mark would.     *)
(***************************************************************************)
THEOREM CommittedGrows == SpecKafka => [][committed' >= committed]_kafkaVars
<1> USE KafkaAssumption DEF Offsets, None
<1>1. TypeOKKafka /\ KafkaInv /\ [NextKafka]_kafkaVars
        => [committed' >= committed]_kafkaVars
  <2> SUFFICES ASSUME TypeOKKafka, KafkaInv, NextKafka
               PROVE  committed' >= committed
    BY Zenon
  <2>1. committed \in Int /\ (session => committed <= marked)
    BY DEF TypeOKKafka, KafkaInv
  <2>2. CASE Fetch \/ ConsumeClaim
    <3>1. UNCHANGED committed
      BY Zenon, <2>2 DEF Fetch, ConsumeClaim, DecodeFails, HandlerSucceeds,
                  HandlerFails, HandlerEnqueues, HandlerRefused, Done
    <3>2. QED
      BY <2>1, <3>1
  <2>3. CASE \E w \in 1 .. PoolWorkers : PoolReceives(w) \/ WorkerReturns(w)
    BY <2>1, <2>3 DEF PoolReceives, WorkerReturns
  <2>4. CASE SessionStart \/ Commit \/ SessionEnd \/ Crash
    BY <2>1, <2>4 DEF SessionStart, Commit, SessionEnd, Crash
  <2>5. QED
    BY Zenon, <2>2, <2>3, <2>4 DEF NextKafka
<1>2. QED
  BY <1>1, TypeCorrect, KafkaInvHolds, PTL DEF SpecKafka

(***************************************************************************)
(* The whole list of what makes the group move past an event that nobody   *)
(* is going to process: a pipeline error, returned to the consumer or only *)
(* logged by a worker; a full queue; and a crash while the pool holds an    *)
(* event it has accepted.                                                  *)
(***************************************************************************)
Loses ==
  \/ HandlerFails
  \/ HandlerRefused
  \/ \E w \in 1 .. PoolWorkers :
       WorkerReturns(w) /\ UNCHANGED processed /\ working[w] \notin processed
  \/ Crash /\ (queued # <<>> \/ \E w \in 1 .. PoolWorkers : working[w] # None)

\* m need not be read again: it does not decode, it has been processed, or
\* the pool is going to process it.
Safe(m) ==
  \/ m \in Poison
  \/ m \in processed
  \/ \E i \in 1 .. Len(queued) : queued[i] = m
  \/ \E w \in 1 .. PoolWorkers : working[w] = m

SafeInv ==
  /\ \A m \in Offsets : m < committed => Safe(m)
  /\ session => \A m \in Offsets : m < pos => Safe(m) \/ m = inHand

\* A step of ConsumeClaim that makes the message in hand safe, and no other
\* unsafe, keeps SafeInv.
LEMMA DoneKeepsSafe ==
  ASSUME TypeOKKafka, SafeInv, NEW marks \in BOOLEAN, Done(marks),
         \A m \in Offsets : Safe(m) \/ m = inHand => Safe(m)'
  PROVE  SafeInv'
<1>1. UNCHANGED <<session, pos, committed>>
  BY Zenon DEF Done
<1>2. \A m \in Offsets : m < committed => Safe(m)'
  BY Zenon DEF SafeInv
<1>3. session => \A m \in Offsets : m < pos => Safe(m)'
  BY Zenon DEF SafeInv
<1>4. QED
  BY Zenon, <1>1, <1>2, <1>3 DEF SafeInv

\* A step that moves neither the offsets nor the message in hand, and makes
\* no message unsafe, keeps SafeInv.
LEMMA PoolKeepsSafe ==
  ASSUME SafeInv, UNCHANGED <<session, pos, inHand, committed>>,
         \A m \in Offsets : Safe(m) => Safe(m)'
  PROVE  SafeInv'
<1>1. \A m \in Offsets : m < committed => Safe(m)'
  BY Zenon DEF SafeInv
<1>2. session => \A m \in Offsets : m < pos => Safe(m)' \/ m = inHand
  BY Zenon DEF SafeInv
<1>3. QED
  BY Zenon, <1>1, <1>2 DEF SafeInv

\* Through crashes between messages, rebalances and any use of the pool, the
\* contract the tests state holds as long as none of the steps of Loses is
\* taken: nothing else in the consumer or the pool loses an event.
THEOREM LossHasACause ==
  SpecKafka /\ [][~Loses]_kafkaVars => []CommittedIsNotLost
<1> USE KafkaAssumption
<1>1. InitKafka => SafeInv
  BY DEF InitKafka, SafeInv, Offsets
<1>2. TypeOKKafka /\ KafkaInv /\ SafeInv /\ [NextKafka]_kafkaVars
        /\ [~Loses]_kafkaVars => SafeInv'
  <2> SUFFICES ASSUME TypeOKKafka, KafkaInv, SafeInv, NextKafka, ~Loses
               PROVE  SafeInv'
    <3>1. UNCHANGED kafkaVars /\ SafeInv => SafeInv'
      BY DEF kafkaVars, SafeInv, Safe
    <3>2. QED
      BY Zenon, <3>1
  <2>1. CASE Fetch
    <3>1. /\ UNCHANGED <<session, committed, queued, working, processed>>
          /\ inHand = None /\ inHand' = pos /\ pos' = pos + 1
      BY Zenon, <2>1 DEF Fetch
    <3>2. \A m \in Offsets : Safe(m)' <=> Safe(m)
      BY Zenon, <3>1 DEF Safe
    <3>3. \A m \in Offsets : m # inHand /\ (m < pos + 1 => m < pos \/ m = pos)
      BY <3>1 DEF Offsets, None, TypeOKKafka
    <3>4. QED
      BY Zenon, <3>1, <3>2, <3>3 DEF SafeInv
  <2>2. CASE DecodeFails
    <3>1. Done(TRUE) /\ inHand \in Poison
      BY Zenon, <2>2 DEF DecodeFails
    <3>2. \A m \in Offsets : Safe(m) \/ m = inHand => Safe(m)'
      BY Zenon, <2>2 DEF DecodeFails, Safe
    <3>3. QED
      BY Zenon, <3>1, <3>2, DoneKeepsSafe
  <2>3. CASE HandlerSucceeds
    <3>1. Done(TRUE)
      BY Zenon, <2>3 DEF HandlerSucceeds
    <3>2. \A m \in Offsets : Safe(m) \/ m = inHand => Safe(m)'
      BY Zenon, <2>3 DEF HandlerSucceeds, Safe
    <3>3. QED
      BY Zenon, <3>1, <3>2, DoneKeepsSafe
  <2>4. CASE HandlerEnqueues
    <3>1. /\ Done(TRUE)
          /\ inHand \in Offsets
          /\ queued' = Append(queued, inHand)
          /\ queued \in Seq(Offsets)
          /\ UNCHANGED <<working, processed>>
      BY Zenon, <2>4 DEF HandlerEnqueues, TypeOKKafka
    <3>2. /\ Len(queued') = Len(queued) + 1
          /\ Len(queued) \in Nat
          /\ \A i \in 1 .. Len(queued) : queued'[i] = queued[i]
          /\ queued'[Len(queued) + 1] = inHand
      BY <3>1
    <3>3. /\ Len(queued) + 1 \in 1 .. Len(queued')
          /\ \A i \in 1 .. Len(queued) : i \in 1 .. Len(queued')
      BY <3>2
    <3>4. \A m \in Offsets : Safe(m) \/ m = inHand => Safe(m)'
      BY Zenon, <3>1, <3>2, <3>3 DEF Safe
    <3>5. QED
      BY Zenon, <3>1, <3>4, DoneKeepsSafe
  <2>5. ASSUME NEW w \in 1 .. PoolWorkers, PoolReceives(w)
        PROVE  SafeInv'
    <3>1. /\ queued # <<>> /\ queued \in Seq(Offsets)
          /\ working[w] = None
          /\ working'[w] = Head(queued)
          /\ \A v \in 1 .. PoolWorkers : v # w => working'[v] = working[v]
          /\ queued' = Tail(queued)
          /\ UNCHANGED <<session, pos, inHand, committed, processed>>
      BY Zenon, <2>5 DEF PoolReceives, TypeOKKafka
    <3>2. ASSUME NEW m \in Offsets, NEW i \in 1 .. Len(queued), queued[i] = m
          PROVE  Safe(m)'
      <4>1. CASE i = 1
        <5>1. working'[w] = m
          BY <3>1, <3>2, <4>1
        <5>2. QED
          BY Zenon, <5>1 DEF Safe
      <4>2. CASE i # 1
        <5>1. i - 1 \in 1 .. Len(queued') /\ queued'[i - 1] = m
          BY <3>1, <3>2, <4>2
        <5>2. QED
          BY Zenon, <5>1 DEF Safe
      <4>3. QED
        BY Zenon, <4>1, <4>2
    <3>3. ASSUME NEW m \in Offsets, NEW v \in 1 .. PoolWorkers, working[v] = m
          PROVE  Safe(m)'
      <4>1. m # None
        BY DEF Offsets, None
      <4>2. working'[v] = m
        BY Zenon, <3>1, <3>3, <4>1
      <4>3. QED
        BY Zenon, <4>2 DEF Safe
    <3>4. \A m \in Offsets : Safe(m) => Safe(m)'
      BY Zenon, <3>1, <3>2, <3>3 DEF Safe
    <3>5. QED
      BY Zenon, <3>1, <3>4, PoolKeepsSafe
  <2>6. ASSUME NEW w \in 1 .. PoolWorkers, WorkerReturns(w)
        PROVE  SafeInv'
    <3>1. /\ working[w] \in processed'
          /\ processed \subseteq processed'
          /\ \A v \in 1 .. PoolWorkers : v # w => working'[v] = working[v]
          /\ UNCHANGED <<session, pos, inHand, committed, queued>>
      BY Zenon, <2>6 DEF WorkerReturns, Loses, TypeOKKafka
    <3>2. \A m \in Offsets : Safe(m) => Safe(m)'
      BY Zenon, <3>1 DEF Safe
    <3>3. QED
      BY Zenon, <3>1, <3>2, PoolKeepsSafe
  <2>7. CASE SessionStart
    <3>1. /\ UNCHANGED <<committed, queued, working, processed>>
          /\ pos' = committed
      BY Zenon, <2>7 DEF SessionStart
    <3>2. \A m \in Offsets : Safe(m)' <=> Safe(m)
      BY Zenon, <3>1 DEF Safe
    <3>3. QED
      BY Zenon, <3>1, <3>2 DEF SafeInv
  <2>8. CASE Commit \/ SessionEnd
    <3>1. /\ UNCHANGED <<pos, inHand, queued, working, processed>>
          /\ session /\ committed' = marked
      BY Zenon, <2>8 DEF Commit, SessionEnd
    <3>2. \A m \in Offsets : Safe(m)' <=> Safe(m)
      BY Zenon, <3>1 DEF Safe
    <3>3. \A m \in Offsets : m < marked => m < pos /\ m # inHand
      BY <3>1 DEF KafkaInv, TypeOKKafka, Offsets, None
    <3>4. QED
      BY Zenon, <3>1, <3>2, <3>3 DEF SafeInv
  <2>9. CASE Crash
    <3>1. /\ UNCHANGED <<committed, processed>>
          /\ session' = FALSE
          /\ queued = <<>>
          /\ \A w \in 1 .. PoolWorkers : working[w] = None
      BY Zenon, <2>9 DEF Crash, Loses
    <3>2. \A m \in Offsets : m # None
      BY DEF Offsets, None
    <3>3. \A m \in Offsets : Safe(m) => Safe(m)'
      BY <3>1, <3>2 DEF Safe
    <3>4. QED
      BY Zenon, <3>1, <3>3 DEF SafeInv
  <2>10. QED
    BY Zenon, <2>1, <2>2, <2>3, <2>4, <2>5, <2>6, <2>7, <2>8, <2>9
    DEF NextKafka, ConsumeClaim, Loses
<1>3. SafeInv => CommittedIsNotLost
  BY Zenon DEF SafeInv, Safe, CommittedIsNotLost
<1>4. QED
  BY <1>1, <1>2, <1>3, TypeCorrect, KafkaInvHolds, PTL DEF SpecKafka

-----------------------------------------------------------------------------
(* Arithmetic *)

\* Half a grain, the most by which a stored time is rounded.
LEMMA HalfGrainNat == HalfGrain \in Nat /\ Grain <= 2 * HalfGrain + 1
BY LimiterAssumption DEF HalfGrain

\* What integer division gives.
LEMMA DivBounds ==
  ASSUME NEW n \in Nat, NEW g \in Nat, g > 0, NEW q \in Int, q = n \div g
  PROVE  q * g <= n /\ n < q * g + g /\ q * g \in Int
OBVIOUS

\* Rounding moves a time by half a grain at most.
LEMMA StoredNear ==
  ASSUME NEW now \in Nat
  PROVE  /\ Stored(now) \in Nat
         /\ Stored(now) <= now + HalfGrain
         /\ now <= Stored(now) + HalfGrain
<1>1. /\ now + HalfGrain \in Nat /\ Grain \in Nat /\ Grain > 0
      /\ (now + HalfGrain) \div Grain \in Nat
  BY HalfGrainNat, LimiterAssumption
<1>2. /\ Stored(now) <= now + HalfGrain
      /\ now + HalfGrain < Stored(now) + Grain
      /\ Stored(now) \in Int
  BY <1>1, DivBounds DEF Stored
<1>3. Stored(now) \in Nat
  BY <1>1 DEF Stored
<1> QED
  BY <1>2, <1>3, HalfGrainNat, LimiterAssumption

\* Products of natural numbers are natural numbers.
LEMMA NatTimes == \A a, b \in Nat : a * b \in Nat
OBVIOUS

\* Multiplying keeps an order of natural numbers.
LEMMA Times ==
  ASSUME NEW a \in Nat, NEW b \in Nat, NEW c \in Nat, a <= b
  PROVE  a * c <= b * c /\ c * a <= b * c /\ a * c \in Nat /\ c * a \in Nat
OBVIOUS

-----------------------------------------------------------------------------
(* The potential *)

Capacity == MaxBurst * Second

Elapsed == IF clock < bucket.updatedAt THEN 0 ELSE clock - bucket.updatedAt

\* The most that any caller could find in the bucket now.
Reach == bucket.tokens + MaxRate * Elapsed
Level == IF ~Live \/ Reach > Capacity THEN Capacity ELSE Reach

\* The key outlives the last evaluation by KeyTTL.
Kept == bucket # Absent => bucket.updatedAt + KeyTTL <= bucket.expiresAt + HalfGrain

\* What was given out and what is left never exceed the burst, the refill of
\* the time that has passed, and the rounding.
Bounded ==
  granted * Second + Level <= Capacity + MaxRate * (advanced + HalfGrain * evals)

BInv == TypeOKLimiter /\ Kept /\ (FullWithinTTL => Bounded)

\* The types of the limiter's constants.
LEMMA Constants ==
  /\ MaxRate \in Nat /\ MaxBurst \in Nat /\ Second \in Nat /\ Second > 0
  /\ KeyTTL \in Nat /\ KeyTTL > 0 /\ HalfGrain \in Nat /\ Capacity \in Nat
BY LimiterAssumption, HalfGrainNat DEF Capacity

\* A limit's rate and burst are within the largest ones.
LEMMA LimitNat ==
  ASSUME NEW limit \in Limits
  PROVE  /\ limit.rate \in Nat /\ limit.rate <= MaxRate
         /\ limit.burst \in Nat /\ limit.burst <= MaxBurst
BY LimiterAssumption

\* What the bucket has, and could have by now, are natural numbers.
LEMMA ReachNat ==
  ASSUME TypeOKLimiter, bucket # Absent
  PROVE  /\ bucket.tokens \in Nat /\ bucket.updatedAt \in Nat
         /\ bucket.expiresAt \in Nat
         /\ Elapsed \in Nat /\ MaxRate * Elapsed \in Nat /\ Reach \in Nat
<1>1. /\ bucket.tokens \in Nat /\ bucket.updatedAt \in Nat
      /\ bucket.expiresAt \in Nat /\ clock \in Nat
  BY Zenon DEF TypeOKLimiter
<1>2. Elapsed \in Nat
  BY <1>1 DEF Elapsed
<1>3. MaxRate * Elapsed \in Nat
  BY <1>2, Constants
<1> QED
  BY <1>1, <1>2, <1>3 DEF Reach

\* The potential is at most the capacity.
LEMMA LevelNat == ASSUME TypeOKLimiter PROVE Level \in Nat /\ Level <= Capacity
<1>1. CASE Live
  BY <1>1, Constants, ReachNat DEF Level, Live
<1>2. CASE ~Live
  BY <1>2, Constants DEF Level
<1> QED
  BY Zenon, <1>1, <1>2

\* The same, after a step.
LEMMA LevelNatNext == TypeOKLimiter' => Level' \in Nat /\ Level' <= Capacity
<1>1. TypeOKLimiter => Level \in Nat /\ Level <= Capacity
  BY Zenon, LevelNat
<1>2. (TypeOKLimiter => Level \in Nat /\ Level <= Capacity)'
  BY <1>1, PTL
<1> QED
  BY Zenon, <1>2 DEF Capacity

\* No caller finds more, whatever its limit is.
LEMMA RefilledBelow ==
  ASSUME TypeOKLimiter, NEW limit \in Limits
  PROVE  Refilled(limit) \in Nat /\ Refilled(limit) <= Level
<1> DEFINE capacity == limit.burst * Second
<1>1. capacity \in Nat /\ capacity <= Capacity
  BY Zenon, LimitNat, Constants, Times DEF Capacity
<1>2. CASE ~Live
  BY Zenon, <1>1, <1>2 DEF Refilled, Level
<1>3. CASE Live
  <2>1. /\ bucket.tokens \in Nat /\ Elapsed \in Nat /\ Reach \in Nat
        /\ MaxRate * Elapsed \in Nat
    BY Zenon, <1>3, ReachNat DEF Live
  <2>2. /\ Elapsed * limit.rate \in Nat
        /\ Elapsed * limit.rate <= MaxRate * Elapsed
    <3> DEFINE rate == limit.rate
    <3>1. rate \in Nat /\ rate <= MaxRate /\ MaxRate \in Nat
      BY Zenon, LimitNat, Constants
    <3> HIDE DEF rate
    <3>2. Elapsed * rate \in Nat /\ Elapsed * rate <= MaxRate * Elapsed
      BY Zenon, <2>1, <3>1, Times
    <3> QED
      BY Zenon, <3>2 DEF rate
  <2>3. Refilled(limit) = IF bucket.tokens + Elapsed * limit.rate > capacity
                          THEN capacity
                          ELSE bucket.tokens + Elapsed * limit.rate
    BY Zenon, <1>3 DEF Refilled, Elapsed
  <2> QED
    <3> DEFINE mine == Elapsed * limit.rate
               most == MaxRate * Elapsed
    <3>1. mine \in Nat /\ most \in Nat /\ mine <= most
      BY Zenon, <2>1, <2>2
    <3>2. /\ Reach = bucket.tokens + most
          /\ Refilled(limit) = IF bucket.tokens + mine > capacity
                               THEN capacity ELSE bucket.tokens + mine
          /\ Level = IF Reach > Capacity THEN Capacity ELSE Reach
      BY Zenon, <1>3, <2>3 DEF Reach, Level
    <3> HIDE DEF mine, most, capacity
    <3> QED
      BY <1>1, <2>1, <3>1, <3>2, Constants
<1> QED
  BY Zenon, <1>2, <1>3

\* The script stores a well-typed bucket.
LEMMA ConsumedType ==
  ASSUME TypeOKLimiter, NEW limit \in Limits
  PROVE  /\ Consumed(limit) \in [tokens : Nat, updatedAt : Nat, expiresAt : Nat]
         /\ Consumed(limit) # Absent
<1>1. clock \in Nat /\ Stored(clock) \in Nat /\ clock + KeyTTL \in Nat
  BY StoredNear, Constants DEF TypeOKLimiter
<1>2. Refilled(limit) \in Nat
  BY Zenon, RefilledBelow
<1>3. (IF Allowed(limit) THEN Refilled(limit) - Second ELSE Refilled(limit)) \in Nat
  BY <1>2, Constants DEF Allowed
<1>4. Consumed(limit) \in [tokens : Nat, updatedAt : Nat, expiresAt : Nat]
  BY Zenon, <1>1, <1>3 DEF Consumed
<1>5. Consumed(limit).tokens # -1
  BY <1>4
<1> QED
  BY <1>4, <1>5 DEF Absent

-----------------------------------------------------------------------------
(* Types *)

\* The types hold initially.
LEMMA TypeInit == InitLimiter => TypeOKLimiter
BY DEF InitLimiter, TypeOKLimiter, Idle

CallType == [pc : {"idle", "eval", "poll"}, limit : Limits \cup {NoLimit},
             done : BOOLEAN, late : Nat]

CallsOK == /\ call \in [Calls -> CallType]
           /\ \A c \in Calls : call[c].pc = "eval" => call[c].limit \in Limits

\* One call's move keeps the calls well typed.
LEMMA CallSet ==
  ASSUME CallsOK, NEW c \in Calls, NEW v \in CallType,
         v.pc = "eval" => v.limit \in Limits,
         call' = [call EXCEPT ![c] = v]
  PROVE  CallsOK'
BY Zenon DEF CallsOK

\* How a step may set a call's fields.
LEMMA CallSteps ==
  ASSUME CallsOK, NEW c \in Calls, NEW limit \in Limits, NEW late \in Nat,
         \/ Return(c)
         \/ call' = [call EXCEPT ![c].pc = "eval", ![c].limit = limit]
         \/ call' = [call EXCEPT ![c].pc = "poll", ![c].limit = NoLimit,
                                 ![c].late = late]
         \/ call' = [call EXCEPT ![c].done = TRUE]
  PROVE  CallsOK'
<1>1. Idle \in CallType /\ Idle.pc = "idle"
  BY Zenon DEF Idle, CallType
<1>2. CASE Return(c)
  BY Zenon, <1>1, <1>2, CallSet DEF Return
<1> DEFINE v1 == [call[c] EXCEPT !.pc = "eval", !.limit = limit]
           v2 == [call[c] EXCEPT !.pc = "poll", !.limit = NoLimit,
                                 !.late = late]
           v3 == [call[c] EXCEPT !.done = TRUE]
<1>3. /\ v1 \in CallType /\ v1.limit = limit
      /\ v2 \in CallType /\ v2.pc = "poll"
      /\ v3 \in CallType /\ v3.pc = call[c].pc /\ v3.limit = call[c].limit
  BY Zenon DEF CallsOK, CallType
<1>4. CASE call' = [call EXCEPT ![c].pc = "eval", ![c].limit = limit]
  <2>1. call' = [call EXCEPT ![c] = v1]
    BY Zenon, <1>4
  <2> QED
    BY Zenon, <1>3, <2>1, CallSet
<1>5. CASE call' = [call EXCEPT ![c].pc = "poll", ![c].limit = NoLimit,
                                ![c].late = late]
  <2>1. call' = [call EXCEPT ![c] = v2]
    BY Zenon, <1>5
  <2> QED
    BY Zenon, <1>3, <2>1, CallSet
<1>6. CASE call' = [call EXCEPT ![c].done = TRUE]
  <2>1. call' = [call EXCEPT ![c] = v3]
    BY Zenon, <1>6
  <2> QED
    BY Zenon, <1>3, <2>1, CallSet DEF CallsOK
<1> QED
  BY Zenon, <1>2, <1>4, <1>5, <1>6

\* Every step keeps the types.
LEMMA TypeStep ==
  ASSUME TypeOKLimiter, [NextLimiter]_limiterVars PROVE TypeOKLimiter'
<1> USE DEF TypeOKLimiter, window
<1>0. CallsOK
  BY Zenon DEF CallsOK, CallType
<1>1. ASSUME NEW c \in Calls, Begin(c) PROVE TypeOKLimiter'
  <2>1. limits[Home[c]] \in Limits
    BY Zenon, LimiterAssumption
  <2>2. call' = [call EXCEPT ![c].pc = "eval", ![c].limit = limits[Home[c]]]
    BY Zenon, <1>1 DEF Begin
  <2>3. CallsOK'
    BY Zenon, <1>0, <2>1, <2>2, CallSteps
  <2> QED
    BY Zenon, <1>1, <2>3 DEF Begin, CallsOK, CallType
<1>2. ASSUME NEW c \in Calls, Eval(c) PROVE TypeOKLimiter'
  <2>1. call[c].limit \in Limits /\ call[c].late \in Nat
    BY Zenon, <1>2 DEF Eval
  <2>2. bucket' \in [tokens : Nat, updatedAt : Nat, expiresAt : Nat]
    BY Zenon, <1>2, <2>1, ConsumedType DEF Eval
  <2>3. granted' \in Nat /\ evals' \in Nat /\ advanced' \in Nat
    BY <1>2 DEF Eval
  <2>4. PICK late \in Nat :
          \/ Return(c)
          \/ call' = [call EXCEPT ![c].pc = "poll", ![c].limit = NoLimit,
                                  ![c].late = late]
    BY <1>2, <2>1 DEF Eval
  <2>5. CallsOK'
    BY Zenon, <1>0, <2>1, <2>4, CallSteps
  <2> QED
    BY Zenon, <1>2, <2>2, <2>3, <2>5 DEF Eval, CallsOK, CallType
<1>3. ASSUME NEW c \in Calls, EvalErrs(c) PROVE TypeOKLimiter'
  <2>1. CallsOK'
    BY Zenon, <1>0, <1>3, CallSteps DEF EvalErrs
  <2> QED
    BY Zenon, <1>3, <2>1 DEF EvalErrs, CallsOK, CallType
<1>4. ASSUME NEW c \in Calls, Poll(c) PROVE TypeOKLimiter'
  <2>1. limits[Home[c]] \in Limits
    BY Zenon, LimiterAssumption
  <2>2. CallsOK'
    BY Zenon, <1>0, <1>4, <2>1, CallSteps DEF Poll, Allow
  <2> QED
    BY Zenon, <1>4, <2>2 DEF Poll, CallsOK, CallType
<1>5. ASSUME NEW c \in Calls, Cancel(c) PROVE TypeOKLimiter'
  <2>1. CallsOK'
    <3>1. limits[Home[c]] \in Limits
      BY Zenon, LimiterAssumption
    <3> QED
      BY Zenon, <1>0, <1>5, <3>1, CallSteps DEF Cancel
  <2> QED
    BY Zenon, <1>5, <2>1 DEF Cancel, CallsOK, CallType
<1>6. ASSUME NEW r \in Replicas, NEW limit \in Limits, UpdateLimit(r, limit)
      PROVE  TypeOKLimiter'
  BY Zenon, <1>6 DEF UpdateLimit, window
<1>7. ASSUME NEW r \in Replicas, CloseLimiter(r) PROVE TypeOKLimiter'
  BY Zenon, <1>7 DEF CloseLimiter, window
<1>8. CASE Forward
  BY <1>8 DEF Forward
<1>9. CASE Backward
  BY <1>9, LimiterAssumption DEF Backward, window
<1>10. CASE OpenWindow
  BY Zenon, <1>10 DEF OpenWindow
<1>11. CASE UNCHANGED limiterVars
  BY Zenon, <1>11 DEF limiterVars, window
<1> QED
  BY Zenon, <1>1, <1>2, <1>3, <1>4, <1>5, <1>6, <1>7, <1>8, <1>9, <1>10, <1>11,
     LimiterAssumption DEF NextLimiter

-----------------------------------------------------------------------------
(* The bound *)

\* An evaluation leaves what it did not hand out, and may give half a grain
\* of refill too much to the next.
LEMMA EvalKeeps ==
  ASSUME BInv, TypeOKLimiter', NEW c \in Calls, Eval(c) PROVE BInv'
<1> DEFINE limit == call[c].limit
           R == Refilled(limit)
           T == IF Allowed(limit) THEN R - Second ELSE R
<1>1. TypeOKLimiter /\ limit \in Limits
  BY Zenon DEF BInv, Eval, TypeOKLimiter
<1>2. R \in Nat /\ R <= Level /\ Level \in Nat
  BY Zenon, <1>1, RefilledBelow, LevelNat
<1>3. /\ bucket' = [tokens |-> T, updatedAt |-> Stored(clock),
                    expiresAt |-> clock + KeyTTL]
      /\ bucket' # Absent
      /\ clock' = clock /\ clock \in Nat
      /\ advanced' = advanced /\ evals' = evals + 1
      /\ advanced \in Nat /\ evals \in Nat /\ granted \in Nat
      /\ granted' \in Nat
  BY Zenon, <1>1, ConsumedType DEF Eval, Consumed, BInv, TypeOKLimiter
<1>4. /\ Stored(clock) \in Nat
      /\ Stored(clock) <= clock + HalfGrain
      /\ clock <= Stored(clock) + HalfGrain
  BY Zenon, <1>3, StoredNear
<1>5. Kept'
  BY <1>3, <1>4, Constants DEF Kept
<1>6. Live'
  BY <1>3, Constants DEF Live
<1>7. /\ Level' \in Nat /\ T \in Nat
      /\ Level' <= T + MaxRate * HalfGrain
  <2>1. Elapsed' \in Nat /\ Elapsed' <= HalfGrain
    BY <1>3, <1>4, Constants DEF Elapsed
  <2>2. MaxRate * Elapsed' <= MaxRate * HalfGrain /\ MaxRate * Elapsed' \in Nat
    <3> DEFINE e == Elapsed'
    <3>1. e \in Nat /\ e <= HalfGrain
      BY Zenon, <2>1
    <3> HIDE DEF e
    <3>2. MaxRate * e <= MaxRate * HalfGrain /\ MaxRate * e \in Nat
      BY <3>1, Constants
    <3> QED
      BY Zenon, <3>2 DEF e
  <2>3. T \in Nat
    BY <1>2, Constants DEF Allowed
  <2>4. Reach' = T + MaxRate * Elapsed'
    BY Zenon, <1>3 DEF Reach
  <2>5. Level' = IF Reach' > Capacity THEN Capacity ELSE Reach'
    BY Zenon, <1>6 DEF Level, Capacity
  <2> DEFINE x == MaxRate * Elapsed'
             y == MaxRate * HalfGrain
  <2>6. x \in Nat /\ y \in Nat /\ x <= y /\ Reach' = T + x
    BY <2>2, <2>4, Constants
  <2> HIDE DEF x, y, T
  <2>7. Level' \in Nat /\ Level' <= T + y
    BY <2>3, <2>5, <2>6, Constants
  <2> QED
    BY Zenon, <2>3, <2>7 DEF y
<1>8. granted' * Second + T <= granted * Second + R
  <2>1. \/ granted' = granted /\ T <= R
        \/ granted' = granted + 1 /\ T = R - Second
    BY <1>2, <1>3, Constants DEF Eval, Allowed
  <2>2. /\ (granted + 1) * Second = granted * Second + Second
        /\ granted * Second \in Nat /\ Second \in Nat
    BY <1>3, Constants
  <2>3. R \in Nat /\ T \in Nat
    BY Zenon, <1>2, <1>7
  <2> DEFINE g == granted * Second
  <2> HIDE DEF T, R, g
  <2>4. CASE granted' = granted /\ T <= R
    BY <2>2, <2>3, <2>4 DEF g
  <2>5. CASE granted' = granted + 1 /\ T = R - Second
    <3>1. granted' * Second = g + Second /\ g \in Nat
      BY Zenon, <2>2, <2>5 DEF g
    <3>2. g + Second + T = g + R
      BY <2>2, <2>3, <2>5, <3>1
    <3> QED
      BY <2>2, <2>3, <3>1, <3>2 DEF g
  <2> QED
    BY Zenon, <2>1, <2>4, <2>5
<1>9. ASSUME Bounded PROVE Bounded'
  <2> DEFINE g == granted * Second
             h == granted' * Second
             b == MaxRate * (advanced + HalfGrain * evals)
             y == MaxRate * HalfGrain
  <2>1. MaxRate * (advanced + HalfGrain * (evals + 1)) = b + y
    BY <1>3, Constants
  <2>2. g \in Nat /\ h \in Nat /\ b \in Nat /\ y \in Nat
    <3>0. granted \in Nat /\ granted' \in Nat
      BY Zenon, <1>3
    <3>1. g \in Nat /\ h \in Nat /\ y \in Nat
      BY <3>0, NatTimes, Constants, Zenon
    <3> DEFINE k == HalfGrain * evals
    <3>2. k \in Nat
      BY <1>3, Constants
    <3> HIDE DEF k
    <3>3. MaxRate * (advanced + k) \in Nat
      BY <3>2, <1>3, Constants
    <3> QED
      BY Zenon, <3>1, <3>3 DEF k
  <2>3. g + Level <= Capacity + b
    BY Zenon, <1>9 DEF Bounded
  <2>4. h + T <= g + R /\ Level' <= T + y
    BY Zenon, <1>7, <1>8
  <2>5. Bounded' <=> h + Level' <= Capacity + (b + y)
    BY Zenon, <1>3, <2>1 DEF Bounded, Capacity
  <2> HIDE DEF g, h, b, y, T, R
  <2>6. h + Level' <= Capacity + (b + y)
    <3>1. Level' \in Nat /\ T \in Nat /\ R \in Nat /\ R <= Level
          /\ Level \in Nat /\ Capacity \in Nat
      BY Zenon, <1>2, <1>7, Constants
    <3> DEFINE l == Level
               m == Level'
    <3>2. /\ m \in Nat /\ l \in Nat /\ R <= l /\ g + l <= Capacity + b
          /\ m <= T + y
      BY Zenon, <2>3, <2>4, <3>1
    <3> HIDE DEF l, m
    <3>3. h + m <= Capacity + (b + y)
      BY <2>2, <2>4, <3>1, <3>2
    <3> QED
      BY Zenon, <3>3 DEF m
  <2> QED
    BY Zenon, <2>5, <2>6
<1> QED
  BY Zenon, <1>5, <1>9 DEF BInv, FullWithinTTL

\* Multiplying keeps an order of which the smaller may be negative.
LEMMA IntTimes ==
  ASSUME NEW a \in Int, NEW b \in Nat, NEW c \in Nat, a <= b
  PROVE  c * a <= c * b /\ c * a \in Int /\ c * b \in Nat
OBVIOUS

\* A tick refills at most MaxRate parts, also the tick on which the key
\* expires: the bucket is full by then.
LEMMA TickRefills ==
  ASSUME TypeOKLimiter, Kept, FullWithinTTL, Forward
  PROVE  Level' <= Level + MaxRate
<1>1. /\ clock' = clock + 1 /\ bucket' = bucket /\ clock \in Nat
      /\ Level \in Nat /\ Level <= Capacity
  BY Zenon, LevelNat DEF Forward, TypeOKLimiter
<1>2. CASE ~Live
  <2>1. Level = Capacity
    BY Zenon, <1>2 DEF Level
  <2>2. ~Live'
    BY <1>1, <1>2 DEF Live, TypeOKLimiter
  <2>3. Level' = Capacity
    BY Zenon, <2>2 DEF Level, Capacity
  <2> QED
    BY <2>1, <2>3, Constants
<1>3. CASE Live
  <2>1. /\ bucket.tokens \in Nat /\ bucket.updatedAt \in Nat
        /\ bucket.expiresAt \in Nat /\ Elapsed \in Nat
        /\ MaxRate * Elapsed \in Nat /\ Reach \in Nat
        /\ bucket # Absent /\ clock < bucket.expiresAt
        /\ bucket.updatedAt + KeyTTL <= bucket.expiresAt + HalfGrain
    BY Zenon, <1>3, ReachNat DEF Live, Kept
  <2>2. Elapsed' \in Nat /\ Elapsed' <= Elapsed + 1
    BY <1>1, <2>1 DEF Elapsed
  <2>3. /\ MaxRate * (Elapsed + 1) = MaxRate * Elapsed + MaxRate
        /\ Elapsed + 1 \in Nat
    BY <2>1, Constants
  <2>4. CASE Live'
    <3>1. Level' = IF Reach' > Capacity THEN Capacity ELSE Reach'
      BY Zenon, <2>4 DEF Level, Capacity
    <3>2. Reach' = bucket.tokens + MaxRate * Elapsed'
      BY Zenon, <1>1 DEF Reach
    <3> DEFINE x == MaxRate * Elapsed
               y == MaxRate * Elapsed'
               f == Elapsed'
    <3>3. x \in Nat /\ y \in Nat /\ y <= x + MaxRate
      <4>1. f \in Nat /\ f <= Elapsed + 1
        BY Zenon, <2>2
      <4> HIDE DEF f
      <4>2. MaxRate * f <= MaxRate * (Elapsed + 1) /\ MaxRate * f \in Nat
        BY <2>3, <4>1, IntTimes, NatTimes, Constants
      <4> QED
        BY Zenon, <2>1, <2>3, <4>2 DEF f
    <3>4. Reach = bucket.tokens + x /\ Reach' = bucket.tokens + y
      BY Zenon, <3>2 DEF Reach
    <3>5. Level = IF Reach > Capacity THEN Capacity ELSE Reach
      BY Zenon, <1>3 DEF Level
    <3> HIDE DEF x, y
    <3> QED
      BY <2>1, <3>1, <3>3, <3>4, <3>5, Constants
  <2>5. CASE ~Live'
    <3>1. Level' = Capacity
      BY Zenon, <2>5 DEF Level, Capacity
    <3>2. bucket.expiresAt <= clock + 1
      BY <1>1, <2>1, <2>5 DEF Live
    <3>3. KeyTTL - HalfGrain \in Int /\ KeyTTL - HalfGrain <= Elapsed + 1
      BY <1>1, <2>1, <3>2, Constants DEF Elapsed
    <3>4. /\ MaxRate * (KeyTTL - HalfGrain) <= MaxRate * (Elapsed + 1)
          /\ MaxRate * (KeyTTL - HalfGrain) \in Int
      BY Zenon, <2>3, <3>3, IntTimes, Constants
    <3> DEFINE x == MaxRate * Elapsed
               z == MaxRate * (KeyTTL - HalfGrain)
    <3>5. Capacity <= z /\ z \in Int /\ z <= x + MaxRate /\ x \in Nat
      BY Zenon, <2>1, <2>3, <3>4 DEF FullWithinTTL, Capacity
    <3>6. Reach = bucket.tokens + x
      BY Zenon DEF Reach
    <3>7. Level = IF Reach > Capacity THEN Capacity ELSE Reach
      BY Zenon, <1>3 DEF Level
    <3> HIDE DEF x, z
    <3> QED
      BY <2>1, <3>1, <3>5, <3>6, <3>7, Constants
  <2> QED
    BY Zenon, <2>4, <2>5
<1> QED
  BY Zenon, <1>2, <1>3

\* The passing of time keeps the bound: the potential rises by the rate at
\* most.
LEMMA ForwardKeeps == ASSUME BInv, TypeOKLimiter', Forward PROVE BInv'
<1>1. /\ clock' = clock + 1 /\ bucket' = bucket /\ granted' = granted
      /\ advanced' = advanced + 1 /\ evals' = evals
      /\ granted \in Nat /\ advanced \in Nat /\ evals \in Nat
      /\ TypeOKLimiter /\ Kept
  BY Zenon DEF Forward, BInv, TypeOKLimiter
<1>2. Kept'
  BY Zenon, <1>1 DEF Kept
<1>3. ASSUME FullWithinTTL, Bounded PROVE Bounded'
  <2> DEFINE g == granted * Second
             k == HalfGrain * evals
             b == MaxRate * (advanced + k)
             l == Level
             m == Level'
  <2>1. g \in Nat /\ k \in Nat /\ l \in Nat /\ m \in Nat
    BY <1>1, NatTimes, LevelNat, LevelNatNext, Constants, Zenon
  <2>2. m <= l + MaxRate
    BY Zenon, <1>1, <1>3, TickRefills
  <2>3. g + l <= Capacity + b
    BY Zenon, <1>3 DEF Bounded
  <2>4. Bounded' <=> g + m <= Capacity + MaxRate * (advanced + 1 + k)
    BY Zenon, <1>1 DEF Bounded, Capacity
  <2> HIDE DEF g, k, l, m
  <2>5. /\ MaxRate * (advanced + 1 + k) = b + MaxRate
        /\ b \in Nat
    BY <1>1, <2>1, Constants
  <2> HIDE DEF b
  <2>6. g + m <= Capacity + (b + MaxRate)
    BY <2>1, <2>2, <2>3, <2>5, Constants
  <2> QED
    BY Zenon, <2>4, <2>5, <2>6
<1> QED
  BY Zenon, <1>2, <1>3 DEF BInv, FullWithinTTL

\* Turning the clock back refills nothing.
LEMMA BackwardKeeps == ASSUME BInv, TypeOKLimiter', Backward PROVE BInv'
<1>1. /\ clock' <= clock /\ clock' \in Nat /\ clock \in Nat
      /\ bucket' = bucket /\ granted' = granted
      /\ advanced' = advanced /\ evals' = evals
      /\ TypeOKLimiter /\ Kept
  BY LimiterAssumption DEF Backward, BInv, TypeOKLimiter, window
<1>2. Kept'
  BY Zenon, <1>1 DEF Kept
<1>3. /\ Level \in Nat /\ Level <= Capacity
      /\ Level' \in Nat /\ Level' <= Capacity
  BY Zenon, <1>1, LevelNat, LevelNatNext
<1>4. Level' <= Level
  <2>1. CASE ~Live
    BY Zenon, <2>1, <1>3, Constants DEF Level
  <2>2. CASE Live
    <3>1. Live'
      BY <1>1, <2>2, ReachNat DEF Live
    <3>2. /\ bucket.tokens \in Nat /\ Elapsed \in Nat /\ Reach \in Nat
          /\ bucket.updatedAt \in Nat /\ MaxRate * Elapsed \in Nat
      BY Zenon, <1>1, <2>2, ReachNat DEF Live
    <3>3. Elapsed' \in Nat /\ Elapsed' <= Elapsed
      BY <1>1, <3>2 DEF Elapsed
    <3> DEFINE f == Elapsed'
               x == MaxRate * Elapsed
               y == MaxRate * f
    <3>4. f \in Nat /\ f <= Elapsed
      BY Zenon, <3>3
    <3>5. Reach' = bucket.tokens + y /\ Reach = bucket.tokens + x
      BY Zenon, <1>1 DEF Reach
    <3> HIDE DEF f
    <3>6. y <= x /\ y \in Nat /\ x \in Nat
      BY <3>2, <3>4, IntTimes, NatTimes, Constants
    <3>7. /\ Level' = IF Reach' > Capacity THEN Capacity ELSE Reach'
          /\ Level = IF Reach > Capacity THEN Capacity ELSE Reach
      BY Zenon, <2>2, <3>1 DEF Level, Capacity
    <3> HIDE DEF x, y
    <3> QED
      BY <3>2, <3>5, <3>6, <3>7, Constants
  <2> QED
    BY Zenon, <2>1, <2>2
<1>5. ASSUME Bounded PROVE Bounded'
  <2> DEFINE g == granted * Second
             b == MaxRate * (advanced + HalfGrain * evals)
             l == Level
             m == Level'
  <2>1. g \in Nat
    BY Zenon, <1>1, NatTimes, Constants DEF TypeOKLimiter
  <2>2. b \in Nat
    <3>1. HalfGrain * evals \in Nat /\ advanced \in Nat
      BY Zenon, <1>1, NatTimes, Constants DEF TypeOKLimiter
    <3>2. advanced + HalfGrain * evals \in Nat
      BY <3>1
    <3> QED
      BY <3>2, NatTimes, Constants, Zenon
  <2>3. /\ g + l <= Capacity + b
        /\ Bounded' <=> g + m <= Capacity + b
        /\ m <= l /\ l \in Nat /\ m \in Nat
    BY Zenon, <1>1, <1>3, <1>4, <1>5 DEF Bounded, Capacity
  <2> HIDE DEF g, b, l, m
  <2>4. g + m <= Capacity + b
    BY <2>1, <2>2, <2>3, Constants
  <2> QED
    BY Zenon, <2>3, <2>4
<1> QED
  BY Zenon, <1>2, <1>5 DEF BInv, FullWithinTTL

\* A window that opens keeps the bound: nothing is granted in it yet.
LEMMA OpenWindowKeeps == ASSUME BInv, TypeOKLimiter', OpenWindow PROVE BInv'
<1>1. /\ clock' = clock /\ bucket' = bucket /\ TypeOKLimiter /\ Kept
      /\ granted' = 0 /\ advanced' = 0 /\ evals' = 0
  BY Zenon DEF OpenWindow, BInv
<1>2. Kept' /\ Level' = Level /\ Capacity' = Capacity
  BY Zenon, <1>1 DEF Kept, Level, Live, Reach, Elapsed, Capacity
<1>3. Level \in Nat /\ Level <= Capacity
  BY Zenon, <1>1, LevelNat
<1>4. 0 * Second = 0 /\ MaxRate * (0 + HalfGrain * 0) = 0
  BY Constants
<1>5. Bounded'
  BY <1>1, <1>2, <1>3, <1>4, Constants DEF Bounded
<1> QED
  BY Zenon, <1>2, <1>5 DEF BInv

\* A step that touches neither clock, bucket nor window keeps the bound.
LEMMA RestKeeps ==
  ASSUME BInv, TypeOKLimiter', UNCHANGED <<clock, bucket, window>> PROVE BInv'
BY Zenon DEF BInv, Kept, Bounded, Level, Live, Reach, Elapsed, Capacity,
       FullWithinTTL, window

\* The bound holds initially.
LEMMA BInvInit == InitLimiter => BInv
<1> SUFFICES ASSUME InitLimiter PROVE BInv
  BY Zenon
<1>1. TypeOKLimiter /\ bucket = Absent
  BY Zenon, TypeInit DEF InitLimiter
<1>2. Level = Capacity /\ Kept
  BY Zenon, <1>1 DEF Level, Live, Kept
<1>3. 0 * Second = 0 /\ MaxRate * (0 + HalfGrain * 0) = 0
  BY Constants
<1>4. Bounded
  BY <1>2, <1>3, Constants DEF Bounded, InitLimiter
<1> QED
  BY Zenon, <1>1, <1>2, <1>4 DEF BInv

\* Every step keeps the bound.
LEMMA BInvStep == BInv /\ [NextLimiter]_limiterVars => BInv'
<1> SUFFICES ASSUME BInv, [NextLimiter]_limiterVars PROVE BInv'
  BY Zenon
<1>1. TypeOKLimiter'
  BY Zenon, TypeStep DEF BInv
<1>2. \/ UNCHANGED <<clock, bucket, window>>
      \/ \E c \in Calls : Eval(c)
      \/ Forward \/ Backward \/ OpenWindow
  BY Zenon DEF NextLimiter, limiterVars, Begin, EvalErrs, Poll, Cancel,
     UpdateLimit,
         CloseLimiter
<1> QED
  BY Zenon, <1>1, <1>2, RestKeeps, EvalKeeps, ForwardKeeps, BackwardKeeps,
     OpenWindowKeeps

\* tokenBucketScript keeps the promise of a token bucket, in every window of
\* time: for any number of replicas with any limits up to MaxRate and
\* MaxBurst, whatever the granularity of tostring and however the clock of
\* Redis is set back.
THEOREM GrantsBoundedHolds == SpecLimiter => []GrantsBounded
<1>1. BInv => GrantsBounded
  <2> SUFFICES ASSUME BInv, FullWithinTTL
               PROVE  granted * Second <=
                        Capacity + MaxRate * (advanced + HalfGrain * evals)
    BY Zenon DEF GrantsBounded, Capacity
  <2> DEFINE g == granted * Second
             b == MaxRate * (advanced + HalfGrain * evals)
  <2>1. /\ Level \in Nat /\ g + Level <= Capacity + b
        /\ granted \in Nat /\ advanced \in Nat /\ evals \in Nat
    BY Zenon, LevelNat DEF BInv, Bounded, TypeOKLimiter
  <2>2. g \in Nat
    BY <2>1, NatTimes, Constants, Zenon
  <2>3. b \in Nat
    <3>1. HalfGrain * evals \in Nat
      BY <2>1, NatTimes, Constants, Zenon
    <3>2. advanced + HalfGrain * evals \in Nat
      BY <2>1, <3>1
    <3> QED
      BY <3>2, NatTimes, Constants, Zenon
  <2> HIDE DEF g, b
  <2>4. g <= Capacity + b
    BY <2>1, <2>2, <2>3, Constants
  <2> QED
    BY Zenon, <2>4 DEF g, b
<1> QED
  BY <1>1, BInvInit, BInvStep, PTL DEF SpecLimiter

-----------------------------------------------------------------------------
(* The stopping of Wait *)

\* A call that has had an evaluation too many is stopped, and between polls.
SInv ==
  /\ TypeOKLimiter
  /\ \A c \in Calls :
       call[c].late # 0 => /\ call[c].late = 1
                           /\ call[c].pc = "poll"
                           /\ Stopped(c)

\* The invariant about stopped calls holds initially.
LEMMA SInvInit == InitLimiter => SInv
BY TypeInit DEF InitLimiter, SInv, Idle

\* Every step keeps it.
LEMMA SInvStep == SInv /\ [NextLimiter]_limiterVars => SInv'
<1> SUFFICES ASSUME SInv, [NextLimiter]_limiterVars PROVE SInv'
  BY Zenon
<1>1. TypeOKLimiter'
  BY Zenon, TypeStep DEF SInv
<1> DEFINE P(d) == call[d].late # 0 => /\ call[d].late = 1
                                       /\ call[d].pc = "poll"
                                       /\ Stopped(d)
<1> SUFFICES \A d \in Calls : P(d)'
  BY Zenon, <1>1 DEF SInv
<1> USE DEF SInv, Stopped, TypeOKLimiter
<1>2. ASSUME NEW c \in Calls, Begin(c) PROVE \A d \in Calls : P(d)'
  BY <1>2 DEF Begin
<1>3. ASSUME NEW c \in Calls, Eval(c) PROVE \A d \in Calls : P(d)'
  BY <1>3 DEF Eval, Return, Idle
<1>4. ASSUME NEW c \in Calls, EvalErrs(c) PROVE \A d \in Calls : P(d)'
  BY Zenon, <1>4 DEF EvalErrs, Return, Idle
<1>5. ASSUME NEW c \in Calls, Poll(c) PROVE \A d \in Calls : P(d)'
  BY <1>5 DEF Poll, Allow, Return, Idle
<1>6. ASSUME NEW c \in Calls, Cancel(c) PROVE \A d \in Calls : P(d)'
  BY <1>6 DEF Cancel
<1>7. ASSUME UNCHANGED call, closed \subseteq closed'
      PROVE  \A d \in Calls : P(d)'
  BY Zenon, <1>7
<1>8. \/ \E c \in Calls : \/ Begin(c) \/ Eval(c) \/ EvalErrs(c) \/ Poll(c)
                          \/ Cancel(c)
      \/ UNCHANGED call /\ closed \subseteq closed'
  BY Zenon, LimiterAssumption
     DEF NextLimiter, limiterVars, UpdateLimit, CloseLimiter, Forward, Backward,
         OpenWindow
<1> QED
  BY Zenon, <1>2, <1>3, <1>4, <1>5, <1>6, <1>7, <1>8

\* After Close, or the end of its context, Wait evaluates the script at most
\* once more, for any number of waiters and replicas.
THEOREM OneEvalAfterStopHolds == SpecLimiter => []OneEvalAfterStop
<1>1. SInv => OneEvalAfterStop
  <2> SUFFICES ASSUME SInv, NEW c \in Calls PROVE call[c].late <= 1
    BY Zenon DEF OneEvalAfterStop
  <2>1. call[c].late = 0 \/ call[c].late = 1
    BY Zenon DEF SInv
  <2> QED
    BY <2>1
<1> QED
  BY <1>1, SInvInit, SInvStep, PTL DEF SpecLimiter
=============================================================================
