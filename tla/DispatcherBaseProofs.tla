------------------------ MODULE DispatcherBaseProofs ------------------------
(***************************************************************************)
(* Proofs about CircuitBreaker, for any number of concurrent calls and any *)
(* configuration NewCircuitBreakerWithConfig accepts; and the base of the  *)
(* proofs about FCMDispatcher: what Deduplicate, the grouping by platform  *)
(* and Split compute for devices of any number, which results account for  *)
(* which devices, the inductive invariant of the dispatcher, and what the  *)
(* end of an attempt and the start and return of Send do to it.            *)
(***************************************************************************)
EXTENDS FCMDispatcher, FiniteSetTheorems, TLAPS

-----------------------------------------------------------------------------
(* The circuit breaker *)

\* At least one trial is admitted: a limit of zero or less is taken as one.
LEMMA HalfOpenLimitPositive == HalfOpenLimit \in Nat \ {0}
BY ConfigAssumption DEF HalfOpenLimit

\* Ending a half-open episode keeps status well typed and leaves no trial of
\* the current episode behind.
LEMMA EpisodeOverType ==
  ASSUME TypeOK
  PROVE  /\ EpisodeOver \in [Requests -> InFn \cup Returned]
         /\ \A q \in Requests : EpisodeOver[q] # "trial"
BY Zenon DEF TypeOK, EpisodeOver, InFn, Returned

(***************************************************************************)
(* Every reachable state of the breaker is well typed: in particular the   *)
(* admission counter of beforeRequest stays within MaxHalfOpenRequests.    *)
(***************************************************************************)
THEOREM TypeCorrect == Spec => []TypeOK
<1> USE ConfigAssumption, HalfOpenLimitPositive, EpisodeOverType
<1>1. Init => TypeOK
  BY DEF Init, TypeOK, InFn, Returned
<1>2. TypeOK /\ [Next]_vars => TypeOK'
  <2> SUFFICES ASSUME TypeOK, [Next]_vars
               PROVE  TypeOK'
    BY Zenon
  <2> USE DEF TypeOK, InFn, Returned
  <2>1. ASSUME NEW r \in Requests, AdmitClosed(r)
        PROVE  TypeOK'
    BY <2>1 DEF AdmitClosed, Moved
  <2>2. ASSUME NEW r \in Requests, RejectOpen(r)
        PROVE  TypeOK'
    BY Zenon, <2>2 DEF RejectOpen, Moved
  <2>3. ASSUME NEW r \in Requests, StartHalfOpen(r)
        PROVE  TypeOK'
    BY <2>3 DEF StartHalfOpen, Moved
  <2>4. ASSUME NEW r \in Requests, AdmitTrial(r)
        PROVE  TypeOK'
    BY <2>4 DEF AdmitTrial, Moved
  <2>5. ASSUME NEW r \in Requests, RejectHalfOpen(r)
        PROVE  TypeOK'
    BY Zenon, <2>5 DEF RejectHalfOpen, Moved
  <2>6. ASSUME NEW r \in Requests, Failed(r)
        PROVE  TypeOK'
    BY <2>6 DEF Failed, openCircuit, Moved, Older
  <2>7. ASSUME NEW r \in Requests, Succeeded(r)
        PROVE  TypeOK'
    BY <2>7 DEF Succeeded, closeCircuit, Moved
  <2>8. CASE Reset
    BY <2>8 DEF Reset
  <2>9. CASE Tick
    BY <2>9 DEF Tick, Older
  <2>10. CASE UNCHANGED vars
    BY Zenon, <2>10 DEF vars
  <2>11. QED
    BY Zenon, <2>1, <2>2, <2>3, <2>4, <2>5, <2>6, <2>7, <2>8, <2>9, <2>10
    DEF Next, beforeRequest, afterRequest
<1>3. QED
  BY <1>1, <1>2, PTL DEF Spec

\* The trials of an episode are finitely many.
LEMMA TrialsFinite == IsFiniteSet(Trials)
BY Zenon, RequestsAssumption, FS_Subset DEF Trials

\* No trials are counted when there are none.
LEMMA NoTrialsNoCount ==
  ASSUME Trials' = {}
  PROVE  Cardinality(Trials') = 0
BY Zenon, FS_EmptySet

\* A step that moves no call into or out of the current episode.
LEMMA SameTrials ==
  ASSUME TypeOK, HalfOpenAccounting, Trials' = Trials,
         UNCHANGED <<state, halfOpenRequests>>
  PROVE  HalfOpenAccounting'
BY Zenon DEF HalfOpenAccounting, HalfOpenLimit

\* A step that ends the episode, or that leaves an ended one ended.
LEMMA EpisodeEnded ==
  ASSUME Trials' = {}, halfOpenRequests' = 0, state' # "half_open"
  PROVE  HalfOpenAccounting'
BY Zenon, NoTrialsNoCount DEF HalfOpenAccounting

(***************************************************************************)
(* TypeOK and HalfOpenAccounting together are inductive.  The last         *)
(* conjunct of HalfOpenAccounting carries the proof: because openCircuit,  *)
(* closeCircuit and Reset each end the episode for every trial, an open    *)
(* breaker that turns half-open starts counting from no trials at all.     *)
(***************************************************************************)
THEOREM HalfOpenAccountingHolds == Spec => []HalfOpenAccounting
<1> USE ConfigAssumption, HalfOpenLimitPositive
<1>1. Init => HalfOpenAccounting
  <2> SUFFICES ASSUME Init
               PROVE  HalfOpenAccounting
    BY Zenon
  <2>1. Trials = {}
    BY Zenon DEF Init, Trials
  <2>2. QED
    BY Zenon, <2>1, FS_EmptySet DEF Init, HalfOpenAccounting
<1>2. TypeOK /\ HalfOpenAccounting /\ [Next]_vars => HalfOpenAccounting'
  <2> SUFFICES ASSUME TypeOK, HalfOpenAccounting, [Next]_vars
               PROVE  HalfOpenAccounting'
    BY Zenon
  <2>1. ASSUME NEW r \in Requests, AdmitClosed(r)
        PROVE  HalfOpenAccounting'
    <3>1. Trials' = Trials
      BY Zenon, <2>1 DEF AdmitClosed, Moved, Trials, TypeOK, Returned
    <3>2. QED
      BY Zenon, <2>1, <3>1, SameTrials DEF AdmitClosed
  <2>2. ASSUME NEW r \in Requests, RejectOpen(r)
        PROVE  HalfOpenAccounting'
    <3>1. Trials' = Trials
      BY Zenon, <2>2 DEF RejectOpen, Moved, Trials, TypeOK, Returned
    <3>2. QED
      BY Zenon, <2>2, <3>1, SameTrials DEF RejectOpen
  <2>3. ASSUME NEW r \in Requests, StartHalfOpen(r)
        PROVE  HalfOpenAccounting'
    <3>1. Trials = {}
      BY Zenon, <2>3 DEF StartHalfOpen, HalfOpenAccounting
    <3>2. Trials' = {r}
      BY Zenon, <2>3, <3>1 DEF StartHalfOpen, Moved, Trials, TypeOK
    <3>3. Cardinality(Trials') = 1
      BY Zenon, <3>2, FS_Singleton
    <3>4. QED
      BY <2>3, <3>3 DEF StartHalfOpen, HalfOpenAccounting, HalfOpenLimit
  <2>4. ASSUME NEW r \in Requests, AdmitTrial(r)
        PROVE  HalfOpenAccounting'
    <3>1. r \notin Trials
      BY Zenon, <2>4 DEF AdmitTrial, Trials, Returned
    <3>2. Trials' = Trials \cup {r}
      BY Zenon, <2>4 DEF AdmitTrial, Moved, Trials, TypeOK
    <3>3. Cardinality(Trials') = Cardinality(Trials) + 1
      BY Zenon, <3>1, <3>2, TrialsFinite, FS_AddElement
    <3>4. QED
      BY <2>4, <3>3 DEF AdmitTrial, HalfOpenAccounting, HalfOpenLimit, TypeOK
  <2>5. ASSUME NEW r \in Requests, RejectHalfOpen(r)
        PROVE  HalfOpenAccounting'
    <3>1. Trials' = Trials
      BY Zenon, <2>5 DEF RejectHalfOpen, Moved, Trials, TypeOK, Returned
    <3>2. QED
      BY Zenon, <2>5, <3>1, SameTrials DEF RejectHalfOpen
  <2>6. ASSUME NEW r \in Requests, Failed(r)
        PROVE  HalfOpenAccounting'
    <3>1. CASE openCircuit(r)
      <4>1. Trials' = {}
        BY Zenon, <3>1, EpisodeOverType DEF openCircuit, Trials
      <4>2. QED
        BY Zenon, <3>1, <4>1, EpisodeEnded DEF openCircuit
    <3>2. CASE /\ state # "half_open"
               /\ status' = Moved(r, "idle")
               /\ UNCHANGED <<state, halfOpenRequests>>
      <4>1. Trials' = Trials
        BY Zenon, <3>2 DEF Moved, Trials, TypeOK, HalfOpenAccounting
      <4>2. QED
        BY Zenon, <3>2, <4>1, SameTrials
    <3>3. QED
      BY Zenon, <2>6, <3>1, <3>2 DEF Failed
  <2>7. ASSUME NEW r \in Requests, Succeeded(r)
        PROVE  HalfOpenAccounting'
    <3>1. CASE closeCircuit(r)
      <4>1. Trials' = {}
        BY Zenon, <3>1, EpisodeOverType DEF closeCircuit, Trials
      <4>2. QED
        BY Zenon, <3>1, <4>1, EpisodeEnded DEF closeCircuit
    <3>2. CASE /\ state # "half_open"
               /\ status' = Moved(r, "idle")
               /\ UNCHANGED <<state, halfOpenRequests>>
      <4>1. Trials' = Trials
        BY Zenon, <3>2 DEF Moved, Trials, TypeOK, HalfOpenAccounting
      <4>2. QED
        BY Zenon, <3>2, <4>1, SameTrials
    <3>3. QED
      BY Zenon, <2>7, <3>1, <3>2 DEF Succeeded
  <2>8. CASE Reset
    <3>1. Trials' = {}
      BY Zenon, <2>8, EpisodeOverType DEF Reset, Trials
    <3>2. QED
      BY Zenon, <2>8, <3>1, EpisodeEnded DEF Reset
  <2>9. CASE Tick
    BY Zenon, <2>9, SameTrials DEF Tick, Trials
  <2>10. CASE UNCHANGED vars
    BY Zenon, <2>10, SameTrials DEF vars, Trials
  <2>11. QED
    BY Zenon, <2>1, <2>2, <2>3, <2>4, <2>5, <2>6, <2>7, <2>8, <2>9, <2>10
    DEF Next, beforeRequest, afterRequest
<1>3. QED
  BY <1>1, <1>2, TypeCorrect, PTL DEF Spec

(***************************************************************************)
(* An open breaker is closed by Reset and by nothing else: a call admitted *)
(* before the trip whose fn succeeds only now leaves the state alone.      *)
(***************************************************************************)
THEOREM OpenClosesOnlyByResetHolds == Spec => OpenClosesOnlyByReset
<1>1. TypeOK /\ HalfOpenAccounting /\ [Next]_vars
        => [state = "open" /\ state' = "closed" => status' = status]_vars
  <2> SUFFICES ASSUME TypeOK, HalfOpenAccounting, Next,
                      state = "open", state' = "closed"
               PROVE  status' = status
    BY Zenon
  <2>1. ASSUME NEW r \in Requests, beforeRequest(r)
        PROVE  FALSE
    BY Zenon, <2>1 DEF beforeRequest, AdmitClosed, RejectOpen, StartHalfOpen,
                AdmitTrial, RejectHalfOpen
  <2>2. ASSUME NEW r \in Requests, afterRequest(r)
        PROVE  FALSE
    BY Zenon, <2>2 DEF afterRequest, Failed, Succeeded, openCircuit,
       closeCircuit
  <2>3. CASE Reset
    <3>1. \A q \in Requests : status[q] # "trial"
      BY Zenon DEF HalfOpenAccounting, Trials
    <3>2. EpisodeOver = status
      BY Zenon, <3>1 DEF EpisodeOver, TypeOK
    <3>3. QED
      BY Zenon, <2>3, <3>2 DEF Reset
  <2>4. CASE Tick
    BY Zenon, <2>4 DEF Tick
  <2>5. QED
    BY Zenon, <2>1, <2>2, <2>3, <2>4 DEF Next
<1>2. QED
  BY <1>1, TypeCorrect, HalfOpenAccountingHolds, PTL
  DEF Spec, OpenClosesOnlyByReset

\* A half-open breaker has a trial inside fn; its trials stay there until the
\* verdict, and the first call to leave fn, whichever state it was admitted
\* in, brings it.
HalfOpenWaits ==
  state = "half_open" =>
    /\ Trials # {}
    /\ Trials \subseteq Trials' \/ state' # "half_open"
    /\ \A r \in Requests : afterRequest(r) => state' # "half_open"

(***************************************************************************)
(* No half-open breaker is left with nobody to end it: the safety half of  *)
(* HalfOpenResolves.  That fn returns is the fairness TLC assumes.         *)
(***************************************************************************)
THEOREM HalfOpenWaitsHolds == Spec => [][HalfOpenWaits]_vars
<1>1. TypeOK /\ HalfOpenAccounting /\ [Next]_vars => [HalfOpenWaits]_vars
  <2> SUFFICES ASSUME TypeOK, HalfOpenAccounting, Next, state = "half_open"
               PROVE  /\ Trials # {}
                      /\ Trials \subseteq Trials' \/ state' # "half_open"
                      /\ \A r \in Requests :
                           afterRequest(r) => state' # "half_open"
    BY Zenon DEF HalfOpenWaits
  <2>1. Trials # {}
    <3>1. halfOpenRequests = Cardinality(Trials) /\ halfOpenRequests # 0
      BY HalfOpenLimitPositive DEF HalfOpenAccounting
    <3>2. QED
      BY Zenon, <3>1, FS_EmptySet
  <2>2. \A r \in Requests : afterRequest(r) => state' # "half_open"
    BY Zenon DEF afterRequest, Failed, Succeeded, openCircuit, closeCircuit
  <2>3. ASSUME NEW r \in Requests, beforeRequest(r)
        PROVE  Trials \subseteq Trials'
    <3>1. PICK s : status' = [status EXCEPT ![r] = s]
      BY Zenon, <2>3 DEF beforeRequest, AdmitClosed, RejectOpen,
                  StartHalfOpen, AdmitTrial, RejectHalfOpen, Moved
    <3>2. status[r] # "trial"
      BY Zenon, <2>3 DEF beforeRequest, AdmitClosed, RejectOpen, StartHalfOpen,
                  AdmitTrial, RejectHalfOpen, Returned
    <3>3. QED
      BY Zenon, <3>1, <3>2 DEF Trials, TypeOK
  <2>4. CASE Reset
    BY Zenon, <2>1, <2>2, <2>4 DEF Reset
  <2>5. CASE Tick
    BY Zenon, <2>1, <2>2, <2>5 DEF Tick, Trials
  <2>6. QED
    BY Zenon, <2>1, <2>2, <2>3, <2>4, <2>5 DEF Next
<1>2. QED
  BY <1>1, TypeCorrect, HalfOpenAccountingHolds, PTL DEF Spec

-----------------------------------------------------------------------------
(* Deduplicate: the devices Chosen chooses *)

\* Which index Chosen takes the k-th device from.
Before(at, i) == {j \in at : j < i}
Place(at) ==
  [k \in 1 .. Cardinality(at) |->
     CHOOSE i \in at : Cardinality({j \in at : j < i}) = k - 1]

\* Counting the smaller elements ranks a finite set of indices.
LEMMA RankIsInjective ==
  ASSUME NEW at, at \subseteq Nat, IsFiniteSet(at)
  PROVE  [i \in at |-> Cardinality(Before(at, i)) + 1]
           \in Injection(at, 1 .. Cardinality(at))
<1> DEFINE rank == [i \in at |-> Cardinality(Before(at, i)) + 1]
<1>1. \A i \in at : /\ IsFiniteSet(Before(at, i))
                    /\ Cardinality(Before(at, i)) \in Nat
  BY Zenon, FS_Subset, FS_CardinalityType DEF Before
<1>2. ASSUME NEW i \in at, NEW k \in at, i < k
      PROVE  Cardinality(Before(at, i)) + 1 <= Cardinality(Before(at, k))
  <2>1. i \notin Before(at, i)
    BY DEF Before
  <2>2. /\ IsFiniteSet(Before(at, i) \cup {i})
        /\ Cardinality(Before(at, i) \cup {i}) = Cardinality(Before(at, i)) + 1
    BY Zenon, <1>1, <2>1, FS_AddElement
  <2>3. Before(at, i) \cup {i} \in SUBSET Before(at, k)
    <3>1. \A j \in at : j < i => j < k
      <4>1. at \subseteq Nat /\ i \in Nat /\ k \in Nat
        BY Zenon
      <4>2. QED
        BY <1>2, <4>1
    <3>2. QED
      BY Zenon, <1>2, <3>1 DEF Before
  <2>4. QED
    BY <1>1, <2>2, <2>3, FS_Subset
<1>3. ASSUME NEW i \in at
      PROVE  Cardinality(Before(at, i)) + 1 <= Cardinality(at)
  <2>1. i \notin Before(at, i)
    BY DEF Before
  <2>2. /\ IsFiniteSet(Before(at, i) \cup {i})
        /\ Cardinality(Before(at, i) \cup {i}) = Cardinality(Before(at, i)) + 1
    BY Zenon, <1>1, <2>1, FS_AddElement
  <2>3. Before(at, i) \cup {i} \in SUBSET at
    BY Zenon DEF Before
  <2>4. QED
    BY Zenon, <2>2, <2>3, FS_Subset
<1>4. Cardinality(at) \in Nat
  BY Zenon, FS_CardinalityType
<1>5. rank \in [at -> 1 .. Cardinality(at)]
  BY <1>1, <1>3, <1>4
<1>6. \A i, k \in at : rank[i] = rank[k] => i = k
  <2> SUFFICES ASSUME NEW i \in at, NEW k \in at, rank[i] = rank[k]
               PROVE  i = k
    BY Zenon
  <2>1. i \in Nat /\ k \in Nat
    BY Zenon
  <2>2. ~ (i < k) /\ ~ (k < i)
    BY <1>1, <1>2
  <2>3. QED
    BY <2>1, <2>2
<1>7. QED
  BY Zenon, <1>5, <1>6 DEF Injection, IsInjective

\* So the k-th index exists for every k, and is not taken twice.
LEMMA PlaceIsBijection ==
  ASSUME NEW at, at \subseteq Nat, IsFiniteSet(at)
  PROVE  Place(at) \in Bijection(1 .. Cardinality(at), at)
<1> DEFINE n == Cardinality(at)
           rank == [i \in at |-> Cardinality(Before(at, i)) + 1]
<1>1. n \in Nat
  BY Zenon, FS_CardinalityType
<1>2. rank \in Injection(at, 1 .. n)
  BY Zenon, RankIsInjective
<1>3. IsFiniteSet(1 .. n) /\ Cardinality(1 .. n) = n
  BY <1>1, FS_Interval
<1>4. rank \in Surjection(at, 1 .. n)
  BY Zenon, <1>2, <1>3, FS_Injection
<1>5. \A i \in at : Cardinality(Before(at, i)) \in Nat
  BY Zenon, FS_Subset, FS_CardinalityType DEF Before
<1>6. ASSUME NEW k \in 1 .. n
      PROVE  /\ Place(at)[k] \in at
             /\ Cardinality(Before(at, Place(at)[k])) + 1 = k
  <2>1. PICK i \in at : rank[i] = k
    BY Zenon, <1>4 DEF Surjection
  <2>2. Cardinality({j \in at : j < i}) = k - 1
    BY <1>5, <2>1 DEF Before
  <2>3. Place(at)[k] = CHOOSE x \in at : Cardinality({j \in at : j < x}) = k - 1
    BY Zenon DEF Place
  <2>4. /\ Place(at)[k] \in at
        /\ Cardinality({j \in at : j < Place(at)[k]}) = k - 1
    BY Zenon, <2>2, <2>3
  <2>5. QED
    BY <2>4 DEF Before
<1>7. Place(at) \in [1 .. n -> at]
  BY Zenon, <1>6 DEF Place
<1>8. \A k, m \in 1 .. n : Place(at)[k] = Place(at)[m] => k = m
  BY Zenon, <1>6
<1>9. \A i \in at : \E k \in 1 .. n : Place(at)[k] = i
  <2> SUFFICES ASSUME NEW i \in at
               PROVE  Place(at)[rank[i]] = i
    BY Zenon, <1>2 DEF Injection
  <2>1. rank[i] \in 1 .. n
    BY Zenon, <1>2 DEF Injection
  <2>2. rank[Place(at)[rank[i]]] = rank[i]
    BY Zenon, <1>6, <2>1
  <2>3. QED
    BY Zenon, <1>2, <1>6, <2>1, <2>2 DEF Injection, IsInjective
<1>10. QED
  BY Zenon, <1>7, <1>8, <1>9 DEF Bijection, Injection, Surjection, IsInjective

\* A set of natural numbers that is not empty has a least element.
LEMMA NatLeast ==
  ASSUME NEW T, T \subseteq Nat, T # {}
  PROVE  \E x \in T : \A y \in T : x <= y
<1>1. PICK x \in T : \A y \in T : ~ (<<y, x>> \in OpToRel(<, Nat))
  BY Zenon, WFMin, NatLessThanWellFounded
<1>2. \A y \in T : ~ (y < x)
  BY Zenon, <1>1 DEF OpToRel
<1>3. QED
  BY <1>2

\* The devices have different FIDs.
Distinct(devs) == \A i, j \in DOMAIN devs : devs[i].fid = devs[j].fid => i = j

\* What Chosen chooses: each of the devices at the given indices once.
LEMMA ChosenIs ==
  ASSUME NEW D, NEW devs \in Seq(D), NEW at, at \subseteq DOMAIN devs
  PROVE  /\ Chosen(devs, at) \in Seq(D)
         /\ Cardinality(at) \in Nat
         /\ DOMAIN Chosen(devs, at) = 1 .. Cardinality(at)
         /\ Place(at) \in Bijection(1 .. Cardinality(at), at)
         /\ \A k \in 1 .. Cardinality(at) :
              Chosen(devs, at)[k] = devs[Place(at)[k]]
<1>1. at \subseteq Nat /\ IsFiniteSet(at)
  <2>1. DOMAIN devs = 1 .. Len(devs) /\ Len(devs) \in Nat
    OBVIOUS
  <2>2. IsFiniteSet(DOMAIN devs)
    BY <2>1, FS_Interval
  <2>3. at \subseteq Nat
    BY <2>1
  <2>4. QED
    BY Zenon, <2>2, <2>3, FS_Subset
<1>2. Cardinality(at) \in Nat
  BY Zenon, <1>1, FS_CardinalityType
<1>3. Place(at) \in Bijection(1 .. Cardinality(at), at)
  BY Zenon, <1>1, PlaceIsBijection
<1>4. Chosen(devs, at) = [k \in 1 .. Cardinality(at) |-> devs[Place(at)[k]]]
  BY DEF Chosen, Place
<1>5. Place(at) \in [1 .. Cardinality(at) -> at]
  BY Zenon, <1>3 DEF Bijection, Injection
<1>6. Chosen(devs, at) \in [1 .. Cardinality(at) -> D]
  BY <1>4, <1>5
<1>7. Chosen(devs, at) \in Seq(D)
  BY <1>2, <1>6
<1>8. QED
  BY Zenon, <1>2, <1>3, <1>4, <1>7

\* Its FIDs are theirs, and different if theirs are.
LEMMA ChosenFids ==
  ASSUME NEW D, NEW devs \in Seq(D), NEW at, at \subseteq DOMAIN devs
  PROVE  /\ Fids(Chosen(devs, at)) = {devs[i].fid : i \in at}
         /\ (\A i, j \in at : devs[i].fid = devs[j].fid => i = j)
              => Distinct(Chosen(devs, at))
<1> DEFINE n == Cardinality(at)
<1>1. /\ DOMAIN Chosen(devs, at) = 1 .. n
      /\ Place(at) \in Bijection(1 .. n, at)
      /\ \A k \in 1 .. n : Chosen(devs, at)[k] = devs[Place(at)[k]]
  BY ChosenIs
<1>2. /\ \A k \in 1 .. n : Place(at)[k] \in at
      /\ \A k, m \in 1 .. n : Place(at)[k] = Place(at)[m] => k = m
      /\ \A i \in at : \E k \in 1 .. n : Place(at)[k] = i
  BY Zenon, <1>1 DEF Bijection, Injection, Surjection, IsInjective
<1> HIDE DEF n
<1>3. Fids(Chosen(devs, at)) = {devs[i].fid : i \in at}
  BY <1>1, <1>2 DEF Fids
<1>4. QED
  BY <1>1, <1>2, <1>3 DEF Distinct

\* Deduplicate keeps every FID, and none twice.
LEMMA DeduplicateIs ==
  ASSUME NEW D, NEW devs \in Seq(D)
  PROVE  /\ Deduplicate(devs) \in Seq(D)
         /\ Distinct(Deduplicate(devs))
         /\ Fids(Deduplicate(devs)) = Fids(devs)
<1> DEFINE first == {i \in DOMAIN devs :
                       \A j \in 1 .. i - 1 : devs[j].fid # devs[i].fid}
<1>1. DOMAIN devs = 1 .. Len(devs) /\ Len(devs) \in Nat
  OBVIOUS
<1>2. \A i, j \in first : devs[i].fid = devs[j].fid => i = j
  <2> SUFFICES ASSUME NEW i \in first, NEW j \in first,
                      devs[i].fid = devs[j].fid
               PROVE  i = j
    BY Zenon
  <2>1. i \in Nat /\ j \in Nat /\ i >= 1 /\ j >= 1
    BY <1>1
  <2>2. ~ (i < j)
    BY <2>1
  <2>3. ~ (j < i)
    BY <2>1
  <2>4. QED
    BY <2>1, <2>2, <2>3
<1>3. \A i \in DOMAIN devs : \E k \in first : devs[k].fid = devs[i].fid
  <2> SUFFICES ASSUME NEW i \in DOMAIN devs
               PROVE  \E k \in first : devs[k].fid = devs[i].fid
    BY Zenon
  <2> DEFINE same == {k \in DOMAIN devs : devs[k].fid = devs[i].fid}
  <2>1. PICK k \in same : \A m \in same : k <= m
    <3>1. same \subseteq Nat /\ i \in same
      BY <1>1
    <3> HIDE DEF same
    <3>2. QED
      BY Zenon, <3>1, NatLeast
  <2>2. ASSUME NEW j \in 1 .. k - 1
        PROVE  devs[j].fid # devs[k].fid
    <3>1. k \in 1 .. Len(devs) /\ j \in Nat /\ j < k /\ j \in DOMAIN devs
      BY <1>1
    <3>2. j \notin same
      BY <2>1, <3>1
    <3>3. QED
      BY Zenon, <3>1, <3>2
  <2>3. QED
    BY Zenon, <2>2
<1>4. Deduplicate(devs) = Chosen(devs, first)
  BY Zenon DEF Deduplicate
<1>5. first \subseteq DOMAIN devs
  BY Zenon
<1> HIDE DEF first
<1>6. /\ Deduplicate(devs) \in Seq(D)
      /\ Distinct(Deduplicate(devs))
      /\ Fids(Deduplicate(devs)) = {devs[i].fid : i \in first}
  BY <1>2, <1>4, <1>5, ChosenIs, ChosenFids
<1>7. {devs[i].fid : i \in first} = Fids(devs)
  BY Zenon, <1>3, <1>5 DEF Fids
<1>8. QED
  BY Zenon, <1>6, <1>7

-----------------------------------------------------------------------------
(* The groups and their batches *)

\* The platform groups Send makes: no FID is in two groups or twice in one,
\* and every FID is in one.
THEOREM GroupIs ==
  ASSUME NEW F, NEW devs \in Seq([fid : F, platform : Platforms \cup {Unset}])
  PROVE  /\ \A p \in Platforms :
              /\ Group(devs, p) \in Seq([fid : F, platform : Platforms \cup {Unset}])
              /\ Distinct(Group(devs, p))
         /\ \A p, q \in Platforms :
              p # q => Fids(Group(devs, p)) \cap Fids(Group(devs, q)) = {}
         /\ UNION {Fids(Group(devs, p)) : p \in Platforms} = Fids(devs)
<1> DEFINE D == [fid : F, platform : Platforms \cup {Unset}]
           all == Deduplicate(devs)
           of(p) == {i \in DOMAIN all : PlatformOf(all[i]) = p}
<1>1. all \in Seq(D) /\ Distinct(all) /\ Fids(all) = Fids(devs)
  BY Zenon, DeduplicateIs
<1>2. \A p : Group(devs, p) = Chosen(all, of(p))
  BY Zenon DEF Group
<1>3. \A i \in DOMAIN all : PlatformOf(all[i]) \in Platforms
  <2>1. \A i \in DOMAIN all : all[i] \in D
    <3> HIDE DEF all, D
    <3>1. QED
      BY <1>1
  <2>2. QED
    BY Zenon, <2>1, DispatcherAssumption DEF PlatformOf
<1>4. \A p : of(p) \subseteq DOMAIN all
  BY Zenon
<1>5. ASSUME NEW p \in Platforms, NEW q \in Platforms, p # q
      PROVE  of(p) \cap of(q) = {}
  BY Zenon, <1>5
<1>6. \A i \in DOMAIN all : i \in of(PlatformOf(all[i]))
  BY Zenon
<1> HIDE DEF all, of, D
<1>7. ASSUME NEW p
      PROVE  /\ Group(devs, p) \in Seq(D)
             /\ Distinct(Group(devs, p))
             /\ Fids(Group(devs, p)) = {all[i].fid : i \in of(p)}
  <2>1. \A i, j \in of(p) : all[i].fid = all[j].fid => i = j
    BY Zenon, <1>1, <1>4 DEF Distinct
  <2>2. QED
    BY <1>1, <1>2, <1>4, <2>1, ChosenIs, ChosenFids
<1>8. ASSUME NEW p \in Platforms, NEW q \in Platforms, p # q
      PROVE  Fids(Group(devs, p)) \cap Fids(Group(devs, q)) = {}
  BY <1>1, <1>4, <1>5, <1>7, <1>8 DEF Distinct
<1>9. UNION {Fids(Group(devs, p)) : p \in Platforms} = Fids(devs)
  <2>1. Fids(devs) = {all[i].fid : i \in DOMAIN all}
    BY Zenon, <1>1 DEF Fids
  <2>2. UNION {Fids(Group(devs, p)) : p \in Platforms}
          = UNION {{all[i].fid : i \in of(p)} : p \in Platforms}
    BY Zenon, <1>7
  <2>3. \A i \in DOMAIN all : \E p \in Platforms : i \in of(p)
    BY Zenon, <1>3, <1>6
  <2>4. ASSUME NEW f \in Fids(devs)
        PROVE  f \in UNION {{all[i].fid : i \in of(p)} : p \in Platforms}
    <3>1. PICK i \in DOMAIN all : f = all[i].fid
      BY Zenon, <2>1
    <3>2. PICK p \in Platforms : i \in of(p)
      BY Zenon, <2>3
    <3>3. f \in {all[j].fid : j \in of(p)}
      BY Zenon, <3>1, <3>2
    <3>4. QED
      BY Zenon, <3>3
  <2>5. ASSUME NEW p \in Platforms, NEW i \in of(p)
        PROVE  all[i].fid \in Fids(devs)
    <3>1. i \in DOMAIN all
      BY Zenon, <1>4
    <3>2. QED
      BY Zenon, <2>1, <3>1
  <2>6. ASSUME NEW f \in UNION {{all[i].fid : i \in of(p)} : p \in Platforms}
        PROVE  f \in Fids(devs)
    <3>1. PICK p \in Platforms : f \in {all[i].fid : i \in of(p)}
      BY Zenon
    <3>2. PICK i \in of(p) : f = all[i].fid
      BY Zenon, <3>1
    <3>3. QED
      BY Zenon, <2>5, <3>2
  <2>7. QED
    BY Zenon, <2>2, <2>4, <2>6
<1>10. QED
  BY Zenon, <1>7, <1>8, <1>9 DEF D

\* The indices of a sequence.
LEMMA SeqDomain ==
  ASSUME NEW D, NEW devs \in Seq(D)
  PROVE  /\ DOMAIN devs = 1 .. Len(devs) /\ Len(devs) \in Nat
         /\ \A i \in DOMAIN devs : i \in Nat
OBVIOUS

\* As many FIDs as devices, if they are different; never more.
LEMMA CountFids ==
  ASSUME NEW D, NEW devs \in Seq(D)
  PROVE  /\ IsFiniteSet(Fids(devs))
         /\ Cardinality(Fids(devs)) \in Nat
         /\ Cardinality(Fids(devs)) <= Len(devs)
         /\ Distinct(devs) => Cardinality(Fids(devs)) = Len(devs)
<1> DEFINE n == Len(devs)
           fid == [i \in 1 .. n |-> devs[i].fid]
<1>1. DOMAIN devs = 1 .. n /\ n \in Nat
  OBVIOUS
<1>2. IsFiniteSet(1 .. n) /\ Cardinality(1 .. n) = n
  <2> HIDE DEF n
  <2>1. /\ IsFiniteSet(1 .. n)
        /\ Cardinality(1 .. n) = IF 1 > n THEN 0 ELSE n - 1 + 1
    <3>1. n \in Int /\ 1 \in Int
      BY <1>1
    <3>2. QED
      BY Zenon, <3>1, FS_Interval
  <2>2. QED
    BY <1>1, <2>1
<1>3. fid \in Surjection(1 .. n, Fids(devs))
  BY Zenon, <1>1 DEF Surjection, Fids
<1>4. Distinct(devs) => fid \in Injection(1 .. n, Fids(devs))
  BY Zenon, <1>1, <1>3 DEF Distinct, Injection, IsInjective, Surjection
<1> HIDE DEF n, fid
<1>5. /\ IsFiniteSet(Fids(devs))
      /\ Cardinality(Fids(devs)) <= n
      /\ Distinct(devs) => Cardinality(Fids(devs)) = n
  BY <1>2, <1>3, <1>4, FS_Surjection
<1>6. QED
  BY Zenon, <1>5, FS_CardinalityType DEF n

\* Rounding up: the batches are as many as it takes to reach n.
LEMMA RoundUp ==
  ASSUME NEW n \in Nat \ {0}, NEW size \in Nat \ {0}
  PROVE  /\ (n + size - 1) \div size \in Nat \ {0}
         /\ ((n + size - 1) \div size - 1) * size < n
         /\ n <= ((n + size - 1) \div size) * size
<1>1. PICK m \in Nat : m = n + size - 1
  OBVIOUS
<1>2. PICK count \in Int : count = m \div size
  OBVIOUS
<1>3. count * size <= m /\ m < count * size + size
  BY <1>2
<1>4. (count - 1) * size = count * size - size
  OBVIOUS
<1>5. count * size > 0
  BY <1>1, <1>3
<1>6. count > 0
  BY <1>5
<1>7. QED
  BY <1>1, <1>2, <1>3, <1>4, <1>6

\* Multiplying by a positive batch size keeps the order of two indices.
LEMMA Monotone ==
  ASSUME NEW k \in Int, NEW m \in Int, NEW size \in Nat \ {0}, k <= m
  PROVE  k * size \in Int /\ m * size \in Int /\ k * size <= m * size
OBVIOUS

\* Where the k-th batch of Split ends.
End(n, size, k) == IF k * size > n THEN n ELSE k * size

\* Each batch has a device, and none has more than fit.
LEMMA BatchBounds ==
  ASSUME NEW n \in Nat \ {0}, NEW size \in Nat \ {0},
         NEW k \in 1 .. (n + size - 1) \div size
  PROVE  /\ (k - 1) * size \in Nat
         /\ End(n, size, k) \in 1 .. n
         /\ (k - 1) * size < End(n, size, k)
         /\ End(n, size, k) <= (k - 1) * size + size
<1>1. PICK count \in Nat : /\ count = (n + size - 1) \div size
                           /\ (count - 1) * size < n
  BY Zenon, RoundUp
<1>2. k \in Int /\ 1 <= k /\ k - 1 <= count - 1
  BY <1>1
<1>3. 0 * size <= (k - 1) * size /\ (k - 1) * size <= (count - 1) * size
  BY <1>2, Monotone
<1>4. (k - 1) * size \in Int /\ (count - 1) * size \in Int /\ 0 * size = 0
  BY <1>2
<1>5. (k - 1) * size = k * size - size /\ k * size \in Int
  BY <1>2
<1>6. QED
  BY <1>1, <1>3, <1>4, <1>5 DEF End

\* What Split splits: every device is in one batch, and no batch has more
\* than fit.
THEOREM SplitIs ==
  ASSUME NEW D, NEW devs \in Seq(D), devs # <<>>, NEW size \in Nat \ {0}
  PROVE  /\ Split(devs, size) \in Seq(Seq(D))
         /\ Split(devs, size) # <<>>
         /\ \A k \in DOMAIN Split(devs, size) :
              Len(Split(devs, size)[k]) \in 1 .. size
         /\ UNION {Fids(Split(devs, size)[k]) : k \in DOMAIN Split(devs, size)}
              = Fids(devs)
         /\ Distinct(devs) =>
              /\ \A k \in DOMAIN Split(devs, size) :
                   Distinct(Split(devs, size)[k])
              /\ \A k, m \in DOMAIN Split(devs, size) :
                   k # m => Fids(Split(devs, size)[k])
                              \cap Fids(Split(devs, size)[m]) = {}
<1>1. PICK n \in Nat \ {0} : n = Len(devs) /\ DOMAIN devs = 1 .. n
  OBVIOUS
<1>2. PICK count \in Nat \ {0} :
        /\ count = (n + size - 1) \div size
        /\ (count - 1) * size < n
        /\ n <= count * size
  BY Zenon, RoundUp
<1>3. Split(devs, size)
        = [k \in 1 .. count |->
             SubSeq(devs, (k - 1) * size + 1, End(n, size, k))]
  BY <1>1, <1>2 DEF Split, End
<1>4. PICK split : split = Split(devs, size)
  BY Zenon
<1>5. ASSUME NEW k \in 1 .. count
      PROVE  /\ split[k] \in Seq(D)
             /\ Len(split[k]) = End(n, size, k) - (k - 1) * size
             /\ Len(split[k]) \in 1 .. size
             /\ \A i \in 1 .. Len(split[k]) :
                  split[k][i] = devs[(k - 1) * size + i]
  <2>1. PICK lo \in Nat, hi \in 1 .. n :
          /\ lo = (k - 1) * size /\ hi = End(n, size, k)
          /\ lo < hi /\ hi <= lo + size
    BY Zenon, <1>2, BatchBounds
  <2>2. split[k] = SubSeq(devs, lo + 1, hi)
    BY Zenon, <1>3, <1>4, <2>1
  <2>3. /\ split[k] \in Seq(D)
        /\ Len(split[k]) = hi - lo
        /\ \A i \in 1 .. hi - lo : split[k][i] = devs[lo + i]
    <3>1. \A i \in lo + 1 .. hi : devs[i] \in D
      BY <1>1, <2>1
    <3>2. lo + 1 \in Int /\ hi \in Int /\ lo + 1 <= hi
      BY <2>1
    <3>3. /\ split[k] \in Seq(D)
          /\ Len(split[k]) = hi - (lo + 1) + 1
          /\ \A i \in 1 .. hi - (lo + 1) + 1 : split[k][i] = devs[lo + 1 + i - 1]
      BY <2>2, <3>1, <3>2
    <3>4. hi - (lo + 1) + 1 = hi - lo /\ \A i \in Int : lo + 1 + i - 1 = lo + i
      OBVIOUS
    <3>5. QED
      BY <3>3, <3>4
  <2>4. hi - lo \in 1 .. size
    BY <2>1
  <2>5. QED
    BY Zenon, <2>1, <2>3, <2>4
<1>6. split \in Seq(Seq(D)) /\ DOMAIN split = 1 .. count /\ split # <<>>
  <2>1. split \in [1 .. count -> Seq(D)]
    BY Zenon, <1>3, <1>4, <1>5
  <2>2. QED
    BY <1>2, <2>1
<1>7. ASSUME NEW k \in 1 .. count
      PROVE  /\ DOMAIN split[k] = 1 .. End(n, size, k) - (k - 1) * size
             /\ \A i \in DOMAIN split[k] :
                  /\ (k - 1) * size + i \in DOMAIN devs
                  /\ (k - 1) * size + i > (k - 1) * size
                  /\ (k - 1) * size + i <= k * size
                  /\ split[k][i] = devs[(k - 1) * size + i]
  <2>1. PICK lo \in Nat, hi \in 1 .. n :
          /\ lo = (k - 1) * size /\ hi = End(n, size, k)
          /\ lo < hi /\ hi <= k * size
    <3>1. k * size \in Int /\ (k - 1) * size + size = k * size
      OBVIOUS
    <3>2. QED
      BY Zenon, <1>2, <3>1, BatchBounds
  <2>2. DOMAIN split[k] = 1 .. hi - lo
    <3>1. split[k] \in Seq(D) /\ Len(split[k]) = hi - lo
      <4>1. Len(split[k]) = End(n, size, k) - (k - 1) * size
        BY Zenon, <1>5
      <4>2. split[k] \in Seq(D)
        BY Zenon, <1>5
      <4> QED
        BY <2>1, <4>1, <4>2, Zenon
    <3> QED
      BY <3>1, SeqDomain, Zenon
  <2>3. \A i \in 1 .. hi - lo : /\ lo + i \in 1 .. n
                                /\ lo + i > lo
                                /\ lo + i <= hi
    OBVIOUS
  <2>4. k * size \in Int
    OBVIOUS
  <2>5. \A i \in DOMAIN split[k] : split[k][i] = devs[lo + i]
    BY Zenon, <1>5, <2>1, <2>2
  <2>6. QED
    BY <1>1, <2>1, <2>2, <2>3, <2>4, <2>5
<1>8. ASSUME NEW j \in DOMAIN devs
      PROVE  \E k \in 1 .. count : \E i \in DOMAIN split[k] : split[k][i] = devs[j]
  <2>1. PICK k \in Nat \ {0} : (k - 1) * size < j /\ j <= k * size
    <3>1. j \in Nat \ {0}
      BY <1>1
    <3>2. QED
      BY Zenon, <3>1, RoundUp
  <2>2. k <= count
    <3>1. SUFFICES ASSUME count <= k - 1
                   PROVE  FALSE
      BY <1>2, <2>1
    <3>2. count * size <= (k - 1) * size
      BY <1>2, <2>1, <3>1, Monotone
    <3>3. count * size \in Int /\ (k - 1) * size \in Int
      BY <1>2, <2>1
    <3>4. QED
      BY <1>1, <1>2, <2>1, <3>2, <3>3
  <2>3. k \in 1 .. count
    BY <2>2
  <2>4. PICK lo \in Nat, hi \in 1 .. n :
          /\ lo = (k - 1) * size /\ hi = End(n, size, k)
          /\ lo < hi
    <3>1. k \in 1 .. (n + size - 1) \div size
      BY Zenon, <1>2, <2>3
    <3>2. /\ (k - 1) * size \in Nat
          /\ End(n, size, k) \in 1 .. n
          /\ (k - 1) * size < End(n, size, k)
      BY Zenon, <3>1, BatchBounds
    <3>3. QED
      BY Zenon, <3>2
  <2>5. j \in Nat /\ j > lo /\ j <= hi
    <3>1. k * size \in Int
      OBVIOUS
    <3>2. QED
      BY <1>1, <2>1, <2>4, <3>1 DEF End
  <2>6. j - lo \in DOMAIN split[k] /\ lo + (j - lo) = j
    BY <1>7, <2>3, <2>4, <2>5
  <2>7. split[k][j - lo] = devs[lo + (j - lo)]
    BY Zenon, <1>7, <2>3, <2>4, <2>6
  <2>8. split[k][j - lo] = devs[j]
    BY Zenon, <2>6, <2>7
  <2>9. QED
    BY Zenon, <2>3, <2>6, <2>8
<1>9. UNION {Fids(split[k]) : k \in DOMAIN split} = Fids(devs)
  <2>1. ASSUME NEW k \in 1 .. count, NEW f \in Fids(split[k])
        PROVE  f \in Fids(devs)
    BY <1>7 DEF Fids
  <2>2. ASSUME NEW f \in Fids(devs)
        PROVE  \E k \in 1 .. count : f \in Fids(split[k])
    <3>1. PICK j \in DOMAIN devs : f = devs[j].fid
      BY Zenon DEF Fids
    <3>2. QED
      BY Zenon, <1>8, <3>1 DEF Fids
  <2>3. QED
    BY Zenon, <1>6, <2>1, <2>2
<1>10. ASSUME Distinct(devs), NEW k \in 1 .. count
       PROVE  Distinct(split[k])
  <2> SUFFICES ASSUME NEW i \in DOMAIN split[k], NEW j \in DOMAIN split[k],
                      split[k][i].fid = split[k][j].fid
               PROVE  i = j
    BY Zenon DEF Distinct
  <2>1. (k - 1) * size + i = (k - 1) * size + j
    BY <1>7, <1>10 DEF Distinct
  <2>2. i \in Nat /\ j \in Nat /\ (k - 1) * size \in Int
    <3>1. DOMAIN split[k] = 1 .. End(n, size, k) - (k - 1) * size
      BY Zenon, <1>7
    <3>2. i \in Nat /\ j \in Nat
      BY <3>1
    <3>3. (k - 1) * size \in Int
      OBVIOUS
    <3>4. QED
      BY Zenon, <3>2, <3>3
  <2>3. QED
    BY <2>1, <2>2
<1>11. ASSUME Distinct(devs), NEW k \in 1 .. count, NEW m \in 1 .. count, k < m
       PROVE  Fids(split[k]) \cap Fids(split[m]) = {}
  <2> SUFFICES ASSUME NEW i \in DOMAIN split[k], NEW j \in DOMAIN split[m],
                      split[k][i].fid = split[m][j].fid
               PROVE  FALSE
    BY Zenon DEF Fids
  <2>1. (k - 1) * size + i = (m - 1) * size + j
    <3>1. /\ (k - 1) * size + i \in DOMAIN devs
          /\ (m - 1) * size + j \in DOMAIN devs
          /\ split[k][i] = devs[(k - 1) * size + i]
          /\ split[m][j] = devs[(m - 1) * size + j]
      BY Zenon, <1>7
    <3>2. QED
      BY Zenon, <1>11, <3>1 DEF Distinct
  <2>2. k * size <= (m - 1) * size
    BY <1>11, Monotone
  <2>3. /\ (k - 1) * size + i <= k * size
        /\ (m - 1) * size + j > (m - 1) * size
    BY Zenon, <1>7
  <2>4. /\ k * size \in Int /\ (k - 1) * size \in Int /\ (m - 1) * size \in Int
        /\ i \in Nat /\ j \in Nat
    <3>1. k \in Int /\ m \in Int
      OBVIOUS
    <3>2. split[k] \in Seq(D) /\ split[m] \in Seq(D)
      BY Zenon, <1>5
    <3>3. i \in Nat /\ j \in Nat
      BY <3>2, SeqDomain, Zenon
    <3>4. QED
      BY <3>1, <3>3
  <2>5. PICK a \in Int, b \in Int, c \in Int :
          a = k * size /\ b = (k - 1) * size /\ c = (m - 1) * size
    BY Zenon, <2>4
  <2>6. b + i = c + j /\ a <= c /\ b + i <= a /\ c + j > c
    BY <2>1, <2>2, <2>3, <2>5, Zenon
  <2>7. i \in Nat /\ j \in Nat
    BY Zenon, <2>4
  <2>8. QED
    BY <2>6, <2>7
<1>12. ASSUME Distinct(devs), NEW k \in 1 .. count, NEW m \in 1 .. count, k # m
       PROVE  Fids(split[k]) \cap Fids(split[m]) = {}
  <2>1. k < m \/ m < k
    BY <1>12
  <2>2. QED
    BY Zenon, <1>11, <1>12, <2>1
<1>13. QED
  BY <1>4, <1>5, <1>6, <1>9, <1>10, <1>12

-----------------------------------------------------------------------------
(* Results that account for a set of devices *)

Sent(F, acc) == {f \in F : acc[f] > 0}
Unsent(F, acc) == {f \in F : acc[f] = 0}

(***************************************************************************)
(* res accounts for the FIDs in F, when FCM has accepted the message acc   *)
(* times for each and called the FIDs in ded permanently invalid.          *)
(***************************************************************************)
Accounts(res, F, acc, ded) ==
  /\ res.success \in Nat /\ res.failure \in Nat /\ res.retryable \in Nat
  /\ res.invalid \subseteq F \cap ded
  /\ res.success + res.failure = Cardinality(F)
  /\ res.success <= Cardinality(Sent(F, acc))
  /\ Cardinality(res.invalid) + res.retryable <= res.failure
  /\ Cardinality(Unsent(F \ res.invalid, acc))
       <= res.failure - Cardinality(res.invalid)

\* Two finite disjoint sets of devices: the count of both is the sum of the
\* counts.
LEMMA DisjointCount ==
  ASSUME NEW F, NEW G, IsFiniteSet(F), IsFiniteSet(G), F \cap G = {}
  PROVE  /\ IsFiniteSet(F \cup G)
         /\ Cardinality(F) \in Nat /\ Cardinality(G) \in Nat
         /\ Cardinality(F \cup G) = Cardinality(F) + Cardinality(G)
<1>1. Cardinality(F) \in Nat /\ Cardinality(G) \in Nat
  BY Zenon, FS_CardinalityType
<1>2. Cardinality(F \cap G) = 0
  BY Zenon, FS_EmptySet
<1>3. /\ IsFiniteSet(F \cup G)
      /\ Cardinality(F \cup G)
           = Cardinality(F) + Cardinality(G) - Cardinality(F \cap G)
  BY Zenon, FS_Union
<1>4. QED
  BY <1>1, <1>2, <1>3

\* A subset of a finite set of devices is finite and counts no more than
\* it.
LEMMA SmallerCount ==
  ASSUME NEW F, NEW G, IsFiniteSet(G), F \subseteq G
  PROVE  /\ IsFiniteSet(F)
         /\ Cardinality(F) \in Nat /\ Cardinality(G) \in Nat
         /\ Cardinality(F) <= Cardinality(G)
<1>1. IsFiniteSet(F) /\ Cardinality(F) <= Cardinality(G)
  BY Zenon, FS_Subset
<1>2. QED
  BY Zenon, <1>1, FS_CardinalityType

\* Adding the results of two disjoint sets of devices, as SendSplit adds
\* each batch's and Send each platform's (Plus), gives a result that
\* accounts for both sets.
LEMMA AddAccounts ==
  ASSUME NEW F, NEW G, IsFiniteSet(F), IsFiniteSet(G), F \cap G = {},
         NEW acc, NEW ded, NEW r, NEW s,
         Accounts(r, F, acc, ded), Accounts(s, G, acc, ded)
  PROVE  Accounts(Plus(r, s), F \cup G, acc, ded)
<1>1. PICK t : t = Plus(r, s)
  BY Zenon
<1>2. /\ t.success = r.success + s.success
      /\ t.failure = r.failure + s.failure
      /\ t.retryable = r.retryable + s.retryable
      /\ t.invalid = r.invalid \cup s.invalid
  BY Zenon, <1>1 DEF Plus
<1>3. r.invalid \subseteq F /\ s.invalid \subseteq G
  BY Zenon DEF Accounts
<1>4. /\ Cardinality(F \cup G) = Cardinality(F) + Cardinality(G)
      /\ Cardinality(F) \in Nat /\ Cardinality(G) \in Nat
  BY Zenon, DisjointCount
<1>5. /\ Cardinality(t.invalid) = Cardinality(r.invalid) + Cardinality(s.invalid)
      /\ Cardinality(r.invalid) \in Nat /\ Cardinality(s.invalid) \in Nat
  <2>1. IsFiniteSet(r.invalid) /\ IsFiniteSet(s.invalid)
    BY Zenon, <1>3, SmallerCount
  <2>2. r.invalid \cap s.invalid = {}
    BY Zenon, <1>3
  <2>3. t.invalid = r.invalid \cup s.invalid
    BY Zenon, <1>2
  <2>4. QED
    BY Zenon, <2>1, <2>2, <2>3, DisjointCount
<1>6. /\ Cardinality(Sent(F \cup G, acc))
           = Cardinality(Sent(F, acc)) + Cardinality(Sent(G, acc))
      /\ Cardinality(Sent(F, acc)) \in Nat /\ Cardinality(Sent(G, acc)) \in Nat
  <2>1. Sent(F \cup G, acc) = Sent(F, acc) \cup Sent(G, acc)
    BY Zenon DEF Sent
  <2>2. Sent(F, acc) \subseteq F /\ Sent(G, acc) \subseteq G
    BY Zenon DEF Sent
  <2>3. IsFiniteSet(Sent(F, acc)) /\ IsFiniteSet(Sent(G, acc))
    BY Zenon, <2>2, SmallerCount
  <2>4. Sent(F, acc) \cap Sent(G, acc) = {}
    BY Zenon, <2>2
  <2>5. QED
    BY Zenon, <2>1, <2>3, <2>4, DisjointCount
<1>7. /\ Cardinality(Unsent((F \cup G) \ t.invalid, acc))
           = Cardinality(Unsent(F \ r.invalid, acc))
               + Cardinality(Unsent(G \ s.invalid, acc))
      /\ Cardinality(Unsent(F \ r.invalid, acc)) \in Nat
      /\ Cardinality(Unsent(G \ s.invalid, acc)) \in Nat
  <2>1. Unsent((F \cup G) \ t.invalid, acc)
          = Unsent(F \ r.invalid, acc) \cup Unsent(G \ s.invalid, acc)
    BY Zenon, <1>2, <1>3 DEF Unsent
  <2>2. /\ Unsent(F \ r.invalid, acc) \subseteq F
        /\ Unsent(G \ s.invalid, acc) \subseteq G
    BY Zenon DEF Unsent
  <2>3. /\ IsFiniteSet(Unsent(F \ r.invalid, acc))
        /\ IsFiniteSet(Unsent(G \ s.invalid, acc))
    BY Zenon, <2>2, SmallerCount
  <2>4. Unsent(F \ r.invalid, acc) \cap Unsent(G \ s.invalid, acc) = {}
    BY Zenon, <2>2
  <2>5. QED
    BY Zenon, <2>1, <2>3, <2>4, DisjointCount
<1>8. Accounts(t, F \cup G, acc, ded)
  <2>1. t.invalid \subseteq (F \cup G) \cap ded
    <3>1. r.invalid \subseteq F \cap ded /\ s.invalid \subseteq G \cap ded
      BY Zenon DEF Accounts
    <3>2. QED
      BY Zenon, <1>2, <3>1
  <2>2. /\ r.success \in Nat /\ r.failure \in Nat /\ r.retryable \in Nat
        /\ s.success \in Nat /\ s.failure \in Nat /\ s.retryable \in Nat
    BY Zenon DEF Accounts
  <2>3. t.success \in Nat /\ t.failure \in Nat /\ t.retryable \in Nat
    BY <1>2, <2>2
  <2>4. t.success + t.failure = Cardinality(F \cup G)
    <3>1. /\ r.success + r.failure = Cardinality(F)
          /\ s.success + s.failure = Cardinality(G)
      BY Zenon DEF Accounts
    <3>2. QED
      BY <1>2, <1>4, <2>2, <3>1
  <2>5. t.success <= Cardinality(Sent(F \cup G, acc))
    <3>1. /\ r.success <= Cardinality(Sent(F, acc))
          /\ s.success <= Cardinality(Sent(G, acc))
      BY Zenon DEF Accounts
    <3>2. QED
      BY <1>2, <1>6, <2>2, <3>1
  <2>6. Cardinality(t.invalid) + t.retryable <= t.failure
    <3>1. /\ Cardinality(r.invalid) + r.retryable <= r.failure
          /\ Cardinality(s.invalid) + s.retryable <= s.failure
      BY Zenon DEF Accounts
    <3>2. QED
      BY <1>2, <1>5, <2>2, <3>1
  <2>7. Cardinality(Unsent((F \cup G) \ t.invalid, acc))
          <= t.failure - Cardinality(t.invalid)
    <3>1. /\ Cardinality(Unsent(F \ r.invalid, acc))
               <= r.failure - Cardinality(r.invalid)
          /\ Cardinality(Unsent(G \ s.invalid, acc))
               <= s.failure - Cardinality(s.invalid)
      BY Zenon DEF Accounts
    <3>2. QED
      BY <1>2, <1>5, <1>7, <2>2, <3>1
  <2>8. QED
    BY Zenon, <2>1, <2>3, <2>4, <2>5, <2>6, <2>7 DEF Accounts
<1>9. QED
  BY Zenon, <1>1, <1>8

\* A result keeps accounting for its devices when FCM has since accepted
\* more messages or reported more dead tokens: the counts are bounds, they
\* do not look ahead.
LEMMA AccountsGrow ==
  ASSUME NEW F, IsFiniteSet(F), NEW acc, NEW acc2, NEW ded, NEW ded2, NEW r,
         Accounts(r, F, acc, ded), ded \subseteq ded2,
         \A f \in F : acc[f] \in Nat /\ acc2[f] \in Nat /\ acc[f] <= acc2[f]
  PROVE  Accounts(r, F, acc2, ded2)
<1>1. /\ Cardinality(Sent(F, acc)) <= Cardinality(Sent(F, acc2))
      /\ Cardinality(Sent(F, acc)) \in Nat /\ Cardinality(Sent(F, acc2)) \in Nat
  <2>1. Sent(F, acc) \subseteq Sent(F, acc2) /\ Sent(F, acc2) \subseteq F
    <3>1. \A f \in F : acc[f] > 0 => acc2[f] > 0
      OBVIOUS
    <3>2. QED
      BY Zenon, <3>1 DEF Sent
  <2>2. IsFiniteSet(Sent(F, acc2))
    BY Zenon, <2>1, SmallerCount
  <2>3. QED
    BY Zenon, <2>1, <2>2, SmallerCount
<1>2. PICK U : U = F \ r.invalid
  BY Zenon
<1>3. /\ Cardinality(Unsent(U, acc2)) <= Cardinality(Unsent(U, acc))
      /\ Cardinality(Unsent(U, acc)) \in Nat /\ Cardinality(Unsent(U, acc2)) \in Nat
  <2>1. Unsent(U, acc2) \subseteq Unsent(U, acc) /\ Unsent(U, acc) \subseteq F
    BY <1>2 DEF Unsent
  <2>2. IsFiniteSet(Unsent(U, acc))
    BY Zenon, <2>1, SmallerCount
  <2>3. QED
    BY Zenon, <2>1, <2>2, SmallerCount
<1>4. Cardinality(r.invalid) \in Nat
  BY Zenon, SmallerCount DEF Accounts
<1>5. /\ r.success \in Nat /\ r.failure \in Nat
      /\ r.success <= Cardinality(Sent(F, acc))
      /\ Cardinality(Unsent(U, acc)) <= r.failure - Cardinality(r.invalid)
  BY Zenon, <1>2 DEF Accounts
<1>6. r.success <= Cardinality(Sent(F, acc2))
  BY <1>1, <1>5
<1>7. Cardinality(Unsent(U, acc2)) <= r.failure - Cardinality(r.invalid)
  BY <1>3, <1>4, <1>5
<1>8. r.invalid \subseteq F \cap ded2
  BY Zenon DEF Accounts
<1>9. QED
  BY Zenon, <1>2, <1>6, <1>7, <1>8 DEF Accounts

\* The result of an attempt that ended in an error (every device of the
\* batch a failure) accounts for the batch: it claims no success and no
\* invalid token.
LEMMA FailedAccounts ==
  ASSUME NEW F, IsFiniteSet(F), NEW acc, NEW ded,
         NEW n, n = Cardinality(F)
  PROVE  Accounts(AllFailed(n), F, acc, ded)
<1>1. PICK r : r = AllFailed(n)
  BY Zenon
<1>2. n \in Nat
  BY Zenon, FS_CardinalityType
<1>3. r.success = 0 /\ r.failure = n /\ r.invalid = {} /\ r.retryable = 0
  BY Zenon, <1>1 DEF AllFailed, Empty
<1>4. Cardinality(r.invalid) = 0
  BY Zenon, <1>3, FS_EmptySet
<1>5. Cardinality(Sent(F, acc)) \in Nat
  BY Zenon, SmallerCount DEF Sent
<1>6. /\ Cardinality(Unsent(F, acc)) \in Nat
      /\ Cardinality(Unsent(F, acc)) <= n
  BY Zenon, SmallerCount DEF Unsent
<1>7. F \ r.invalid = F
  BY Zenon, <1>3
<1>8. Accounts(r, F, acc, ded)
  BY <1>2, <1>3, <1>4, <1>5, <1>6, <1>7 DEF Accounts
<1>9. QED
  BY Zenon, <1>1, <1>8

\* The zero result a SendSplit starts from accounts for no device.
LEMMA EmptyAccounts ==
  ASSUME NEW acc, NEW ded
  PROVE  Accounts(Empty, {}, acc, ded)
<1>1. AllFailed(0) = Empty
  BY DEF AllFailed, Empty
<1>2. QED
  BY Zenon, <1>1, FailedAccounts, FS_EmptySet

\* The result read from a multicast response accounts for the batch, once
\* the accepted devices are counted as accepted and the dead tokens as
\* dead.
LEMMA TallyAccounts ==
  ASSUME NEW F, IsFiniteSet(F), NEW a \in [F -> Outcomes], NEW acc, NEW ded,
         Tally(a).invalid \subseteq ded,
         \A f \in F : acc[f] \in Nat /\ (a[f] = "sent" => acc[f] > 0)
  PROVE  Accounts(Tally(a), F, acc, ded)
<1> DEFINE of(what) == {f \in F : a[f] = what}
<1>1. PICK r : r = Tally(a)
  BY Zenon
<1>2. /\ r.success = Cardinality(of("sent"))
      /\ r.failure = Cardinality(F \ of("sent"))
      /\ r.invalid = of("invalid")
      /\ r.retryable = Cardinality(of("retryable"))
  BY Zenon, <1>1 DEF Tally
<1>3. /\ of("sent") \subseteq F /\ of("invalid") \subseteq F \ of("sent")
      /\ of("retryable") \subseteq F \ of("sent")
      /\ of("invalid") \cap of("retryable") = {}
      /\ of("sent") \subseteq Sent(F, acc) /\ Sent(F, acc) \subseteq F
      /\ Unsent(F \ of("invalid"), acc) \subseteq (F \ of("sent")) \ of("invalid")
  BY DEF Sent, Unsent
<1> HIDE DEF of
<1>4. PICK S, I, R : S = of("sent") /\ I = of("invalid") /\ R = of("retryable")
  BY Zenon
<1>5. /\ IsFiniteSet(S) /\ IsFiniteSet(F \ S)
      /\ Cardinality(S) \in Nat /\ Cardinality(F \ S) \in Nat
  BY Zenon, <1>3, <1>4, SmallerCount
<1>6. Cardinality(S) + Cardinality(F \ S) = Cardinality(F)
  <2>1. S \cup (F \ S) = F /\ S \cap (F \ S) = {}
    BY Zenon, <1>3, <1>4
  <2>2. QED
    BY Zenon, <1>5, <2>1, DisjointCount
<1>7. /\ Cardinality(I) \in Nat /\ Cardinality(R) \in Nat
      /\ IsFiniteSet(I) /\ IsFiniteSet(R)
  BY Zenon, <1>3, <1>4, <1>5, SmallerCount
<1>8. Cardinality(I) + Cardinality(R) <= Cardinality(F \ S)
  <2>1. I \cup R \subseteq F \ S
    BY Zenon, <1>3, <1>4
  <2>2. Cardinality(I \cup R) <= Cardinality(F \ S)
    BY Zenon, <1>5, <2>1, SmallerCount
  <2>3. QED
    BY Zenon, <1>3, <1>4, <1>7, <2>2, DisjointCount
<1>9. Cardinality(S) <= Cardinality(Sent(F, acc))
  BY Zenon, <1>3, <1>4, SmallerCount
<1>10. Cardinality(Unsent(F \ I, acc)) <= Cardinality(F \ S) - Cardinality(I)
  <2>1. PICK U : U = (F \ S) \ I
    BY Zenon
  <2>2. IsFiniteSet(U) /\ U \cap I = {} /\ U \cup I = F \ S
    BY Zenon, <1>3, <1>4, <1>5, <2>1, SmallerCount
  <2>3. Cardinality(F \ S) = Cardinality(U) + Cardinality(I) /\ Cardinality(U) \in Nat
    BY Zenon, <1>7, <2>2, DisjointCount
  <2>4. /\ Cardinality(Unsent(F \ I, acc)) <= Cardinality(U)
        /\ Cardinality(Unsent(F \ I, acc)) \in Nat
    BY Zenon, <1>3, <1>4, <2>1, <2>2, SmallerCount
  <2>5. QED
    BY <1>7, <2>3, <2>4
<1>11. Accounts(r, F, acc, ded)
  BY Zenon, <1>1, <1>2, <1>3, <1>4, <1>5, <1>6, <1>7, <1>8, <1>9, <1>10 DEF Accounts
<1>12. QED
  BY Zenon, <1>1, <1>11

-----------------------------------------------------------------------------
(* The invariant *)

\* The FIDs of one platform's group, and those in batches still to be sent.
GroupFids(p) == Fids(Group(devices, p))
FidsIn(queue) == UNION {Fids(queue[i]) : i \in DOMAIN queue}
Left(r) == FidsIn(batches[r])

\* Batches as Split leaves them: within the limit, and no FID twice.
Proper(queue) ==
  /\ \A i \in DOMAIN queue : Len(queue[i]) \in 1 .. FCMMaxBatchSize
  /\ \A i \in DOMAIN queue : Distinct(queue[i])
  /\ \A i, j \in DOMAIN queue : i # j => Fids(queue[i]) \cap Fids(queue[j]) = {}

DeviceOf(r) ==
  [fid : IF r \in Platforms THEN AllFids ELSE Singles,
   platform : Platforms \cup {Unset}]

Busy == {"delay", "wait", "execute", "admit", "fcm"}
Phases == Busy \cup {"start", "batch", "done"}

\* The types, with those of the queues.
DispatcherType ==
  /\ devices \in {call.devices : call \in Inputs}
  /\ oversized \in BOOLEAN /\ guarded \in BOOLEAN
  /\ send \in {"idle", "running", "returned"}
  /\ cancelled \subseteq Requests
  /\ phase \in [Requests -> Phases]
  /\ DOMAIN batches = Requests
  /\ \A r \in Requests : /\ batches[r] \in Seq(Seq(DeviceOf(r)))
                         /\ Proper(batches[r])
                         /\ phase[r] \in Busy => batches[r] # <<>>
  /\ attempt \in [Requests -> Nat]
  /\ \A r \in Requests : attempt[r] < Attempts(r)
  /\ last \in [Requests -> Results]
  /\ sum \in [Requests -> Results]
  /\ result \in Results
  /\ accepted \in [AllFids -> Nat] /\ partial \in [AllFids -> Nat]
  /\ dead \subseteq AllFids
  /\ late \in [Requests -> Nat]

\* The breaker has the calls that are inside FCM.
InBreaker ==
  guarded => \A r \in Requests : phase[r] = "fcm" <=> status[r] \in InFn

\* How far Send is.
Staged ==
  /\ send = "idle" =>
       /\ result = Empty
       /\ \A f \in AllFids : accepted[f] = 0
       /\ \A p \in Platforms : phase[p] = "start" /\ sum[p] = Empty
  /\ send = "running" =>
       ~oversized /\ \A p \in Platforms : phase[p] # "start"
  /\ send = "returned" => \A p \in Platforms : phase[p] \in {"start", "done"}
  /\ send = "returned" /\ oversized =>
       /\ result = AllFailed(Len(devices))
       /\ \A f \in AllFids : accepted[f] = 0

Merged == UNION {GroupFids(p) : p \in {q \in Platforms : phase[q] = "done"}}

\* Each goroutine's result accounts for the batches it is done with, and the
\* merged result for the groups that are done.
Accounted ==
  /\ \A p \in Platforms : Left(p) \subseteq GroupFids(p)
  /\ send = "running" =>
       /\ \A p \in Platforms :
            phase[p] # "done" =>
              Accounts(sum[p], GroupFids(p) \ Left(p), accepted, dead)
       /\ \A p \in Platforms :
            phase[p] = "delay" =>
              Accounts(last[p], Fids(Head(batches[p])), accepted, dead)
       /\ Accounts(result, Merged, accepted, dead)
  /\ send = "returned" /\ ~oversized =>
       Accounts(result, Fids(devices), accepted, dead)

\* A device whose batch is not done has been sent the message for retryable
\* errors only.
Resent ==
  /\ ResentForRetryable
  /\ \A p \in Platforms : \A f \in Left(p) : accepted[f] <= partial[f]

\* A goroutine that has called FCM with a context that was done does not get
\* past Execute again.
Late ==
  guarded => \A r \in Requests :
               /\ late[r] <= 1
               /\ late[r] = 1 => r \in cancelled /\ phase[r] # "admit"

\* The inductive invariant of the dispatcher.
DispatcherInv ==
  DispatcherType /\ InBreaker /\ Staged /\ Accounted /\ Resent /\ Late

-----------------------------------------------------------------------------
(* The end of an attempt: its effect and its types *)

\* What taking the first batch off a queue leaves.
LEMMA QueueTail ==
  ASSUME NEW D, NEW queue \in Seq(Seq(D)), queue # <<>>, Proper(queue)
  PROVE  /\ Head(queue) \in Seq(D)
         /\ Len(Head(queue)) \in 1 .. FCMMaxBatchSize
         /\ Distinct(Head(queue))
         /\ Fids(Head(queue)) \subseteq FidsIn(queue)
         /\ Tail(queue) \in Seq(Seq(D))
         /\ Proper(Tail(queue))
         /\ FidsIn(Tail(queue)) = FidsIn(queue) \ Fids(Head(queue))
<1>1. PICK n \in Nat : n = Len(queue) /\ DOMAIN queue = 1 .. n /\ n >= 1
  OBVIOUS
<1>2. Head(queue) = queue[1] /\ 1 \in DOMAIN queue
  BY <1>1
<1>3. /\ Tail(queue) \in Seq(Seq(D))
      /\ DOMAIN Tail(queue) = 1 .. n - 1
      /\ \A i \in 1 .. n - 1 : Tail(queue)[i] = queue[i + 1] /\ i + 1 \in DOMAIN queue
  <2> DEFINE S == Seq(D)
  <2>1. queue \in Seq(S)
    BY Zenon
  <2> HIDE DEF S
  <2>2. /\ Tail(queue) \in Seq(S) /\ Len(Tail(queue)) = n - 1
        /\ \A i \in 1 .. n - 1 : Tail(queue)[i] = queue[i + 1]
    BY <1>1, <2>1
  <2>3. DOMAIN Tail(queue) = 1 .. n - 1
    BY <1>1, <2>2
  <2>4. \A i \in 1 .. n - 1 : i + 1 \in DOMAIN queue
    BY <1>1
  <2> QED
    BY Zenon, <2>2, <2>3, <2>4 DEF S
<1>4. Proper(Tail(queue))
  <2>1. \A i, j \in 1 .. n - 1 : i # j => i + 1 # j + 1
    OBVIOUS
  <2>2. \A i \in DOMAIN Tail(queue) :
          /\ Len(Tail(queue)[i]) \in 1 .. FCMMaxBatchSize
          /\ Distinct(Tail(queue)[i])
    BY Zenon, <1>3 DEF Proper
  <2>3. \A i, j \in 1 .. n - 1 :
          i # j => Fids(queue[i + 1]) \cap Fids(queue[j + 1]) = {}
    BY Zenon, <1>3, <2>1 DEF Proper
  <2>4. \A i, j \in DOMAIN Tail(queue) :
          i # j => Fids(Tail(queue)[i]) \cap Fids(Tail(queue)[j]) = {}
    BY Zenon, <1>3, <2>3
  <2>5. QED
    BY Zenon, <2>2, <2>4 DEF Proper
<1>5. \A i \in DOMAIN queue : i = 1 \/ (i - 1 \in 1 .. n - 1 /\ queue[i] = Tail(queue)[i - 1])
  BY <1>1, <1>3
<1>6. ASSUME NEW f
      PROVE  f \in FidsIn(Tail(queue)) <=> f \in FidsIn(queue) /\ f \notin Fids(Head(queue))
  <2>1. f \in FidsIn(Tail(queue)) <=> \E i \in 1 .. n - 1 : f \in Fids(queue[i + 1])
    BY Zenon, <1>3 DEF FidsIn
  <2>2. f \in FidsIn(queue) <=> \E i \in DOMAIN queue : f \in Fids(queue[i])
    BY Zenon DEF FidsIn
  <2>3. ASSUME NEW i \in 1 .. n - 1, f \in Fids(queue[i + 1])
        PROVE  f \in FidsIn(queue) /\ f \notin Fids(Head(queue))
    <3>1. i + 1 # 1 /\ i + 1 \in DOMAIN queue
      BY <1>1
    <3>2. Fids(queue[i + 1]) \cap Fids(queue[1]) = {}
      BY Zenon, <1>2, <3>1 DEF Proper
    <3>3. QED
      BY Zenon, <1>2, <2>2, <2>3, <3>1, <3>2
  <2>4. ASSUME NEW i \in DOMAIN queue, f \in Fids(queue[i]), f \notin Fids(Head(queue))
        PROVE  f \in FidsIn(Tail(queue))
    <3>1. i # 1
      BY Zenon, <1>2, <2>4
    <3>2. i - 1 \in 1 .. n - 1 /\ (i - 1) + 1 = i
      BY <1>1, <3>1
    <3>3. QED
      BY Zenon, <2>1, <2>4, <3>2
  <2>5. QED
    BY Zenon, <2>1, <2>2, <2>3, <2>4
<1>7. FidsIn(Tail(queue)) = FidsIn(queue) \ Fids(Head(queue))
  BY Zenon, <1>6
<1>8. Fids(Head(queue)) \subseteq FidsIn(queue)
  BY Zenon, <1>2 DEF FidsIn
<1>9. /\ Head(queue) \in Seq(D)
      /\ Len(Head(queue)) \in 1 .. FCMMaxBatchSize
      /\ Distinct(Head(queue))
  BY <1>2 DEF Proper
<1>10. QED
  BY Zenon, <1>3, <1>4, <1>7, <1>8, <1>9

\* An attempt ends with res: the batch is tried again, or is done.
Retries(r, res) ==
  /\ attempt[r] + 1 < Attempts(r)
  /\ attempt' = [attempt EXCEPT ![r] = @ + 1]
  /\ last' = [last EXCEPT ![r] = res]
  /\ phase' = [phase EXCEPT ![r] = "delay"]
  /\ UNCHANGED <<sum, batches>>

Ends(r, res) == Retries(r, res) \/ EndBatch(r, res)

\* AttemptDone either retries or ends the batch.
LEMMA AttemptEnds ==
  ASSUME NEW r, NEW res, NEW again, AttemptDone(r, res, again)
  PROVE  Ends(r, res)
BY Zenon DEF AttemptDone, Ends, Retries, Goto

\* Every request has at least one attempt.
LEMMA AttemptsType == \A r \in Requests : Attempts(r) \in Nat \ {0}
  BY DispatcherAssumption DEF Attempts

\* What the end of an attempt does to the sender's state: either the same
\* batch waits for a backoff delay with the attempt's result at hand, or
\* the batch leaves the queue and its result is added to the sum. No other
\* sender is touched.
LEMMA EndsEffect ==
  ASSUME DispatcherType, NEW r \in Requests, NEW res, Ends(r, res)
  PROVE  /\ DOMAIN batches' = Requests /\ DOMAIN phase' = Requests
         /\ DOMAIN sum' = Requests /\ DOMAIN last' = Requests
         /\ DOMAIN attempt' = Requests
         /\ \A q \in Requests \ {r} :
              /\ batches'[q] = batches[q] /\ phase'[q] = phase[q]
              /\ sum'[q] = sum[q] /\ last'[q] = last[q]
              /\ attempt'[q] = attempt[q]
         /\ \/ /\ phase'[r] = "delay" /\ last'[r] = res
               /\ attempt'[r] = attempt[r] + 1 /\ attempt[r] + 1 < Attempts(r)
               /\ batches'[r] = batches[r] /\ sum'[r] = sum[r]
            \/ /\ phase'[r] = "batch" /\ last'[r] = Empty /\ attempt'[r] = 0
               /\ batches'[r] = Tail(batches[r]) /\ sum'[r] = Plus(sum[r], res)
<1>1. /\ phase \in [Requests -> Phases] /\ DOMAIN batches = Requests
      /\ attempt \in [Requests -> Nat] /\ last \in [Requests -> Results]
      /\ sum \in [Requests -> Results]
  BY Zenon DEF DispatcherType
<1>2. CASE Retries(r, res)
  BY Zenon, <1>1, <1>2 DEF Retries
<1>3. CASE EndBatch(r, res)
  BY Zenon, <1>1, <1>3 DEF EndBatch, Goto
<1>4. QED
  BY Zenon, <1>2, <1>3 DEF Ends

\* The operations on results stay within the type of results.
LEMMA ResultTypes ==
  /\ Empty \in Results
  /\ \A n \in Nat : AllFailed(n) \in Results
  /\ \A a, b \in Results : Plus(a, b) \in Results
  /\ [Empty EXCEPT !.success = 1] \in Results
BY DEF Empty, AllFailed, Plus, Results

\* The end of an attempt keeps every variable in its type.
LEMMA EndsType ==
  ASSUME DispatcherType, NEW r \in Requests, NEW res \in Results, Ends(r, res),
         batches[r] # <<>>,
         UNCHANGED <<devices, oversized, guarded, send, cancelled, result>>,
         accepted' \in [AllFids -> Nat], partial' \in [AllFids -> Nat],
         dead' \subseteq AllFids, late' \in [Requests -> Nat]
  PROVE  DispatcherType'
<1> DEFINE Effect ==
         /\ DOMAIN batches' = Requests /\ DOMAIN phase' = Requests
         /\ DOMAIN sum' = Requests /\ DOMAIN last' = Requests
         /\ DOMAIN attempt' = Requests
         /\ \A q \in Requests \ {r} :
              /\ batches'[q] = batches[q] /\ phase'[q] = phase[q]
              /\ sum'[q] = sum[q] /\ last'[q] = last[q]
              /\ attempt'[q] = attempt[q]
         /\ \/ /\ phase'[r] = "delay" /\ last'[r] = res
               /\ attempt'[r] = attempt[r] + 1 /\ attempt[r] + 1 < Attempts(r)
               /\ batches'[r] = batches[r] /\ sum'[r] = sum[r]
            \/ /\ phase'[r] = "batch" /\ last'[r] = Empty /\ attempt'[r] = 0
               /\ batches'[r] = Tail(batches[r]) /\ sum'[r] = Plus(sum[r], res)
<1>1. Effect
  BY Zenon, EndsEffect
<1>2. /\ Tail(batches[r]) \in Seq(Seq(DeviceOf(r)))
      /\ Proper(Tail(batches[r]))
  BY Zenon, QueueTail DEF DispatcherType
<1>3. \A q \in Requests : /\ batches'[q] \in Seq(Seq(DeviceOf(q)))
                          /\ Proper(batches'[q])
                          /\ phase'[q] \in Busy => batches'[q] # <<>>
  BY Zenon, <1>1, <1>2 DEF DispatcherType, Busy
<1>4. phase' \in [Requests -> Phases]
  BY Zenon DEF DispatcherType, Ends, Retries, EndBatch, Goto, Phases, Busy
<1>5. attempt' \in [Requests -> Nat] /\ \A q \in Requests : attempt'[q] < Attempts(q)
  <2>1. /\ attempt \in [Requests -> Nat]
        /\ \A q \in Requests : attempt[q] < Attempts(q) /\ Attempts(q) \in Nat \ {0}
    BY Zenon, AttemptsType DEF DispatcherType
  <2>2. CASE Retries(r, res)
    <3>1. /\ attempt' = [attempt EXCEPT ![r] = attempt[r] + 1]
          /\ attempt[r] + 1 < Attempts(r)
      BY Zenon, <2>2 DEF Retries
    <3>2. QED
      BY <2>1, <3>1
  <2>3. CASE EndBatch(r, res)
    <3>1. attempt' = [attempt EXCEPT ![r] = 0]
      BY Zenon, <2>3 DEF EndBatch
    <3>2. QED
      BY <2>1, <3>1
  <2>4. QED
    BY Zenon, <2>2, <2>3 DEF Ends
<1>6. last' \in [Requests -> Results] /\ sum' \in [Requests -> Results]
  <2>1. /\ last \in [Requests -> Results] /\ sum \in [Requests -> Results]
        /\ Empty \in Results /\ Plus(sum[r], res) \in Results
    BY Zenon, ResultTypes DEF DispatcherType
  <2>2. CASE Retries(r, res)
    BY Zenon, <2>1, <2>2 DEF Retries
  <2>3. CASE EndBatch(r, res)
    BY Zenon, <2>1, <2>3 DEF EndBatch
  <2>4. QED
    BY Zenon, <2>2, <2>3 DEF Ends
<1>7. DOMAIN batches' = Requests
  BY Zenon, <1>1
<1> HIDE DEF Effect
<1>8. QED
  BY Zenon, <1>3, <1>4, <1>5, <1>6, <1>7 DEF DispatcherType, Attempts

-----------------------------------------------------------------------------
(* What was accounted stays accounted *)

\* Send's groups, while devices is one of the inputs.
LEMMA GroupsAre ==
  ASSUME DispatcherType
  PROVE  /\ \A p \in Platforms :
              /\ Group(devices, p) \in Seq(DeviceOf(p))
              /\ Distinct(Group(devices, p))
              /\ IsFiniteSet(GroupFids(p))
              /\ GroupFids(p) \subseteq AllFids
         /\ \A p, q \in Platforms : p # q => GroupFids(p) \cap GroupFids(q) = {}
         /\ UNION {GroupFids(p) : p \in Platforms} = Fids(devices)
<1> DEFINE D == [fid : AllFids, platform : Platforms \cup {Unset}]
<1>1. devices \in Seq(D) /\ Fids(devices) \subseteq AllFids
  BY Zenon, InputsAssumption DEF DispatcherType, AllFids
<1>2. /\ \A p \in Platforms : Group(devices, p) \in Seq(D) /\ Distinct(Group(devices, p))
      /\ \A p, q \in Platforms : p # q => GroupFids(p) \cap GroupFids(q) = {}
      /\ UNION {GroupFids(p) : p \in Platforms} = Fids(devices)
  BY Zenon, <1>1, GroupIs DEF GroupFids
<1>3. \A p \in Platforms : DeviceOf(p) = D
  BY Zenon DEF DeviceOf
<1> HIDE DEF D
<1>4. \A p \in Platforms : IsFiniteSet(GroupFids(p))
  BY Zenon, <1>2, CountFids DEF GroupFids
<1>5. \A p \in Platforms : GroupFids(p) \subseteq AllFids
  BY Zenon, <1>1, <1>2
<1>6. QED
  BY Zenon, <1>2, <1>3, <1>4, <1>5

\* What FCM has accepted and called invalid is not forgotten.
Grows ==
  /\ \A f \in AllFids : /\ accepted[f] \in Nat /\ accepted'[f] \in Nat
                        /\ accepted[f] <= accepted'[f]
  /\ dead \subseteq dead'

\* A step that no FCM answer is part of changes neither what was accepted
\* nor what is dead, which is the weakest form of growing.
LEMMA SameGrows ==
  ASSUME DispatcherType, UNCHANGED <<accepted, dead>>
  PROVE  Grows
BY DEF DispatcherType, Grows

\* A result keeps accounting for its devices over a step in which
\* acceptances and dead tokens only grow.
LEMMA StillAccounts ==
  ASSUME Grows, NEW F, IsFiniteSet(F), F \subseteq AllFids, NEW res,
         Accounts(res, F, accepted, dead)
  PROVE  Accounts(res, F, accepted', dead')
BY Zenon, AccountsGrow DEF Grows

\* The devices whose platform is done are finitely many devices of the
\* call.
LEMMA MergedIs ==
  ASSUME DispatcherType
  PROVE  /\ IsFiniteSet(Merged)
         /\ Merged \subseteq Fids(devices)
         /\ Fids(devices) \subseteq AllFids
         /\ IsFiniteSet(Fids(devices))
<1>1. Merged \subseteq Fids(devices)
  BY Zenon, GroupsAre DEF Merged
<1>2. Fids(devices) \subseteq AllFids
  BY Zenon DEF DispatcherType, AllFids
<1>3. IsFiniteSet(Fids(devices))
  BY Zenon, InputsAssumption, CountFids DEF DispatcherType
<1>4. QED
  BY Zenon, <1>1, <1>2, <1>3, FS_Subset

\* A step that ends no batch.
LEMMA AccountedKept ==
  ASSUME DispatcherType, Accounted, Grows,
         UNCHANGED <<devices, oversized, send, result>>,
         \A p \in Platforms :
           /\ batches'[p] = batches[p] /\ sum'[p] = sum[p]
           /\ phase'[p] = "done" <=> phase[p] = "done"
           /\ phase'[p] = "delay" => phase[p] = "delay" /\ last'[p] = last[p]
  PROVE  Accounted'
<1>1. \A p \in Platforms : GroupFids(p)' = GroupFids(p) /\ Left(p)' = Left(p)
  BY Zenon DEF GroupFids, Left
<1>2. Merged' = Merged
  BY Zenon, <1>1 DEF Merged
<1>3. \A p \in Platforms : Left(p)' \subseteq GroupFids(p)'
  BY Zenon, <1>1 DEF Accounted
<1>4. ASSUME send' = "running", NEW p \in Platforms, phase'[p] # "done"
      PROVE  Accounts(sum'[p], GroupFids(p)' \ Left(p)', accepted', dead')
  <2>1. Accounts(sum[p], GroupFids(p) \ Left(p), accepted, dead)
    BY Zenon, <1>4 DEF Accounted
  <2>2. /\ IsFiniteSet(GroupFids(p) \ Left(p))
        /\ GroupFids(p) \ Left(p) \subseteq AllFids
    BY Zenon, GroupsAre, FS_Subset
  <2>3. QED
    BY Zenon, <1>1, <2>1, <2>2, StillAccounts
<1>5. ASSUME send' = "running", NEW p \in Platforms, phase'[p] = "delay"
      PROVE  Accounts(last'[p], Fids(Head(batches'[p])), accepted', dead')
  <2>1. Accounts(last[p], Fids(Head(batches[p])), accepted, dead)
    BY Zenon, <1>5 DEF Accounted
  <2>2. /\ IsFiniteSet(Fids(Head(batches[p])))
        /\ Fids(Head(batches[p])) \subseteq AllFids
    <3>1. Fids(Head(batches[p])) \subseteq Left(p)
      BY Zenon, <1>5, QueueTail, DispatcherAssumption DEF DispatcherType, Left, Busy
    <3>2. Left(p) \subseteq GroupFids(p)
      BY Zenon DEF Accounted
    <3>3. QED
      BY Zenon, <3>1, <3>2, GroupsAre, FS_Subset
  <2>3. QED
    BY Zenon, <1>5, <2>1, <2>2, StillAccounts
<1>6. send' = "running" => Accounts(result', Merged', accepted', dead')
  <2>1. Merged \subseteq AllFids /\ IsFiniteSet(Merged)
    BY Zenon, MergedIs
  <2>2. QED
    BY Zenon, <1>2, <2>1, StillAccounts DEF Accounted
<1>7. send' = "returned" /\ ~oversized' =>
        Accounts(result', Fids(devices'), accepted', dead')
  BY Zenon, MergedIs, StillAccounts DEF Accounted
<1>8. QED
  BY Zenon, <1>3, <1>4, <1>5, <1>6, <1>7 DEF Accounted

-----------------------------------------------------------------------------
(* The end of an attempt and of a group: the accounts *)

\* The first batch of a platform's queue.
LEMMA HeadIs ==
  ASSUME DispatcherType, Accounted, NEW r \in Platforms, batches[r] # <<>>
  PROVE  /\ Head(batches[r]) \in Seq(DeviceOf(r))
         /\ Fids(Head(batches[r])) \subseteq Left(r)
         /\ Left(r) \subseteq GroupFids(r)
         /\ Fids(Head(batches[r])) \subseteq AllFids
         /\ IsFiniteSet(Fids(Head(batches[r])))
         /\ Cardinality(Fids(Head(batches[r]))) = Len(Head(batches[r]))
         /\ FidsIn(Tail(batches[r])) = Left(r) \ Fids(Head(batches[r]))
<1>1. r \in Requests
  BY Zenon, DispatcherAssumption
<1>2. batches[r] \in Seq(Seq(DeviceOf(r))) /\ Proper(batches[r])
  BY Zenon, <1>1 DEF DispatcherType
<1>3. /\ Head(batches[r]) \in Seq(DeviceOf(r))
      /\ Distinct(Head(batches[r]))
      /\ Fids(Head(batches[r])) \subseteq Left(r)
      /\ FidsIn(Tail(batches[r])) = Left(r) \ Fids(Head(batches[r]))
  BY Zenon, <1>2, QueueTail DEF Left
<1>4. Left(r) \subseteq GroupFids(r) /\ GroupFids(r) \subseteq AllFids
  BY Zenon, GroupsAre DEF Accounted
<1>5. QED
  BY Zenon, <1>3, <1>4, CountFids

\* A batch of a platform is tried again, or is done and counted.
LEMMA EndsAccounted ==
  ASSUME DispatcherType, Accounted, Grows, NEW r \in Platforms, NEW res,
         send = "running", phase[r] # "done", batches[r] # <<>>,
         Ends(r, res),
         Accounts(res, Fids(Head(batches[r])), accepted', dead'),
         UNCHANGED <<devices, oversized, send, result>>
  PROVE  Accounted'
<1>1. r \in Requests /\ Platforms \subseteq Requests
  BY Zenon, DispatcherAssumption
<1>2. PICK F : F = Fids(Head(batches[r]))
  BY Zenon
<1>3. /\ F \subseteq Left(r) /\ Left(r) \subseteq GroupFids(r)
      /\ IsFiniteSet(F) /\ FidsIn(Tail(batches[r])) = Left(r) \ F
  BY Zenon, <1>2, HeadIs
<1>4. \A q \in Platforms \ {r} :
        /\ batches'[q] = batches[q] /\ phase'[q] = phase[q]
        /\ sum'[q] = sum[q] /\ last'[q] = last[q]
  BY Zenon, <1>1, EndsEffect
<1>5. \/ /\ phase'[r] = "delay" /\ last'[r] = res
         /\ batches'[r] = batches[r] /\ sum'[r] = sum[r]
      \/ /\ phase'[r] = "batch"
         /\ batches'[r] = Tail(batches[r]) /\ sum'[r] = Plus(sum[r], res)
  BY Zenon, <1>1, EndsEffect
<1>6. /\ \A p \in Platforms : GroupFids(p)' = GroupFids(p)
      /\ \A q \in Platforms \ {r} : Left(q)' = Left(q)
      /\ phase'[r] = "delay" => Left(r)' = Left(r)
      /\ phase'[r] = "batch" => Left(r)' = Left(r) \ F
  BY Zenon, <1>3, <1>4, <1>5 DEF GroupFids, Left
<1>7. Merged' = Merged
  BY Zenon, <1>4, <1>5, <1>6 DEF Merged
<1>8. \A p \in Platforms : Left(p)' \subseteq GroupFids(p)'
  BY Zenon, <1>3, <1>5, <1>6 DEF Accounted
<1>9. ASSUME NEW p \in Platforms, phase[p] # "done"
      PROVE  /\ Accounts(sum[p], GroupFids(p) \ Left(p), accepted', dead')
             /\ IsFiniteSet(GroupFids(p) \ Left(p))
  <2>1. Accounts(sum[p], GroupFids(p) \ Left(p), accepted, dead)
    BY Zenon, <1>9 DEF Accounted
  <2>2. /\ IsFiniteSet(GroupFids(p) \ Left(p))
        /\ GroupFids(p) \ Left(p) \subseteq AllFids
    BY Zenon, GroupsAre, FS_Subset
  <2>3. QED
    BY Zenon, <2>1, <2>2, StillAccounts
<1>10. ASSUME NEW p \in Platforms, phase'[p] # "done"
       PROVE  Accounts(sum'[p], GroupFids(p)' \ Left(p)', accepted', dead')
  <2>1. CASE p # r
    BY Zenon, <1>4, <1>6, <1>9, <1>10, <2>1
  <2>2. CASE p = r /\ phase'[r] = "delay"
    BY Zenon, <1>5, <1>6, <1>9, <2>2
  <2>3. CASE p = r /\ phase'[r] = "batch"
    <3>1. Accounts(Plus(sum[r], res), (GroupFids(r) \ Left(r)) \cup F, accepted', dead')
      <4>1. (GroupFids(r) \ Left(r)) \cap F = {}
        BY Zenon, <1>3
      <4>2. QED
        BY Zenon, <1>2, <1>3, <1>9, <4>1, AddAccounts
    <3>2. (GroupFids(r) \ Left(r)) \cup F = GroupFids(r)' \ Left(r)'
      BY Zenon, <1>3, <1>6, <2>3
    <3>3. QED
      BY Zenon, <1>5, <2>3, <3>1, <3>2
  <2>4. QED
    BY Zenon, <1>5, <2>1, <2>2, <2>3
<1>11. ASSUME NEW p \in Platforms, phase'[p] = "delay"
       PROVE  Accounts(last'[p], Fids(Head(batches'[p])), accepted', dead')
  <2>1. CASE p # r
    <3>1. phase[p] = "delay" /\ batches[p] # <<>>
      BY Zenon, <1>1, <1>4, <1>11, <2>1 DEF DispatcherType, Busy
    <3>2. Accounts(last[p], Fids(Head(batches[p])), accepted, dead)
      BY Zenon, <3>1 DEF Accounted
    <3>3. /\ IsFiniteSet(Fids(Head(batches[p])))
          /\ Fids(Head(batches[p])) \subseteq AllFids
      BY Zenon, <3>1, HeadIs
    <3>4. QED
      BY Zenon, <1>4, <2>1, <3>2, <3>3, StillAccounts
  <2>2. CASE p = r
    BY Zenon, <1>5, <1>11, <2>2
  <2>3. QED
    BY Zenon, <2>1, <2>2
<1>12. Accounts(result', Merged', accepted', dead')
  <2>1. Merged \subseteq AllFids /\ IsFiniteSet(Merged)
    BY Zenon, MergedIs
  <2>2. QED
    BY Zenon, <1>7, <2>1, StillAccounts DEF Accounted
<1>13. QED
  BY Zenon, <1>8, <1>10, <1>11, <1>12 DEF Accounted

\* A goroutine merges its group's result into Send's.
LEMMA FinishAccounted ==
  ASSUME DispatcherType, Accounted, NEW r \in Platforms, send = "running", Finish(r)
  PROVE  Accounted'
<1>1. r \in Requests /\ Platforms \subseteq Requests
  BY Zenon, DispatcherAssumption
<1>2. /\ phase[r] = "batch" /\ batches[r] = <<>>
      /\ result' = Plus(result, sum[r]) /\ phase'[r] = "done"
      /\ UNCHANGED <<devices, oversized, send, batches, last, accepted, dead>>
      /\ \A q \in Platforms \ {r} : phase'[q] = phase[q] /\ sum'[q] = sum[q]
  BY Zenon, <1>1 DEF Finish, Goto, DispatcherType, input, history
<1>3. \A p \in Platforms : GroupFids(p)' = GroupFids(p) /\ Left(p)' = Left(p)
  BY Zenon, <1>2 DEF GroupFids, Left
<1>4. Left(r) = {}
  <2>1. DOMAIN batches[r] = {}
    BY <1>2
  <2> QED
    BY Zenon, <2>1 DEF Left, FidsIn
<1>5. Merged' = Merged \cup GroupFids(r)
  BY Zenon, <1>2, <1>3 DEF Merged
<1>6. Merged \cap GroupFids(r) = {}
  BY <1>2, GroupsAre DEF Merged
<1>7. Accounts(sum[r], GroupFids(r), accepted, dead)
  <2>1. GroupFids(r) \ Left(r) = GroupFids(r)
    BY Zenon, <1>4
  <2>2. Accounts(sum[r], GroupFids(r) \ Left(r), accepted, dead)
    BY Zenon, <1>2 DEF Accounted
  <2>3. QED
    BY Zenon, <2>1, <2>2
<1>8. Accounts(result', Merged', accepted', dead')
  <2>1. IsFiniteSet(Merged) /\ IsFiniteSet(GroupFids(r))
    BY Zenon, MergedIs, GroupsAre
  <2>2. Accounts(result, Merged, accepted, dead)
    BY Zenon DEF Accounted
  <2>3. Accounts(Plus(result, sum[r]), Merged \cup GroupFids(r), accepted, dead)
    BY Zenon, <1>6, <1>7, <2>1, <2>2, AddAccounts
  <2>4. QED
    BY Zenon, <1>2, <1>5, <2>3
<1>9. \A p \in Platforms : Left(p)' \subseteq GroupFids(p)'
  BY Zenon, <1>3 DEF Accounted
<1>10. ASSUME NEW p \in Platforms, phase'[p] # "done"
       PROVE  Accounts(sum'[p], GroupFids(p)' \ Left(p)', accepted', dead')
  <2>1. p # r
    BY Zenon, <1>2, <1>10
  <2>2. Accounts(sum[p], GroupFids(p) \ Left(p), accepted, dead)
    BY Zenon, <1>2, <1>10, <2>1 DEF Accounted
  <2>3. QED
    BY Zenon, <1>2, <1>3, <2>1, <2>2
<1>11. ASSUME NEW p \in Platforms, phase'[p] = "delay"
       PROVE  Accounts(last'[p], Fids(Head(batches'[p])), accepted', dead')
  BY Zenon, <1>2, <1>11 DEF Accounted
<1>12. send' = "running"
  BY Zenon, <1>2
<1>13. QED
  BY Zenon, <1>8, <1>9, <1>10, <1>11, <1>12 DEF Accounted

-----------------------------------------------------------------------------
(* Send starts and returns *)

\* The queue a goroutine starts with.
LEMMA SplitGroup ==
  ASSUME DispatcherType, NEW p \in Platforms, Group(devices, p) # <<>>,
         NEW queue, queue = Split(Group(devices, p), FCMMaxBatchSize)
  PROVE  /\ queue \in Seq(Seq(DeviceOf(p)))
         /\ queue # <<>>
         /\ Proper(queue)
         /\ FidsIn(queue) = GroupFids(p)
<1>1. Group(devices, p) \in Seq(DeviceOf(p)) /\ Distinct(Group(devices, p))
  BY Zenon, GroupsAre
<1>2. FCMMaxBatchSize \in Nat \ {0}
  BY Zenon, DispatcherAssumption
<1>3. ASSUME NEW D, NEW g \in Seq(D), g # <<>>, Distinct(g)
      PROVE  /\ Split(g, FCMMaxBatchSize) \in Seq(Seq(D))
             /\ Split(g, FCMMaxBatchSize) # <<>>
             /\ Proper(Split(g, FCMMaxBatchSize))
             /\ FidsIn(Split(g, FCMMaxBatchSize)) = Fids(g)
  <2>1. PICK size \in Nat \ {0} : size = FCMMaxBatchSize
    BY Zenon, <1>2
  <2>2. /\ Split(g, size) \in Seq(Seq(D))
        /\ Split(g, size) # <<>>
        /\ \A k \in DOMAIN Split(g, size) : Len(Split(g, size)[k]) \in 1 .. size
        /\ UNION {Fids(Split(g, size)[k]) : k \in DOMAIN Split(g, size)} = Fids(g)
        /\ Distinct(g) =>
             /\ \A k \in DOMAIN Split(g, size) : Distinct(Split(g, size)[k])
             /\ \A k, m \in DOMAIN Split(g, size) :
                  k # m => Fids(Split(g, size)[k]) \cap Fids(Split(g, size)[m]) = {}
    BY Zenon, <1>3, SplitIs
  <2>3. FidsIn(Split(g, size)) = Fids(g)
    BY Zenon, <2>2 DEF FidsIn
  <2>4. Proper(Split(g, size))
    BY Zenon, <1>3, <2>1, <2>2 DEF Proper
  <2>5. QED
    BY Zenon, <2>1, <2>2, <2>3, <2>4
<1>4. QED
  BY Zenon, <1>1, <1>3 DEF GroupFids

\* Send refuses, or starts its goroutines.
Refuses ==
  /\ devices = <<>> \/ oversized
  /\ send' = "returned"
  /\ result' = AllFailed(Len(devices))
  /\ UNCHANGED <<phase, batches>>

HasGroup(p) == p \in Platforms /\ Group(devices, p) # <<>>

Starts ==
  /\ devices # <<>> /\ ~oversized
  /\ send' = "running"
  /\ DOMAIN phase' = Requests /\ DOMAIN batches' = Requests
  /\ \A r \in Requests :
       IF HasGroup(r)
       THEN /\ phase'[r] = "batch"
            /\ batches'[r] = Split(Group(devices, r), FCMMaxBatchSize)
       ELSE /\ phase'[r] = IF r \in Platforms THEN "done" ELSE phase[r]
            /\ batches'[r] = batches[r]
  /\ UNCHANGED result

\* What SendStart does: it refuses the call at once or starts the senders,
\* and leaves the results and the circuit breaker alone.
LEMMA SendStartEffect ==
  ASSUME SendStart
  PROVE  /\ send = "idle"
         /\ Refuses \/ Starts
         /\ UNCHANGED <<devices, oversized, guarded, cancelled, attempt, last,
                        sum, accepted, dead, partial, late>>
         /\ UNCHANGED vars
<1>1. CASE devices = <<>> \/ oversized
  BY Zenon, <1>1 DEF SendStart, Refuses, input, history
<1>2. CASE ~(devices = <<>> \/ oversized)
  BY Zenon, <1>2 DEF SendStart, Starts, HasGroup, input, history
<1>3. QED
  BY Zenon, <1>1, <1>2

\* SendStart keeps every variable in its type.
LEMMA SendStartType ==
  ASSUME DispatcherType, SendStart
  PROVE  DispatcherType'
<1>1. /\ Refuses \/ Starts
      /\ UNCHANGED <<devices, oversized, guarded, cancelled, attempt, last,
                     sum, accepted, dead, partial, late>>
  BY Zenon, SendStartEffect
<1>2. CASE Refuses
  <2>1. result' \in Results
    <3>1. Len(devices) \in Nat
      <4>1. PICK c \in Inputs : devices = c.devices
        BY Zenon DEF DispatcherType
      <4> QED
        BY <4>1, InputsAssumption
    <3>2. QED
      BY Zenon, <1>2, <3>1, ResultTypes DEF Refuses
  <2>2. QED
    BY Zenon, <1>1, <1>2, <2>1 DEF DispatcherType, Refuses, Attempts
<1>3. CASE Starts
  <2>1. ASSUME NEW r \in Requests
        PROVE  /\ batches'[r] \in Seq(Seq(DeviceOf(r)))
               /\ Proper(batches'[r])
               /\ phase'[r] \in Busy => batches'[r] # <<>>
               /\ phase'[r] \in Phases
    <3>1. CASE HasGroup(r)
      BY Zenon, <1>3, <3>1, SplitGroup DEF Starts, HasGroup, Phases
    <3>2. CASE ~HasGroup(r)
      BY Zenon, <1>3, <3>2 DEF Starts, DispatcherType, Phases, Busy
    <3>3. QED
      BY Zenon, <3>1, <3>2
  <2>2. phase' \in [Requests -> Phases]
    <3>1. CASE devices = <<>> \/ oversized
      BY Zenon, <1>3, <3>1 DEF Starts
    <3>2. CASE ~(devices = <<>> \/ oversized)
      BY Zenon, <3>2 DEF SendStart, DispatcherType, Phases
    <3>3. QED
      BY Zenon, <3>1, <3>2
  <2>3. DOMAIN batches' = Requests /\ send' = "running" /\ result' = result
    BY Zenon, <1>3 DEF Starts
  <2>4. QED
    BY Zenon, <1>1, <2>1, <2>2, <2>3 DEF DispatcherType, Attempts
<1>4. QED
  BY Zenon, <1>1, <1>2, <1>3

\* SendStart keeps the relation of Send's stage and its senders' phases.
LEMMA SendStartStaged ==
  ASSUME DispatcherType, Staged, SendStart
  PROVE  Staged'
<1>1. /\ Refuses \/ Starts
      /\ send = "idle"
      /\ UNCHANGED <<devices, oversized, sum, accepted>>
  BY Zenon, SendStartEffect
<1>2. CASE Refuses
  BY Zenon, <1>1, <1>2 DEF Staged, Refuses
<1>3. CASE Starts
  <2>1. \A p \in Platforms : phase'[p] # "start"
    BY Zenon, <1>3, DispatcherAssumption DEF Starts
  <2>2. QED
    BY Zenon, <1>1, <1>3, <2>1 DEF Staged, Starts
<1>4. QED
  BY Zenon, <1>1, <1>2, <1>3

\* SendStart queues exactly the devices of each platform, none of them
\* accounted for yet, in batches that satisfy the limit.
LEMMA SendStartAccounted ==
  ASSUME DispatcherType, Staged, Accounted, SendStart
  PROVE  Accounted'
<1>1. /\ Refuses \/ Starts
      /\ send = "idle"
      /\ UNCHANGED <<devices, oversized, sum, last, accepted, dead>>
  BY Zenon, SendStartEffect
<1>2. \A p \in Platforms : GroupFids(p)' = GroupFids(p)
  BY Zenon, <1>1 DEF GroupFids
<1>3. CASE Refuses
  <2>1. \A p \in Platforms : Left(p)' \subseteq GroupFids(p)'
    BY Zenon, <1>2, <1>3 DEF Accounted, Left, Refuses
  <2>2. ~oversized => Accounts(result', Fids(devices), accepted, dead)
    <3> SUFFICES ASSUME ~oversized
                 PROVE  Accounts(result', Fids(devices), accepted, dead)
      BY Zenon
    <3>1. devices = <<>> /\ result' = AllFailed(0)
      BY Zenon, <1>3 DEF Refuses
    <3>2. Fids(devices) = {}
      BY <3>1 DEF Fids
    <3>3. QED
      BY Zenon, <3>1, <3>2, FailedAccounts, FS_EmptySet
  <2>3. send' = "returned"
    BY Zenon, <1>3 DEF Refuses
  <2>4. QED
    BY Zenon, <1>1, <2>1, <2>2, <2>3 DEF Accounted
<1>4. CASE Starts
  <2>1. \A p \in Platforms : HasGroup(p) => /\ Left(p)' = GroupFids(p)
                                            /\ phase'[p] = "batch"
    BY Zenon, <1>4, SplitGroup, DispatcherAssumption DEF Starts, Left, HasGroup
  <2>2. \A p \in Platforms : ~HasGroup(p) => /\ GroupFids(p) = {}
                                             /\ phase'[p] = "done"
                                             /\ Left(p)' = Left(p)
    BY <1>4, DispatcherAssumption DEF Starts, Left, HasGroup, GroupFids, Fids
  <2>3. \A p \in Platforms : Left(p)' \subseteq GroupFids(p)'
    BY Zenon, <1>2, <2>1, <2>2 DEF Accounted
  <2>4. ASSUME NEW p \in Platforms, phase'[p] # "done"
        PROVE  Accounts(sum'[p], GroupFids(p)' \ Left(p)', accepted', dead')
    <3>1. GroupFids(p)' \ Left(p)' = {} /\ sum'[p] = Empty
      BY Zenon, <1>1, <1>2, <2>1, <2>2, <2>4 DEF Staged
    <3>2. QED
      BY Zenon, <3>1, EmptyAccounts
  <2>5. \A p \in Platforms : phase'[p] # "delay"
    BY Zenon, <2>1, <2>2
  <2>6. Merged' = {}
    BY Zenon, <1>2, <2>1, <2>2 DEF Merged
  <2>7. result' = Empty /\ send' = "running"
    BY Zenon, <1>1, <1>4 DEF Staged, Starts
  <2>8. Accounts(result', Merged', accepted', dead')
    BY Zenon, <2>6, <2>7, EmptyAccounts
  <2>9. QED
    BY Zenon, <2>3, <2>4, <2>5, <2>7, <2>8 DEF Accounted
<1>5. QED
  BY Zenon, <1>1, <1>3, <1>4

\* When Send adds up the senders' results every device of the call is
\* accounted for, none twice: the platforms partition the deduplicated
\* devices.
LEMMA SendReturnsAccounted ==
  ASSUME DispatcherType, Accounted, SendReturns
  PROVE  Accounted'
<1>1. /\ send = "running" /\ \A p \in Platforms : phase[p] = "done"
      /\ send' = "returned"
      /\ UNCHANGED <<devices, oversized, phase, batches, last, sum, result,
                     accepted, dead>>
  BY Zenon DEF SendReturns, input, history
<1>2. Merged = Fids(devices)
  BY Zenon, <1>1, GroupsAre DEF Merged
<1>3. Accounts(result, Fids(devices), accepted, dead)
  BY Zenon, <1>1, <1>2 DEF Accounted
<1>4. \A p \in Platforms : Left(p)' \subseteq GroupFids(p)'
  BY Zenon, <1>1 DEF Accounted, Left, GroupFids
<1>5. QED
  BY Zenon, <1>1, <1>3, <1>4 DEF Accounted
=============================================================================
