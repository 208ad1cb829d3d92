---------------------------- MODULE Experiments -----------------------------
(***************************************************************************)
(* The two experiment engines: deterministicExperimentEngine               *)
(* (experiment.go), with assignments in a map under a lock, and            *)
(* cacheExperimentEngine (cache.experiment.go), with assignments in a      *)
(* shared cache that has no conditional write.  Callers fetch an           *)
(* experiment's definition, which others may change, and ask for a user's  *)
(* variant; a new assignment is published on the bus (events.go).          *)
(*                                                                         *)
(* An id is the sequence of its parts between colons, so that the key of a *)
(* pair, userID + ":" + experimentID, is a concatenation.  A definition is *)
(* the sequence of its variants' weights; a variant is its index and its   *)
(* definition.  The hash of a key is arbitrary, but the same for all.      *)
(***************************************************************************)
EXTENDS Integers, Sequences, FiniteSets

CONSTANTS
  Assigners,             \* goroutines that call AssignVariant
  UserID, ExperimentID,  \* the pair they ask about
  Weightings,            \* the definitions there are
  Uint32                 \* 2^32: the hash is a number of 32 bits

ASSUME WeightingsAssumption ==
  Weightings \subseteq Seq(Int) /\ Uint32 \in Nat \ {0}

VARIABLES
  engine,      \* which one is used: "deterministic" or "cache"
  hash,        \* of each key
  definition,  \* in the experiment store
  assignment,  \* in the engine's map or in the cache; Unassigned if none
  assigner,    \* per assigner: [pc, definition, variant]
  announced,   \* history: the variants handed to the bus, without the
               \* repetitions of the cache engine
  answers,     \* history: the variants answered
  updated,     \* history: the definition has changed
  disturbed    \* history: a cache entry was lost, not read or not written,
               \* or two callers of the cache engine picked at a time

experimentVars == <<engine, hash, definition, assignment, assigner, announced,
                    answers, updated, disturbed>>

assignmentKey(userID, experimentID) == userID \o experimentID

Unassigned == [of |-> <<>>, index |-> 0]
Free == [pc |-> "idle", definition |-> <<>>, variant |-> Unassigned]

InitExperiments ==
  /\ engine \in {"deterministic", "cache"}
  /\ hash \in [{assignmentKey(UserID, ExperimentID)} -> 0 .. Uint32 - 1]
  /\ definition \in Weightings
  /\ assignment = Unassigned
  /\ assigner = [a \in Assigners |-> Free]
  /\ announced = <<>>
  /\ answers = {}
  /\ updated = FALSE
  /\ disturbed = FALSE

-----------------------------------------------------------------------------
Weight(w) == IF w <= 0 THEN 1 ELSE w

\* The sums of the first 0, 1, 2, ... weights.
Cumulative(weights) ==
  LET sum[i \in 0 .. Len(weights)] ==
        IF i = 0 THEN 0 ELSE sum[i - 1] + Weight(weights[i])
  IN  sum

TotalWeight(weights) == Cumulative(weights)[Len(weights)]

\* Mutant: a bucket on the boundary goes to the variant below it.
PickInclusive(h, weights) ==
  LET bucket == h % (TotalWeight(weights) % Uint32)
      Reaches(i) == bucket <= Cumulative(weights)[i]
  IN  CHOOSE i \in 1 .. Len(weights) :
        Reaches(i) /\ \A j \in 1 .. i - 1 : ~Reaches(j)

\* deterministicPick: the first variant whose cumulative weight exceeds the
\* bucket.  The total is cut to 32 bits; at 0 the remainder panics.
Pick(h, weights) ==
  LET bucket == h % (TotalWeight(weights) % Uint32)
      Reaches(i) == bucket < Cumulative(weights)[i]
  IN  CHOOSE i \in 1 .. Len(weights) :
        Reaches(i) /\ \A j \in 1 .. i - 1 : ~Reaches(j)

Panics(weights) == TotalWeight(weights) % Uint32 = 0

Picked(weights) ==
  [of |-> weights,
   index |-> Pick(hash[assignmentKey(UserID, ExperimentID)], weights)]

-----------------------------------------------------------------------------
\* The caller has the definition from the store and calls AssignVariant; one
\* without variants is refused at once.
Fetch(a) ==
  /\ assigner[a].pc = "idle" /\ definition # <<>>
  /\ assigner' = [assigner EXCEPT ![a] =
                    [@ EXCEPT !.pc = "assign", !.definition = definition]]
  /\ UNCHANGED <<engine, hash, definition, assignment, announced, answers,
                 updated, disturbed>>

ReturnVariant(a, v) ==
  /\ answers' = answers \cup {v}
  /\ assigner' = [assigner EXCEPT ![a] = Free]

ToPublish(a, v) ==
  /\ assigner' = [assigner EXCEPT ![a] =
                    [@ EXCEPT !.pc = "publish", !.variant = v]]
  /\ UNCHANGED answers

\* The panic leaves AssignVariant with its lock held: e.mu.Unlock is not
\* deferred.
Panic(a) ==
  /\ assigner' = [assigner EXCEPT ![a].pc = "panicked"]
  /\ UNCHANGED answers

Locked == engine = "deterministic"
            /\ \E a \in Assigners : assigner[a].pc = "panicked"

\* Mutant: the new assignment is not entered.
EnterNothing(a, v) ==
  ToPublish(a, v) /\ UNCHANGED assignment

\* The new assignment is entered before Unlock.
Enter(a, v) ==
  ToPublish(a, v) /\ assignment' = v

\* deterministicExperimentEngine.AssignVariant up to Unlock.
AssignVariant(a) ==
  LET weights == assigner[a].definition
  IN  /\ engine = "deterministic" /\ assigner[a].pc = "assign" /\ ~Locked
      /\ \/ /\ assignment # Unassigned
            /\ ReturnVariant(a, assignment) /\ UNCHANGED assignment
         \/ /\ assignment = Unassigned /\ ~Panics(weights)
            /\ Enter(a, Picked(weights))
         \/ /\ assignment = Unassigned /\ Panics(weights)
            /\ Panic(a) /\ UNCHANGED assignment
      /\ UNCHANGED <<engine, hash, definition, announced, updated, disturbed>>

\* cacheExperimentEngine.AssignVariant asks the cache; an entry that is not
\* there, is not read or does not decode is picked anew.
GetVariant(a) ==
  /\ engine = "cache" /\ assigner[a].pc = "assign"
  /\ \/ /\ assignment # Unassigned
        /\ ReturnVariant(a, assignment)
        /\ UNCHANGED disturbed
     \/ /\ assigner' = [assigner EXCEPT ![a].pc = "pick"]
        /\ disturbed' = (\/ disturbed
                         \/ assignment # Unassigned
                         \/ \E b \in Assigners : assigner[b].pc = "pick")
        /\ UNCHANGED answers
  /\ UNCHANGED <<engine, hash, definition, assignment, announced, updated>>

\* It picks, and sets the entry; a failure is logged.
SetVariant(a) ==
  LET weights == assigner[a].definition
  IN  /\ assigner[a].pc = "pick"
      /\ \/ /\ ~Panics(weights)
            /\ Enter(a, Picked(weights)) /\ UNCHANGED disturbed
         \/ /\ ~Panics(weights)
            /\ ToPublish(a, Picked(weights))
            /\ disturbed' = TRUE /\ UNCHANGED assignment
         \/ /\ Panics(weights)
            /\ Panic(a) /\ UNCHANGED <<assignment, disturbed>>
      /\ UNCHANGED <<engine, hash, definition, announced, updated>>

Published(v) == \E i \in DOMAIN announced : announced[i] = v

\* PublishAssigned hands it to the bus, whose failure is logged.
PublishAssigned(a) ==
  LET v == assigner[a].variant
  IN  /\ assigner[a].pc = "publish"
      /\ announced' = IF engine = "cache" /\ Published(v) THEN announced
                      ELSE Append(announced, v)
      /\ ReturnVariant(a, v)
      /\ UNCHANGED <<engine, hash, definition, assignment, updated, disturbed>>

\* The cache loses its entry.
Evict ==
  /\ engine = "cache" /\ assignment # Unassigned
  /\ assignment' = Unassigned
  /\ disturbed' = TRUE
  /\ UNCHANGED <<engine, hash, definition, assigner, announced, answers,
                 updated>>

\* UpdateExperiment.
ChangeDefinition(d) ==
  /\ d # definition
  /\ definition' = d
  /\ updated' = TRUE
  /\ UNCHANGED <<engine, hash, assignment, assigner, announced, answers,
                 disturbed>>

NextExperiments ==
  \/ \E a \in Assigners : \/ Fetch(a) \/ AssignVariant(a) \/ GetVariant(a)
                          \/ SetVariant(a) \/ PublishAssigned(a)
  \/ Evict
  \/ \E d \in Weightings : ChangeDefinition(d)

SpecExperiments == InitExperiments /\ [][NextExperiments]_experimentVars

-----------------------------------------------------------------------------
\* Every variant gets its share: of as many consecutive hash values as the
\* weights add up to, exactly its weight (1, if it has none) fall to it, as
\* long as the total fits into the 32 bits deterministicPick cuts it to.
PickProportional ==
  \A a \in Assigners :
    LET weights == assigner[a].definition
        total == TotalWeight(weights)
    IN  total < Uint32 =>
          \A i \in 1 .. Len(weights) :
            Cardinality({h \in 0 .. total - 1 : Pick(h, weights) = i})
              = Weight(weights[i])

\* A user keeps the variant: two answers differ only for the cache engine,
\* only after a change of the definition, and only if the cache lost the
\* assignment or two callers picked at a time.
VariantStable ==
  \A v, w \in answers :
    v # w => engine = "cache" /\ updated /\ disturbed

Publishing == {a \in Assigners : assigner[a].pc = "publish"}

\* An assignment is published: by the deterministic engine exactly once, by
\* the one caller that made it, whatever the others do; and by the cache
\* engine at least once, before or soon after a caller is told of it.
AnnouncedOnce ==
  /\ engine = "deterministic" =>
       Len(announced) + Cardinality(Publishing)
         = (IF assignment = Unassigned THEN 0 ELSE 1)
  /\ \A v \in answers :
       Published(v) \/ \E a \in Publishing : assigner[a].variant = v
=============================================================================
