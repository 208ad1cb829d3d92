----------------------------- MODULE MCBackends -----------------------------
(* Six parts of the system that share no state, in one model: each         *)
(* behaviour is one of the part that Init chooses, with the rest at rest.  *)
EXTENDS Stores, Connections, PreferencesFilter, Localization, RateLimiter,
        Experiments, TLC

VARIABLE part

MCOwners == {[user |-> "u1", anon |-> ""], [user |-> "", anon |-> "a1"]}

MCSettings == {[nil |-> TRUE, on |-> <<>>],
               [nil |-> FALSE, on |-> "t1" :> FALSE],
               [nil |-> FALSE, on |-> "t2" :> FALSE]}

MCOneHome == [c \in Calls |-> "a"]
MCLimits == {[rate |-> 1, burst |-> 1], [rate |-> 1, burst |-> 2]}

NoChange == [at |-> 0, skip |-> 0, east |-> FALSE]

QuietFrom(start, end) == [on |-> TRUE, zone |-> NoChange, start |-> start,
                          end |-> end]

\* A window, one across midnight, an empty one, and one that does not parse.
MCPreferences == {[enabled |-> TRUE, quiet |-> QuietFrom(1, 3)],
                  [enabled |-> TRUE, quiet |-> QuietFrom(3, 1)],
                  [enabled |-> TRUE, quiet |-> QuietFrom(2, 2)],
                  [enabled |-> FALSE, quiet |-> QuietFrom(Unparsed, 1)]}

\* No weight set, a negative one, and a total that 32 bits do not hold.
MCWeightings == {<<>>, <<0, 2>>, <<2, -1>>, <<1, 3>>}
MCUserID == <<"u">>
MCExperimentID == <<"e">>

Init ==
  /\ part \in {"stores", "connections", "filter", "localization", "limiter",
               "experiments"}
  /\ InitStores /\ InitConnections /\ InitFilter /\ InitLocalization
  /\ InitLimiter /\ InitExperiments
  /\ part # "limiter" => limits = [r \in Replicas |-> [rate |-> 1, burst |-> 1]]
  /\ part # "experiments" =>
       /\ engine = "cache" /\ definition = <<>>
       /\ hash = [k \in DOMAIN hash |-> 0]

MayMove(name, vars) == part # name => UNCHANGED vars

Next ==
  /\ UNCHANGED part
  /\ \/ part = "stores" /\ NextStores
     \/ part = "connections" /\ NextConnections
     \/ part = "filter" /\ NextFilter
     \/ part = "localization" /\ NextLocalization
     \/ part = "limiter" /\ NextLimiter
     \/ part = "experiments" /\ NextExperiments
  /\ MayMove("stores", storeVars)
  /\ MayMove("connections", connectionVars)
  /\ MayMove("filter", filterVars)
  /\ MayMove("localization", localizationVars)
  /\ MayMove("limiter", limiterVars)
  /\ MayMove("experiments", experimentVars)

Spec == Init /\ [][Next]_<<storeVars, connectionVars, filterVars,
                           localizationVars, limiterVars, experimentVars, part>>
             /\ FairFilter
=============================================================================
