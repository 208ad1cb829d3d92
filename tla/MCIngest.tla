------------------------------ MODULE MCIngest ------------------------------
(* The two ways an event comes in, in one model: each behaviour is one of  *)
(* the Kafka consumer or one of callers of Submit and Close, the choice of *)
(* Init, with the other part at rest.                                      *)
EXTENDS KafkaConsumer, WorkerPool

VARIABLE part

InitIngest ==
  /\ part \in {"kafka", "pool"}
  /\ InitKafka /\ Init

NextIngest ==
  /\ UNCHANGED part
  /\ \/ part = "kafka" /\ NextKafka /\ UNCHANGED vars
     \/ part = "pool" /\ Next /\ UNCHANGED kafkaVars

\* Where it is the part that runs, the consumer goes on, starts a session when
\* it has none, and the workers of its pool keep running; crashes and
\* rebalances need not happen.
FairKafka ==
  /\ WF_kafkaVars(part = "kafka" /\ Fetch)
  /\ WF_kafkaVars(part = "kafka" /\ ConsumeClaim)
  /\ WF_kafkaVars(part = "kafka" /\ SessionStart)
  /\ \A w \in 1 .. PoolWorkers :
       WF_kafkaVars(part = "kafka" /\ (PoolReceives(w) \/ WorkerReturns(w)))

\* A pool at rest has nothing to do, so its fairness is as it stands.
SpecIngest ==
  /\ InitIngest /\ [][NextIngest]_<<kafkaVars, vars, part>>
  /\ Fairness
  /\ FairKafka
=============================================================================
