---------------------------- MODULE Connections -----------------------------
(***************************************************************************)
(* How the clients of Postgres, MongoDB, Redis and Kafka are opened, used  *)
(* and closed: the constructors with their error paths, the operations,    *)
(* which check closed and then use the client, and Close.  A Postgres      *)
(* store, the Redis limiter and the Kafka event producer can be given a    *)
(* client that others use as well; they then do not own it.                *)
(*                                                                         *)
(* A constructor is one step: nobody else sees what it opens before it     *)
(* returns.  The client that handle h dials is named h.                    *)
(***************************************************************************)
EXTENDS Naturals, FiniteSets

CONSTANTS
  Postgres, Mongo, Redis,  \* handles: stores by backend, and the limiter
  Publishers, Consumers,   \* kafkaAnalyticsPublisher, kafkaEventConsumer
  Producers,               \* kafkaEventProducer
  Given,                   \* clients that the caller made
  Operations,              \* goroutines that call the handles' methods
  MaxHandles               \* bound: handles constructed

Handles == Postgres \cup Mongo \cup Redis \cup Publishers \cup Consumers
             \cup Producers

\* A handle is of one kind, and no handle is a given client.
ASSUME ConnectionsAssumption ==
  /\ Given \cap Handles = {}
  /\ (Postgres \cup Redis) \cap (Mongo \cup Publishers \cup Consumers) = {}
  /\ Producers \cap (Postgres \cup Redis \cup Mongo \cup Publishers
                       \cup Consumers) = {}

VARIABLES
  client,  \* per client: "none", "open", "draining" or "closed"
  handle,  \* per handle: [state, uses], where uses is a client
  op,      \* per operation: [pc, on], where on is a handle
  raced    \* history: the operations under way when their handle was closed

connectionVars == <<client, handle, op, raced>>

Owns(h) == handle[h].uses = h
NoHandle == [state |-> "none", uses |-> "none"]
NoOp == [pc |-> "idle", on |-> "none"]

InitConnections ==
  /\ client = [c \in Handles \cup Given |-> IF c \in Given THEN "open"
                                            ELSE "none"]
  /\ handle = [h \in Handles |-> NoHandle]
  /\ op = [o \in Operations |-> NoOp]
  /\ raced = {}

-----------------------------------------------------------------------------
(* Constructors *)

Built(h, c) == handle' = [handle EXCEPT ![h] = [state |-> "ready", uses |-> c]]
Failed(h) == handle' = [handle EXCEPT ![h].state = "failed"]
Left(h, state) == client' = [client EXCEPT ![h] = state]

\* Refused before anything is opened: the configuration, parsing, dialling.
Refused(h) == Failed(h) /\ UNCHANGED client

\* Mutant: a pool that does not answer the first Ping is not closed.
connectPostgresLeaking(h) ==
  \/ Refused(h)
  \/ \E g \in Given : (Built(h, g) \/ Failed(h)) /\ UNCHANGED client
  \/ Left(h, "open") /\ (Failed(h) \/ Built(h, h))

\* connectPostgres; a given pool is pinged and never closed.
connectPostgres(h) ==
  \/ Refused(h)
  \/ \E g \in Given : (Built(h, g) \/ Failed(h)) /\ UNCHANGED client
  \/ Left(h, "closed") /\ Failed(h)
  \/ Left(h, "open") /\ Built(h, h)

\* Connect, Ping, CreateMany: after an error of the last two, Disconnect.
NewMongoDeviceStore(h) ==
  \/ Refused(h)
  \/ Left(h, "closed") /\ Failed(h)
  \/ Left(h, "open") /\ Built(h, h)

\* An owned client that does not answer is closed, an injected one is not.
NewRedisRateLimiter(h) ==
  \/ Refused(h)
  \/ \E g \in Given : (Built(h, g) \/ Failed(h)) /\ UNCHANGED client
  \/ Left(h, "closed") /\ Failed(h)
  \/ Left(h, "open") /\ Built(h, h)

\* NewSyncProducer is the last thing that can fail.
NewKafkaAnalyticsPublisher(h) ==
  \/ Refused(h)
  \/ Left(h, "open") /\ Built(h, h)

\* So is NewConsumerGroup.
NewKafkaEventConsumer(h) ==
  \/ Refused(h)
  \/ Left(h, "open") /\ Built(h, h)

\* Only ever with a producer of the caller's.
NewKafkaEventProducer(h) ==
  \/ Refused(h)
  \/ \E g \in Given : Built(h, g) /\ UNCHANGED client

New(h) ==
  /\ handle[h].state = "none"
  /\ Cardinality({i \in Handles : handle[i].state # "none"}) < MaxHandles
  /\ \/ h \in Postgres /\ connectPostgres(h)
     \/ h \in Mongo /\ NewMongoDeviceStore(h)
     \/ h \in Redis /\ NewRedisRateLimiter(h)
     \/ h \in Publishers /\ NewKafkaAnalyticsPublisher(h)
     \/ h \in Consumers /\ NewKafkaEventConsumer(h)
     \/ h \in Producers /\ NewKafkaEventProducer(h)
  /\ UNCHANGED <<op, raced>>

-----------------------------------------------------------------------------
(* Operations *)

\* What a driver does when it is closed: a pool and a Mongo client wait for
\* the requests they have taken, a sarama client for what is in flight; the
\* Redis client waits for nobody.
Waits(h) == h \notin Redis

Drained(c) == \A o \in Operations :
                op[o].pc = "using" => handle[op[o].on].uses # c

\* A client that is being closed refuses what it is asked.
Refuses(c) == client[c] # "open"

\* sarama's producer refuses only until it has drained.  It then closes the
\* channel SendMessage sends on, shortly before its Close returns: from there
\* on the send panics.
RefusesProducer(c) == client[c] = "draining"
PanicsProducer(c) == client[c] \in {"draining", "closed"} /\ Drained(c)

\* Mutant: the method does not check closed.
CallUnchecked(o, h) ==
  /\ op[o].pc = "idle"
  /\ handle[h].state \in {"ready", "closing", "closed"}
  /\ op' = [op EXCEPT ![o] = [pc |-> "checked", on |-> h]]
  /\ UNCHANGED <<client, handle, raced>>

\* closed is checked here, and the client used in a later step.
Call(o, h) ==
  /\ op[o].pc = "idle"
  /\ handle[h].state = "ready"
  /\ op' = [op EXCEPT ![o] = [pc |-> "checked", on |-> h]]
  /\ UNCHANGED <<client, handle, raced>>

\* The method returns to its caller.
Returned(o) ==
  /\ op' = [op EXCEPT ![o] = NoOp]
  /\ raced' = raced \ {o}
  /\ UNCHANGED <<client, handle>>

\* The client takes the request, or does not and the method returns an error.
\* A panic of the client is nobody's to recover: it ends the process.
Use(o) ==
  LET h == op[o].on
      c == handle[h].uses
      Becomes(pc) == /\ op' = [op EXCEPT ![o].pc = pc]
                     /\ UNCHANGED <<client, handle, raced>>
  IN  /\ op[o].pc = "checked"
      /\ \/ client[c] = "open" /\ Becomes("using")
         \/ h \notin Publishers /\ Refuses(c) /\ Returned(o)
         \/ h \in Publishers /\ RefusesProducer(c) /\ Returned(o)
         \/ h \in Publishers /\ PanicsProducer(c) /\ Becomes("panicked")

Answer(o) ==
  /\ op[o].pc = "using"
  /\ Returned(o)

-----------------------------------------------------------------------------
(* Close; closeOnce makes of every other call one that waits for the first *)

\* Mutant: Close does not ask whose the pool is.
closePostgresGiven(h) ==
  client' = [client EXCEPT ![handle[h].uses] = "draining"]

\* The pool is closed only if ownsPool.
closePostgres(h) ==
  client' = IF Owns(h) THEN [client EXCEPT ![h] = "draining"] ELSE client

\* The client is always the store's own.
closeMongo(h) == Left(h, "draining")

closeRedis(h) ==
  client' = IF Owns(h) THEN [client EXCEPT ![h] = "draining"] ELSE client

closePublisher(h) == Left(h, "draining")

closeConsumer(h) == Left(h, "draining")

\* The injected producer is left open.
closeProducer(h) == UNCHANGED client

Close(h) ==
  /\ handle[h].state = "ready"
  /\ handle' = [handle EXCEPT ![h].state = "closing"]
  /\ \/ h \in Postgres /\ closePostgres(h)
     \/ h \in Mongo /\ closeMongo(h)
     \/ h \in Redis /\ closeRedis(h)
     \/ h \in Publishers /\ closePublisher(h)
     \/ h \in Consumers /\ closeConsumer(h)
     \/ h \in Producers /\ closeProducer(h)
  /\ raced' = raced \cup {o \in Operations :
                            op[o].pc # "idle" /\ op[o].on = h}
  /\ UNCHANGED op

CloseReturns(h) ==
  /\ handle[h].state = "closing"
  /\ Owns(h) /\ Waits(h) => Drained(h)
  /\ handle' = [handle EXCEPT ![h].state = "closed"]
  /\ client' = IF Owns(h) THEN [client EXCEPT ![h] = "closed"] ELSE client
  /\ UNCHANGED <<op, raced>>

\* The process is up.
Up == \A o \in Operations : op[o].pc # "panicked"

NextConnections ==
  /\ Up
  /\ \/ \E h \in Handles : New(h) \/ Close(h) \/ CloseReturns(h)
     \/ \E o \in Operations, h \in Handles : Call(o, h)
     \/ \E o \in Operations : Use(o) \/ Answer(o)

SpecConnections == InitConnections /\ [][NextConnections]_connectionVars

-----------------------------------------------------------------------------
TypeOKConnections ==
  /\ client \in [Handles \cup Given -> {"none", "open", "draining", "closed"}]
  /\ handle \in [Handles -> [state : {"none", "ready", "closing", "closed",
                                      "failed"},
                             uses : Handles \cup Given \cup {"none"}]]
  /\ op \in [Operations -> [pc : {"idle", "checked", "using",
                                  "panicked"},
                            on : Handles \cup {"none"}]]
  /\ raced \subseteq Operations

\* What grnoti opens it closes: once a constructor has failed, on whichever
\* of its steps, or Close has returned, the client it dialled is not open.
NothingLeaks ==
  \A h \in Handles :
    handle[h].state \in {"none", "failed", "closed"} =>
      client[h] \in {"none", "closed"}

\* A client that the caller made stays open, through every failed constructor
\* and every Close, for the other stores that use it ("grnoti never closes a
\* Pool it did not create itself", postgres.go).
GivenStaysOpen == \A g \in Given : client[g] = "open"

\* errors.go:23, ErrClosed "indicates a method was called after Close": a call
\* made once Close has begun is refused and does the process no harm, also
\* when the client below would panic.  What can bring the process down is an
\* operation that was already past its closed check when Close began, and is
\* overtaken by it.
PanicOnlyInRace ==
  \A o \in Operations : op[o].pc = "panicked" => o \in raced
=============================================================================
