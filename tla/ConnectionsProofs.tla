-------------------------- MODULE ConnectionsProofs -------------------------
(***************************************************************************)
(* The properties of Connections for any number of handles, of clients     *)
(* that the caller made and of operations; and that of Stores, what the    *)
(* backends hold once they are connected, for any keys and any calls.      *)
(***************************************************************************)
EXTENDS Connections, Stores, TLAPS

\* Who has a client of its own always.
Dialling == Mongo \cup Publishers \cup Consumers

\* The client a handle dialled is in step with the handle, and a handle with
\* a given client has dialled none.
InStep(h) ==
  LET own == handle[h].uses = h /\ h \notin Producers
      given == handle[h].uses \in Given /\ h \notin Dialling
      is == client[h]
  IN  /\ handle[h].state = "none" => is = "none"
      /\ handle[h].state = "failed" => is \in {"none", "closed"}
      /\ handle[h].state = "ready" =>
           (own /\ is = "open") \/ (given /\ is = "none")
      /\ handle[h].state = "closing" =>
           (own /\ is = "draining") \/ (given /\ is = "none")
      /\ handle[h].state = "closed" =>
           (own /\ is = "closed") \/ (given /\ is = "none")

\* An operation runs on a handle that was ready when it began: if the handle
\* is so no longer, or has brought the process down, it was closed since.
OnBuilt(o) ==
  op[o].pc # "idle" =>
    /\ op[o].on \in Handles
    /\ handle[op[o].on].state \in {"ready", "closing", "closed"}
    /\ handle[op[o].on].state # "ready" \/ op[o].pc = "panicked" => o \in raced

IInv ==
  /\ TypeOKConnections
  /\ \A h \in Handles : InStep(h)
  /\ \A o \in Operations : OnBuilt(o)
  /\ GivenStaysOpen

\* The invariant holds initially.
LEMMA InitHolds == InitConnections => IInv
BY ConnectionsAssumption
   DEF InitConnections, IInv, TypeOKConnections, InStep, OnBuilt, NoHandle,
       NoOp, GivenStaysOpen

\* A step that moves one handle and its client, and leaves them in step.
LEMMA HandleMoves ==
  ASSUME IInv, NEW h \in Handles, op' = op,
         raced \subseteq raced', raced' \subseteq Operations,
         NEW s \in {"ready", "closing", "closed", "failed"},
         NEW u \in Handles \cup Given \cup {"none"},
         handle' = [handle EXCEPT ![h] = [state |-> s, uses |-> u]],
         NEW c \in {"none", "open", "draining", "closed"},
         client' = [client EXCEPT ![h] = c],
         InStep(h)',
         \A o \in Operations :
           op[o].pc # "idle" /\ op[o].on = h =>
             s \in {"closing", "closed"} /\ o \in raced'
  PROVE  IInv'
<1>1. TypeOKConnections'
  BY Zenon DEF IInv, TypeOKConnections
<1>2. \A i \in Handles : InStep(i)'
  <2> SUFFICES ASSUME NEW i \in Handles, i # h PROVE InStep(i)'
    BY Zenon
  <2>1. handle'[i] = handle[i] /\ client'[i] = client[i] /\ InStep(i)
    BY Zenon DEF IInv, TypeOKConnections
  <2> QED
    BY Zenon, <2>1 DEF InStep
<1>3. \A o \in Operations : OnBuilt(o)'
  <2> SUFFICES ASSUME NEW o \in Operations, op[o].pc # "idle"
               PROVE  OnBuilt(o)'
    BY Zenon DEF OnBuilt
  <2>1. op[o].on \in Handles /\ OnBuilt(o)
    BY Zenon DEF IInv, OnBuilt
  <2>2. CASE op[o].on = h
    <3>1. handle'[h].state = s
      BY Zenon DEF IInv, TypeOKConnections
    <3> QED
      BY Zenon, <2>2, <3>1 DEF OnBuilt
  <2>3. CASE op[o].on # h
    <3>1. handle'[op[o].on] = handle[op[o].on]
      BY Zenon, <2>1, <2>3 DEF IInv, TypeOKConnections
    <3> QED
      BY Zenon, <2>1, <3>1 DEF OnBuilt
  <2> QED
    BY Zenon, <2>2, <2>3
<1>4. GivenStaysOpen'
  BY Zenon, ConnectionsAssumption DEF IInv, TypeOKConnections, GivenStaysOpen
<1> QED
  BY Zenon, <1>1, <1>2, <1>3, <1>4 DEF IInv

\* EXCEPT with the other field spelt out.
LEMMA StateSet ==
  ASSUME TypeOKConnections, NEW h \in Handles, NEW s
  PROVE  [handle EXCEPT ![h].state = s] =
           [handle EXCEPT ![h] = [state |-> s, uses |-> handle[h].uses]]
<1>1. [handle[h] EXCEPT !.state = s] = [state |-> s, uses |-> handle[h].uses]
  BY DEF TypeOKConnections
<1> QED
  BY Zenon, <1>1

\* A constructor keeps the invariant, wherever it fails.
LEMMA NewKeeps == ASSUME IInv, NEW h \in Handles, New(h) PROVE IInv'
<1>1. /\ op' = op /\ handle[h].state = "none" /\ client[h] = "none"
      /\ h \notin Given
      /\ \A o \in Operations : ~(op[o].pc # "idle" /\ op[o].on = h)
      /\ raced' = raced /\ raced \subseteq Operations
  BY Zenon, ConnectionsAssumption
     DEF New, IInv, InStep, OnBuilt, TypeOKConnections
<1>2. /\ handle[h] = [state |-> "none", uses |-> handle[h].uses]
      /\ handle[h].uses \in Handles \cup Given \cup {"none"}
      /\ client = [client EXCEPT ![h] = "none"]
      /\ handle \in [Handles -> [state : {"none", "ready", "closing", "closed",
                                          "failed"},
                                 uses : Handles \cup Given \cup {"none"}]]
      /\ client \in [Handles \cup Given -> {"none", "open", "draining",
                                            "closed"}]
  BY Zenon, <1>1 DEF IInv, TypeOKConnections
<1>3. PICK s \in {"ready", "failed"}, u \in Handles \cup Given \cup {"none"},
           c \in {"none", "open", "closed"} :
        /\ handle' = [handle EXCEPT ![h] = [state |-> s, uses |-> u]]
        /\ client' = [client EXCEPT ![h] = c]
        /\ \/ s = "failed" /\ c \in {"none", "closed"}
           \/ s = "ready" /\ u = h /\ h \notin Producers /\ c = "open"
           \/ s = "ready" /\ u \in Given /\ h \notin Dialling /\ c = "none"
  <2>1. CASE Refused(h)
    BY Zenon, <2>1, <1>2, StateSet DEF Refused, Failed, IInv
  <2>2. CASE Left(h, "closed") /\ Failed(h)
    BY Zenon, <2>2, <1>2, StateSet DEF Left, Failed, IInv
  <2>3. CASE Left(h, "open") /\ Built(h, h) /\ h \notin Producers
    BY Zenon, <2>3, <1>2 DEF Left, Built
  <2>4. CASE /\ h \notin Dialling
             /\ \E g \in Given : (Built(h, g) \/ Failed(h)) /\ UNCHANGED client
    BY Zenon, <2>4, <1>2, StateSet DEF Built, Failed, IInv
  <2> QED
    BY Zenon, <2>1, <2>2, <2>3, <2>4, ConnectionsAssumption
       DEF New, connectPostgres, NewMongoDeviceStore, NewRedisRateLimiter,
           NewKafkaAnalyticsPublisher, NewKafkaEventConsumer,
           NewKafkaEventProducer, Dialling
<1>4. InStep(h)'
  BY Zenon, <1>2, <1>3 DEF InStep
<1> QED
  BY Zenon, <1>1, <1>3, <1>4, HandleMoves

\* Close keeps the invariant, the first and any later one.
LEMMA CloseKeeps == ASSUME IInv, NEW h \in Handles, Close(h) PROVE IInv'
<1> DEFINE u == handle[h].uses
           c == IF u = h THEN "draining" ELSE "none"
<1>1. /\ op' = op /\ InStep(h)
      /\ handle[h].state = "ready"
      /\ handle[h] \in [state : {"none", "ready", "closing", "closed",
                                 "failed"},
                        uses : Handles \cup Given \cup {"none"}]
      /\ client = [client EXCEPT ![h] = client[h]]
  BY Zenon DEF Close, IInv, TypeOKConnections
<1>2. \/ u = h /\ h \notin Producers /\ client[h] = "open"
      \/ u \in Given /\ u # h /\ h \notin Dialling /\ client[h] = "none"
  BY Zenon, <1>1, ConnectionsAssumption DEF InStep
<1>3. handle' = [handle EXCEPT ![h] = [state |-> "closing", uses |-> u]]
  BY Zenon, <1>1, StateSet DEF Close, IInv
<1>4. client' = [client EXCEPT ![h] = c]
  <2>1. CASE u = h
    BY Zenon, <2>1, <1>2, ConnectionsAssumption
       DEF Close, closePostgres, closeMongo, closeRedis, closePublisher,
           closeConsumer, closeProducer, Left, Owns
  <2>2. CASE u # h
    BY Zenon, <2>2, <1>1, <1>2, ConnectionsAssumption
       DEF Close, closePostgres, closeMongo, closeRedis, closePublisher,
           closeConsumer, closeProducer, Left, Owns, Dialling
  <2> QED
    BY Zenon, <2>1, <2>2
<1>5. InStep(h)'
  BY <1>1, <1>2, <1>3, <1>4 DEF InStep, IInv, TypeOKConnections
<1>6. /\ raced \subseteq raced' /\ raced' \subseteq Operations
      /\ \A o \in Operations :
           op[o].pc # "idle" /\ op[o].on = h => o \in raced'
  BY Zenon DEF Close, IInv, TypeOKConnections
<1> QED
  BY Zenon, <1>1, <1>3, <1>4, <1>5, <1>6, HandleMoves

\* Close returns once the client is drained: nobody uses it any longer.
LEMMA CloseReturnsKeeps ==
  ASSUME IInv, NEW h \in Handles, CloseReturns(h) PROVE IInv'
<1> DEFINE u == handle[h].uses
           c == IF u = h THEN "closed" ELSE "none"
<1>1. /\ op' = op /\ InStep(h)
      /\ handle[h].state = "closing"
      /\ u \in Handles \cup Given \cup {"none"}
      /\ client = [client EXCEPT ![h] = client[h]]
  BY Zenon DEF CloseReturns, IInv, TypeOKConnections
<1>2. \/ u = h /\ h \notin Producers /\ client[h] = "draining"
      \/ u \in Given /\ u # h /\ h \notin Dialling /\ client[h] = "none"
  BY Zenon, <1>1, ConnectionsAssumption DEF InStep
<1>3. handle' = [handle EXCEPT ![h] = [state |-> "closed", uses |-> u]]
  BY Zenon, <1>1, StateSet DEF CloseReturns, IInv
<1>4. client' = [client EXCEPT ![h] = c]
  BY Zenon, <1>1, <1>2 DEF CloseReturns, Owns
<1>5. InStep(h)'
  BY Zenon, <1>1, <1>2, <1>3, <1>4 DEF InStep, IInv, TypeOKConnections
<1>6. /\ raced' = raced /\ raced \subseteq Operations
      /\ \A o \in Operations :
           op[o].pc # "idle" /\ op[o].on = h => o \in raced
  BY Zenon, <1>1 DEF CloseReturns, IInv, TypeOKConnections, OnBuilt
<1> QED
  BY Zenon, <1>1, <1>3, <1>4, <1>5, <1>6, HandleMoves

\* A step that moves one operation.
LEMMA OperationMoves ==
  ASSUME IInv, NEW o \in Operations, client' = client, handle' = handle,
         NEW r \in [pc : {"idle", "checked", "using", "panicked"},
                    on : Handles \cup {"none"}],
         op' = [op EXCEPT ![o] = r],
         raced' \subseteq raced, raced \ {o} \subseteq raced',
         OnBuilt(o)'
  PROVE  IInv'
<1>1. TypeOKConnections' /\ GivenStaysOpen'
  BY Zenon DEF IInv, TypeOKConnections, GivenStaysOpen
<1>2. \A i \in Handles : InStep(i)'
  BY Zenon DEF IInv, InStep
<1>3. ASSUME NEW q \in Operations, q # o
      PROVE  OnBuilt(q)'
  <2>1. op'[q] = op[q] /\ OnBuilt(q)
    BY Zenon, <1>3 DEF IInv, TypeOKConnections
  <2> QED
    BY Zenon, <1>3, <2>1 DEF OnBuilt
<1> QED
  BY Zenon, <1>1, <1>2, <1>3 DEF IInv

\* An operation that passes the closed check keeps the invariant.
LEMMA CallKeeps ==
  ASSUME IInv, NEW o \in Operations, NEW h \in Handles, Call(o, h) PROVE IInv'
<1> DEFINE r == [pc |-> "checked", on |-> h]
<1>1. /\ r \in [pc : {"idle", "checked", "using", "panicked"},
                on : Handles \cup {"none"}]
      /\ r.pc = "checked" /\ r.on = h
  BY Zenon
<1>2. op' = [op EXCEPT ![o] = r] /\ op'[o] = r
  BY Zenon DEF Call, IInv, TypeOKConnections
<1>3. OnBuilt(o)'
  BY Zenon, <1>1, <1>2 DEF Call, OnBuilt
<1> QED
  BY Zenon, <1>1, <1>2, <1>3, OperationMoves DEF Call

\* An operation that returns keeps the invariant.
LEMMA ReturnKeeps == ASSUME IInv, NEW o \in Operations, Returned(o) PROVE IInv'
<1>1. /\ NoOp \in [pc : {"idle", "checked", "using", "panicked"},
                   on : Handles \cup {"none"}]
      /\ NoOp.pc = "idle"
  BY Zenon DEF NoOp
<1>2. op' = [op EXCEPT ![o] = NoOp] /\ op'[o] = NoOp
  BY Zenon DEF Returned, IInv, TypeOKConnections
<1>3. OnBuilt(o)'
  BY Zenon, <1>1, <1>2 DEF OnBuilt
<1> QED
  BY Zenon, <1>1, <1>2, <1>3, OperationMoves DEF Returned

\* An operation that comes to use the client keeps the invariant: a producer
\* that panics is one whose Close began while the operation was under way.
LEMMA UseKeeps == ASSUME IInv, NEW o \in Operations, Use(o) PROVE IInv'
<1> DEFINE h == op[o].on
           c == handle[h].uses
<1>1. h \in Handles /\ OnBuilt(o) /\ InStep(h) /\ op[o].pc = "checked"
  BY Zenon DEF Use, IInv, OnBuilt
<1>2. CASE Returned(o)
  BY Zenon, <1>2, ReturnKeeps
<1>3. ASSUME NEW pc \in {"using", "panicked"}, op' = [op EXCEPT ![o].pc = pc],
             UNCHANGED <<client, handle, raced>>,
             pc = "panicked" => o \in raced
      PROVE  IInv'
  <2> DEFINE r == [pc |-> pc, on |-> h]
  <2>1. /\ r \in [pc : {"idle", "checked", "using", "panicked"},
                  on : Handles \cup {"none"}]
        /\ r.pc = pc /\ r.on = h
    BY Zenon, <1>1, <1>3
  <2>2. [op[o] EXCEPT !.pc = pc] = r
    BY DEF IInv, TypeOKConnections
  <2>3. op' = [op EXCEPT ![o] = r] /\ op'[o] = r
    BY Zenon, <1>3, <2>2 DEF IInv, TypeOKConnections
  <2> HIDE DEF r
  <2>4. OnBuilt(o)'
    BY Zenon, <1>1, <1>3, <2>1, <2>3 DEF OnBuilt
  <2> QED
    BY Zenon, <1>3, <2>1, <2>3, <2>4, OperationMoves
<1>4. h \in Publishers /\ PanicsProducer(c) => o \in raced
  <2> SUFFICES ASSUME h \in Publishers, PanicsProducer(c),
                      handle[h].state = "ready"
               PROVE  FALSE
    BY Zenon, <1>1 DEF OnBuilt
  <2>1. c = h /\ client[h] = "open"
    BY Zenon, <1>1 DEF InStep, Dialling
  <2> QED
    BY Zenon, <2>1 DEF PanicsProducer
<1> QED
  BY Zenon, <1>2, <1>3, <1>4 DEF Use

\* An operation that is answered keeps the invariant.
LEMMA AnswerKeeps == ASSUME IInv, NEW o \in Operations, Answer(o) PROVE IInv'
BY Zenon, ReturnKeeps DEF Answer

\* Every step keeps the invariant.
LEMMA StepKeeps == IInv /\ [NextConnections]_connectionVars => IInv'
<1> SUFFICES ASSUME IInv, [NextConnections]_connectionVars PROVE IInv'
  BY Zenon
<1>1. CASE UNCHANGED connectionVars
  BY Zenon, <1>1 DEF connectionVars, IInv, TypeOKConnections, InStep, OnBuilt,
              GivenStaysOpen
<1>2. CASE NextConnections
  BY Zenon, <1>2, NewKeeps, CloseKeeps, CloseReturnsKeeps, CallKeeps, UseKeeps,
     AnswerKeeps DEF NextConnections
<1> QED
  BY Zenon, <1>1, <1>2

\* IInv is an invariant of the clients and their handles.
LEMMA IInvHolds == SpecConnections => []IInv
BY InitHolds, StepKeeps, PTL DEF SpecConnections

\* Every constructor's error path, and every Close, leaves no client open
\* that grnoti dialled.
THEOREM NothingLeaksHolds == SpecConnections => []NothingLeaks
<1>1. IInv => NothingLeaks
  BY Zenon, ConnectionsAssumption DEF IInv, InStep, NothingLeaks
<1> QED
  BY <1>1, IInvHolds, PTL

\* No constructor and no Close closes a client that the caller made, however
\* many stores are built on it.
THEOREM GivenStaysOpenHolds == SpecConnections => []GivenStaysOpen
<1>1. IInv => GivenStaysOpen
  BY Zenon DEF IInv
<1> QED
  BY <1>1, IInvHolds, PTL

\* However calls, closes and the drivers' own shutdown interleave, an
\* operation that brings the process down was past its closed check before
\* its handle's Close began: the check refuses every later one.
THEOREM PanicOnlyInRaceHolds == SpecConnections => []PanicOnlyInRace
<1>1. IInv => PanicOnlyInRace
  BY Zenon DEF IInv, OnBuilt, PanicOnlyInRace
<1> QED
  BY <1>1, IInvHolds, PTL

-----------------------------------------------------------------------------
(* What the stores hold *)

DeviceRow == [owner : Owners, active : BOOLEAN, createdAt : Nat,
              updatedAt : Nat]

PreferencesRow == [global : BOOLEAN, settings : Settings, createdAt : Nat,
                   updatedAt : Nat]

PreferencesDoc == [global : BOOLEAN,
                   settings : {settingsToMongo(s) : s \in Settings},
                   createdAt : Nat, updatedAt : Nat]

ExperimentRow == [definition : Definitions, createdAt : Nat, updatedAt : Nat]

Table(t, rows) == t \in [DOMAIN t -> rows]

\* The three device stores hold the same rows.
SameDevices ==
  \E t : /\ Table(t, DeviceRow)
         /\ devices = [memory |-> t, postgres |-> t, mongo |-> t]

\* doc is what MongoDB keeps of a row.
Keeps(doc, row) ==
  /\ doc.global = row.global
  /\ doc.settings = settingsToMongo(row.settings)
  /\ doc.createdAt = row.createdAt /\ doc.updatedAt = row.updatedAt

Mirrors(m, t) ==
  DOMAIN m = DOMAIN t /\ \A user \in DOMAIN t : Keeps(m[user], t[user])

SamePreferences ==
  \E t, m : /\ Table(t, PreferencesRow) /\ Table(m, PreferencesDoc)
            /\ Mirrors(m, t)
            /\ preferences = [memory |-> t, postgres |-> t, mongo |-> m]

\* The two experiment stores hold the same ids, and the same experiments but
\* for those created again.
SameExperiments ==
  \E t, p : /\ Table(t, ExperimentRow) /\ Table(p, ExperimentRow)
            /\ DOMAIN p = DOMAIN t
            /\ \A id \in DOMAIN t \ duplicated : t[id] = p[id]
            /\ experiments = [memory |-> t, postgres |-> p]

SameAnswers ==
  answer.key \notin duplicated =>
    AllEqual({answer.is[b] : b \in DOMAIN answer.is})

StoresInv ==
  now \in Nat /\ SameDevices /\ SamePreferences /\ SameExperiments
    /\ SameAnswers

\* A table with one more row is a table.
LEMMA PutInTable ==
  ASSUME NEW rows, NEW f, Table(f, rows), NEW key, NEW r \in rows
  PROVE  Table(Put(f, key, r), rows)
BY Zenon DEF Put, Table

\* A table with a row less is a table.
LEMMA WithoutInTable ==
  ASSUME NEW rows, NEW f, Table(f, rows), NEW key
  PROVE  Table(Without(f, key), rows)
BY Zenon DEF Without, Restrict, Table

\* Replacing the r of a key that is there is to put it.
LEMMA ExceptIsPut ==
  ASSUME NEW f, NEW key \in DOMAIN f, NEW r
  PROVE  [f EXCEPT ![key] = r] = Put(f, key, r)
BY Zenon DEF Put

\* Two rows of devices with the same columns are the same.
LEMMA SameDeviceRow ==
  ASSUME NEW r \in DeviceRow, NEW s \in DeviceRow, r.owner = s.owner,
         r.active = s.active, r.createdAt = s.createdAt,
         r.updatedAt = s.updatedAt
  PROVE  r = s
BY DEF DeviceRow

\* SaveDevice, MarkInvalid and DeleteDevice do the same to equal tables, and
\* answer alike.
LEMMA SaveDeviceAgrees ==
  ASSUME now \in Nat, NEW t, Table(t, DeviceRow),
         NEW d \in [fid : FIDs, owner : Owners]
  PROVE  /\ postgresSaveDevice(t, d) = memorySaveDevice(t, d)
         /\ mongoSaveDevice(t, d) = memorySaveDevice(t, d)
         /\ Table(memorySaveDevice(t, d).table, DeviceRow)
<1>1. CASE ~Validate(d)
  BY Zenon, <1>1 DEF memorySaveDevice, postgresSaveDevice, mongoSaveDevice,
     Result
<1>2. CASE Validate(d)
  <2> DEFINE row == [owner |-> d.owner, active |-> TRUE, updatedAt |-> now,
                     createdAt |-> IF d.fid \in DOMAIN t
                                   THEN t[d.fid].createdAt ELSE now]
             set == [owner |-> d.owner, active |-> TRUE, updatedAt |-> now]
             doc == Over(set, IF d.fid \in DOMAIN t THEN t[d.fid]
                              ELSE [createdAt |-> now])
  <2>1. d.fid \in DOMAIN t => t[d.fid] \in DeviceRow
    BY Zenon DEF Table
  <2>2. row \in DeviceRow
    BY Zenon, <2>1 DEF DeviceRow
  <2>3. doc = row
    <3>1. CASE d.fid \in DOMAIN t
      <4>1. PICK old \in DeviceRow : old = t[d.fid]
        BY Zenon, <2>1, <3>1
      <4>2. doc = Over(set, old)
        BY Zenon, <3>1, <4>1
      <4>3. /\ Over(set, old) \in DeviceRow
            /\ Over(set, old).owner = d.owner /\ Over(set, old).active = TRUE
            /\ Over(set, old).updatedAt = now
            /\ Over(set, old).createdAt = old.createdAt
        BY Zenon DEF Over, DeviceRow
      <4>4. QED
        BY Zenon, <2>2, <3>1, <4>1, <4>2, <4>3, SameDeviceRow
    <3>2. CASE d.fid \notin DOMAIN t
      <4>1. doc = Over(set, [createdAt |-> now])
        BY Zenon, <3>2
      <4>2. /\ Over(set, [createdAt |-> now]) \in DeviceRow
            /\ Over(set, [createdAt |-> now]).owner = d.owner
            /\ Over(set, [createdAt |-> now]).active = TRUE
            /\ Over(set, [createdAt |-> now]).updatedAt = now
            /\ Over(set, [createdAt |-> now]).createdAt = now
        BY Zenon DEF Over, DeviceRow
      <4>3. QED
        BY Zenon, <2>2, <3>2, <4>1, <4>2, SameDeviceRow
    <3>3. QED
      BY Zenon, <3>1, <3>2
  <2>4. mongoSaveDevice(t, d) = Result(Put(t, d.fid, doc), "ok")
    BY Zenon, <1>2 DEF mongoSaveDevice, Upserted
  <2>5. memorySaveDevice(t, d) = Result(Put(t, d.fid, row), "ok")
    BY Zenon, <1>2 DEF memorySaveDevice
  <2>6. upsertDevice(t, d) = Put(t, d.fid, row)
    <3>1. CASE d.fid \in DOMAIN t
      <4> DEFINE new == [t[d.fid] EXCEPT !.owner = d.owner, !.active = TRUE,
                                         !.updatedAt = now]
      <4>1. /\ new \in DeviceRow /\ new.owner = d.owner /\ new.active = TRUE
            /\ new.updatedAt = now /\ new.createdAt = t[d.fid].createdAt
        BY Zenon, <2>1, <3>1 DEF DeviceRow
      <4>2. new = row
        BY Zenon, <2>2, <3>1, <4>1, SameDeviceRow
      <4>3. upsertDevice(t, d) = [t EXCEPT ![d.fid] = new]
        BY Zenon, <3>1 DEF upsertDevice
      <4> HIDE DEF new, row
      <4>4. QED
        BY Zenon, <2>2, <3>1, <4>2, <4>3, ExceptIsPut
    <3>2. CASE d.fid \notin DOMAIN t
      <4> DEFINE new == [owner |-> d.owner, active |-> TRUE,
                         createdAt |-> now, updatedAt |-> now]
      <4>1. new \in DeviceRow
        BY Zenon DEF DeviceRow
      <4>2. new = row
        BY Zenon, <2>2, <3>2, <4>1, SameDeviceRow
      <4>3. upsertDevice(t, d) = Put(t, d.fid, new)
        BY Zenon, <3>2 DEF upsertDevice
      <4> HIDE DEF new, row
      <4>4. QED
        BY Zenon, <4>2, <4>3
    <3>3. QED
      BY Zenon, <3>1, <3>2
  <2>7. postgresSaveDevice(t, d) = Result(Put(t, d.fid, row), "ok")
    BY Zenon, <1>2, <2>6 DEF postgresSaveDevice
  <2> HIDE DEF row, doc
  <2>8. Table(Put(t, d.fid, row), DeviceRow)
    BY Zenon, <2>2, PutInTable
  <2>9. QED
    BY <2>3, <2>4, <2>5, <2>7, <2>8 DEF Result
<1>3. QED
  BY Zenon, <1>1, <1>2

\* MarkInvalid does the same to the same table in the three backends.
LEMMA MarkInvalidAgrees ==
  ASSUME now \in Nat, NEW t, Table(t, DeviceRow), NEW fid
  PROVE  /\ postgresMarkInvalid(t, fid) = memoryMarkInvalid(t, fid)
         /\ mongoMarkInvalid(t, fid) = memoryMarkInvalid(t, fid)
         /\ Table(memoryMarkInvalid(t, fid).table, DeviceRow)
<1>1. CASE fid \notin DOMAIN t
  <2>1. markDeviceInvalid(t, fid) = t
    BY Zenon, <1>1 DEF markDeviceInvalid, Table
  <2>2. QED
    BY Zenon, <1>1, <2>1 DEF memoryMarkInvalid, postgresMarkInvalid,
       mongoMarkInvalid, Result
<1>2. CASE fid \in DOMAIN t
  <2>1. t[fid] \in DeviceRow
    BY Zenon, <1>2 DEF Table
  <2> DEFINE row == [t[fid] EXCEPT !.active = FALSE, !.updatedAt = now]
             doc == Over([active |-> FALSE, updatedAt |-> now], t[fid])
  <2>2. /\ row \in DeviceRow /\ row.owner = t[fid].owner
        /\ row.active = FALSE /\ row.updatedAt = now
        /\ row.createdAt = t[fid].createdAt
    BY Zenon, <2>1 DEF DeviceRow
  <2>3. /\ doc \in DeviceRow /\ doc.owner = t[fid].owner
        /\ doc.active = FALSE /\ doc.updatedAt = now
        /\ doc.createdAt = t[fid].createdAt
    BY Zenon, <2>1 DEF DeviceRow, Over
  <2>4. doc = row
    BY Zenon, <2>2, <2>3, SameDeviceRow
  <2>5. memoryMarkInvalid(t, fid) = Result([t EXCEPT ![fid] = row], "ok")
    BY Zenon, <1>2 DEF memoryMarkInvalid
  <2>6. mongoMarkInvalid(t, fid) = Result(Put(t, fid, doc), "ok")
    BY Zenon, <1>2 DEF mongoMarkInvalid
  <2>7. markDeviceInvalid(t, fid)
          = [f \in DOMAIN t |-> IF f = fid THEN row ELSE t[f]]
    BY Zenon DEF markDeviceInvalid
  <2> HIDE DEF row, doc
  <2>8. markDeviceInvalid(t, fid) = Put(t, fid, row)
    BY Zenon, <1>2, <2>7 DEF Put
  <2>9. [t EXCEPT ![fid] = row] = Put(t, fid, row)
    BY <1>2, <2>2, ExceptIsPut
  <2>10. Table(Put(t, fid, row), DeviceRow)
    BY Zenon, <2>2, PutInTable
  <2>11. /\ memoryMarkInvalid(t, fid) = Result(Put(t, fid, row), "ok")
         /\ mongoMarkInvalid(t, fid) = Result(Put(t, fid, row), "ok")
         /\ postgresMarkInvalid(t, fid) = Result(Put(t, fid, row), "ok")
    BY Zenon, <2>4, <2>5, <2>6, <2>8, <2>9 DEF postgresMarkInvalid
  <2>12. QED
    BY <2>10, <2>11 DEF Result
<1>3. QED
  BY Zenon, <1>1, <1>2

\* DeleteDevice does the same to the same table in the three backends.
LEMMA DeleteDeviceAgrees ==
  ASSUME NEW t, Table(t, DeviceRow), NEW fid
  PROVE  /\ postgresDeleteDevice(t, fid) = memoryDeleteDevice(t, fid)
         /\ mongoDeleteDevice(t, fid) = memoryDeleteDevice(t, fid)
         /\ Table(memoryDeleteDevice(t, fid).table, DeviceRow)
BY Zenon, WithoutInTable DEF postgresDeleteDevice, memoryDeleteDevice,
   mongoDeleteDevice, deleteDevice, Result

\* A call to the device stores that they answer alike.
LEMMA AgreeingDeviceCall ==
  ASSUME StoresInv, NEW key, NEW res, Table(res.table, DeviceRow),
         OnDevices(key, [memory |-> res, postgres |-> res, mongo |-> res])
  PROVE  StoresInv'
<1> DEFINE results == [memory |-> res, postgres |-> res, mongo |-> res]
<1>1. DOMAIN results = {"memory", "postgres", "mongo"}
      /\ \A b \in DOMAIN results : results[b] = res
  OBVIOUS
<1>2. /\ now' = now + 1 /\ devices' = Tables(results)
      /\ answer' = [key |-> key, is |-> [b \in DOMAIN results |-> results[b].is]]
      /\ UNCHANGED <<preferences, experiments, duplicated>>
  BY Zenon DEF OnDevices, Called
<1>3. devices' = [memory |-> res.table, postgres |-> res.table,
                  mongo |-> res.table]
  <2> DEFINE T == {res.table}
  <2>1. Tables(results) \in [memory : T, postgres : T, mongo : T]
    BY Zenon, <1>1 DEF Tables
  <2>2. QED
    BY Zenon, <1>2, <2>1
<1>4. \A b \in DOMAIN answer'.is : answer'.is[b] = res.is
  BY Zenon, <1>1, <1>2
<1>5. SameAnswers'
  BY Zenon, <1>4 DEF SameAnswers, AllEqual
<1>6. SameDevices'
  BY Zenon, <1>3 DEF SameDevices
<1>7. SamePreferences'
  BY Zenon, <1>2 DEF StoresInv, SamePreferences
<1>8. SameExperiments'
  BY Zenon, <1>2 DEF StoresInv, SameExperiments
<1>9. now' \in Nat
  BY <1>2 DEF StoresInv
<1>10. QED
  BY Zenon, <1>5, <1>6, <1>7, <1>8, <1>9 DEF StoresInv

\* Every call on the device stores keeps the invariant.
LEMMA DeviceCallsKeep ==
  ASSUME StoresInv,
         \/ \E d \in [fid : FIDs, owner : Owners] : SaveDevice(d)
         \/ \E fid \in FIDs : MarkInvalid(fid) \/ DeleteDevice(fid)
  PROVE  StoresInv'
<1>1. PICK t : /\ Table(t, DeviceRow)
               /\ devices = [memory |-> t, postgres |-> t, mongo |-> t]
  BY Zenon DEF StoresInv, SameDevices
<1>2. devices.memory = t /\ devices.postgres = t /\ devices.mongo = t
      /\ now \in Nat
  BY Zenon, <1>1 DEF StoresInv
<1>3. ASSUME NEW d \in [fid : FIDs, owner : Owners], SaveDevice(d)
      PROVE  StoresInv'
  <2>1. /\ postgresSaveDevice(t, d) = memorySaveDevice(t, d)
        /\ mongoSaveDevice(t, d) = memorySaveDevice(t, d)
        /\ Table(memorySaveDevice(t, d).table, DeviceRow)
    BY Zenon, <1>1, <1>2, SaveDeviceAgrees
  <2>2. QED
    BY Zenon, <1>2, <1>3, <2>1, AgreeingDeviceCall DEF SaveDevice
<1>4. ASSUME NEW fid \in FIDs, MarkInvalid(fid)
      PROVE  StoresInv'
  <2>1. /\ postgresMarkInvalid(t, fid) = memoryMarkInvalid(t, fid)
        /\ mongoMarkInvalid(t, fid) = memoryMarkInvalid(t, fid)
        /\ Table(memoryMarkInvalid(t, fid).table, DeviceRow)
    BY Zenon, <1>1, <1>2, MarkInvalidAgrees
  <2>2. QED
    BY Zenon, <1>2, <1>4, <2>1, AgreeingDeviceCall DEF MarkInvalid
<1>5. ASSUME NEW fid \in FIDs, DeleteDevice(fid)
      PROVE  StoresInv'
  <2>1. /\ postgresDeleteDevice(t, fid) = memoryDeleteDevice(t, fid)
        /\ mongoDeleteDevice(t, fid) = memoryDeleteDevice(t, fid)
        /\ Table(memoryDeleteDevice(t, fid).table, DeviceRow)
    BY Zenon, <1>1, DeleteDeviceAgrees
  <2>2. QED
    BY Zenon, <1>2, <1>5, <2>1, AgreeingDeviceCall DEF DeleteDevice
<1>6. QED
  BY Zenon, <1>3, <1>4, <1>5

\* Two rows of preferences with the same columns are the same.
LEMMA SamePreferencesRow ==
  ASSUME NEW r \in PreferencesRow, NEW s \in PreferencesRow,
         r.global = s.global, r.settings = s.settings,
         r.createdAt = s.createdAt, r.updatedAt = s.updatedAt
  PROVE  r = s
BY DEF PreferencesRow

\* What SavePreferences leaves for its user, as a row and as a document.
SavedRow(t, p) ==
  [global |-> p.global, settings |-> p.settings, updatedAt |-> now,
   createdAt |-> IF p.user \in DOMAIN t THEN t[p.user].createdAt ELSE now]

SavedDoc(m, p) ==
  Over([global |-> p.global, updatedAt |-> now,
        settings |-> settingsToMongo(p.settings)],
       IF p.user \in DOMAIN m THEN m[p.user] ELSE [createdAt |-> now])

\* SavePreferences does the same to equal tables in memory and in Postgres,
\* and MongoDB keeps what they keep.
LEMMA SavePreferencesAgrees ==
  ASSUME now \in Nat, NEW t, NEW m, Table(t, PreferencesRow),
         Table(m, PreferencesDoc), Mirrors(m, t),
         NEW p \in [user : Users, global : BOOLEAN, settings : Settings],
         p.user # ""
  PROVE  /\ SavedRow(t, p) \in PreferencesRow
         /\ SavedDoc(m, p) \in PreferencesDoc
         /\ Keeps(SavedDoc(m, p), SavedRow(t, p))
         /\ memorySavePreferences(t, p)
              = Result(Put(t, p.user, SavedRow(t, p)), "ok")
         /\ postgresSavePreferences(t, p)
              = Result(Put(t, p.user, SavedRow(t, p)), "ok")
         /\ mongoSavePreferences(m, p)
              = Result(Put(m, p.user, SavedDoc(m, p)), "ok")
<1> DEFINE row == SavedRow(t, p)
           doc == SavedDoc(m, p)
           set == [global |-> p.global, updatedAt |-> now,
                   settings |-> settingsToMongo(p.settings)]
<1> USE DEF SavedRow, SavedDoc
<1>1. /\ p.user \in DOMAIN t => t[p.user] \in PreferencesRow
      /\ p.user \in DOMAIN m => m[p.user] \in PreferencesDoc
  BY Zenon DEF Table
<1>2. row \in PreferencesRow
  BY Zenon, <1>1 DEF PreferencesRow
<1>3. doc \in PreferencesDoc /\ Keeps(doc, row)
  <2>1. CASE p.user \in DOMAIN t
    <3>1. doc = Over(set, m[p.user]) /\ m[p.user] \in PreferencesDoc
      BY Zenon, <1>1, <2>1 DEF Mirrors
    <3>2. m[p.user].createdAt = t[p.user].createdAt
      BY Zenon, <2>1 DEF Keeps, Mirrors
    <3>3. /\ Over(set, m[p.user]) \in PreferencesDoc
          /\ Over(set, m[p.user]).global = p.global
          /\ Over(set, m[p.user]).settings = settingsToMongo(p.settings)
          /\ Over(set, m[p.user]).updatedAt = now
          /\ Over(set, m[p.user]).createdAt = m[p.user].createdAt
      BY Zenon, <3>1 DEF Over, PreferencesDoc
    <3>4. QED
      BY Zenon, <2>1, <3>1, <3>2, <3>3 DEF Keeps
  <2>2. CASE p.user \notin DOMAIN t
    <3> DEFINE new == Over(set, [createdAt |-> now])
    <3>1. doc = new
      BY Zenon, <2>2 DEF Mirrors
    <3>2. /\ new \in PreferencesDoc /\ new.global = p.global
          /\ new.settings = settingsToMongo(p.settings)
          /\ new.updatedAt = now /\ new.createdAt = now
      BY Zenon DEF Over, PreferencesDoc
    <3>3. QED
      BY Zenon, <2>2, <3>1, <3>2 DEF Keeps
  <2>3. QED
    BY Zenon, <2>1, <2>2
<1>4. memorySavePreferences(t, p) = Result(Put(t, p.user, row), "ok")
  BY Zenon DEF memorySavePreferences
<1>5. mongoSavePreferences(m, p) = Result(Put(m, p.user, doc), "ok")
  BY Zenon DEF mongoSavePreferences, Upserted
<1>6. upsertPreferences(t, p) = Put(t, p.user, row)
  <2>1. CASE p.user \in DOMAIN t
    <3> DEFINE new == [t[p.user] EXCEPT !.global = p.global,
                                        !.settings = p.settings,
                                        !.updatedAt = now]
    <3>1. /\ new \in PreferencesRow /\ new.global = p.global
          /\ new.settings = p.settings /\ new.updatedAt = now
          /\ new.createdAt = t[p.user].createdAt
      BY Zenon, <1>1, <2>1 DEF PreferencesRow
    <3>2. new = row
      BY Zenon, <1>2, <2>1, <3>1, SamePreferencesRow
    <3>3. upsertPreferences(t, p) = [t EXCEPT ![p.user] = new]
      BY Zenon, <2>1 DEF upsertPreferences
    <3> HIDE DEF new, row, SavedRow
    <3>4. QED
      <4>1. [t EXCEPT ![p.user] = row] = Put(t, p.user, row)
        BY Zenon, <2>1, ExceptIsPut
      <4>2. QED
        BY Zenon, <3>2, <3>3, <4>1
  <2>2. CASE p.user \notin DOMAIN t
    BY Zenon, <2>2 DEF upsertPreferences
  <2>3. QED
    BY Zenon, <2>1, <2>2
<1>7. postgresSavePreferences(t, p) = Result(Put(t, p.user, row), "ok")
  BY Zenon, <1>6 DEF postgresSavePreferences
<1> HIDE DEF SavedRow, SavedDoc
<1>8. QED
  BY Zenon, <1>2, <1>3, <1>4, <1>5, <1>7

\* What a call leaves in the three stores, and answers.
LEMMA ThreeTables ==
  ASSUME NEW r1, NEW r2, NEW r3, NEW key,
         Called(key, [memory |-> r1, postgres |-> r2, mongo |-> r3])
  PROVE  /\ now' = now + 1
         /\ Tables([memory |-> r1, postgres |-> r2, mongo |-> r3])
              = [memory |-> r1.table, postgres |-> r2.table, mongo |-> r3.table]
         /\ r1.is = r2.is /\ r2.is = r3.is => SameAnswers'
<1> DEFINE results == [memory |-> r1, postgres |-> r2, mongo |-> r3]
<1>1. DOMAIN results = {"memory", "postgres", "mongo"}
  BY Zenon
<1>2. /\ now' = now + 1
      /\ answer' = [key |-> key, is |-> [b \in DOMAIN results |-> results[b].is]]
  BY Zenon DEF Called
<1>3. Tables(results) \in [memory : {r1.table}, postgres : {r2.table},
                           mongo : {r3.table}]
  BY Zenon, <1>1 DEF Tables
<1>4. ASSUME r1.is = r2.is, r2.is = r3.is
      PROVE  SameAnswers'
  <2>1. \A b \in DOMAIN answer'.is : answer'.is[b] = r1.is
    BY <1>1, <1>2, <1>4
  <2>2. QED
    BY Zenon, <2>1 DEF SameAnswers, AllEqual
<1>5. QED
  BY Zenon, <1>2, <1>3, <1>4

\* SavePreferences keeps the invariant: Mongo's document keeps what the row
\* has.
LEMMA SavePreferencesKeeps ==
  ASSUME StoresInv,
         NEW p \in [user : Users, global : BOOLEAN, settings : Settings],
         SavePreferences(p)
  PROVE  StoresInv'
<1>1. PICK t, m : /\ Table(t, PreferencesRow) /\ Table(m, PreferencesDoc)
                  /\ Mirrors(m, t)
                  /\ preferences = [memory |-> t, postgres |-> t, mongo |-> m]
  BY Zenon DEF StoresInv, SamePreferences
<1> DEFINE r1 == memorySavePreferences(t, p)
           r2 == postgresSavePreferences(t, p)
           r3 == mongoSavePreferences(m, p)
<1>2. /\ Called(p.user, [memory |-> r1, postgres |-> r2, mongo |-> r3])
      /\ preferences' = Tables([memory |-> r1, postgres |-> r2, mongo |-> r3])
      /\ UNCHANGED <<devices, experiments, duplicated>>
  <2>1. preferences.memory = t /\ preferences.postgres = t
        /\ preferences.mongo = m
    BY Zenon, <1>1
  <2>2. QED
    BY Zenon, <2>1 DEF SavePreferences
<1>3. /\ r1.is = r2.is /\ r2.is = r3.is /\ r1.table = r2.table
      /\ Table(r1.table, PreferencesRow) /\ Table(r3.table, PreferencesDoc)
      /\ Mirrors(r3.table, r1.table)
  <2>1. CASE p.user = ""
    BY Zenon, <1>1, <2>1 DEF memorySavePreferences, postgresSavePreferences,
       mongoSavePreferences, Result
  <2>2. CASE p.user # ""
    <3>1. now \in Nat
      BY Zenon DEF StoresInv
    <3> DEFINE row == SavedRow(t, p)
               doc == SavedDoc(m, p)
    <3>2. /\ row \in PreferencesRow /\ doc \in PreferencesDoc
          /\ Keeps(doc, row)
          /\ r1 = Result(Put(t, p.user, row), "ok")
          /\ r2 = Result(Put(t, p.user, row), "ok")
          /\ r3 = Result(Put(m, p.user, doc), "ok")
      BY Zenon, <1>1, <2>2, <3>1, SavePreferencesAgrees
    <3> HIDE DEF r1, r2, r3, row, doc
    <3>3. /\ Table(Put(t, p.user, row), PreferencesRow)
          /\ Table(Put(m, p.user, doc), PreferencesDoc)
      BY Zenon, <1>1, <3>2, PutInTable
    <3>4. /\ DOMAIN Put(t, p.user, row) = DOMAIN t \cup {p.user}
          /\ Put(t, p.user, row)[p.user] = row
          /\ \A k \in DOMAIN t : k # p.user => Put(t, p.user, row)[k] = t[k]
      BY Zenon DEF Put
    <3>5. /\ DOMAIN Put(m, p.user, doc) = DOMAIN m \cup {p.user}
          /\ Put(m, p.user, doc)[p.user] = doc
          /\ \A k \in DOMAIN m : k # p.user => Put(m, p.user, doc)[k] = m[k]
      BY Zenon DEF Put
    <3>6. /\ r1.table = Put(t, p.user, row) /\ r1.is = "ok"
          /\ r2.table = Put(t, p.user, row) /\ r2.is = "ok"
          /\ r3.table = Put(m, p.user, doc) /\ r3.is = "ok"
      BY Zenon, <3>2 DEF Result
    <3>7. \A user \in DOMAIN t \cup {p.user} :
            Keeps(Put(m, p.user, doc)[user], Put(t, p.user, row)[user])
      BY Zenon, <1>1, <3>2, <3>4, <3>5 DEF Mirrors
    <3>8. Mirrors(Put(m, p.user, doc), Put(t, p.user, row))
      BY Zenon, <1>1, <3>4, <3>5, <3>7 DEF Mirrors
    <3>9. QED
      BY Zenon, <3>3, <3>6, <3>8
  <2>3. QED
    BY Zenon, <2>1, <2>2
<1> HIDE DEF r1, r2, r3
<1>4. /\ now' = now + 1 /\ SameAnswers'
      /\ preferences' = [memory |-> r1.table, postgres |-> r2.table,
                         mongo |-> r3.table]
  BY Zenon, <1>2, <1>3, ThreeTables
<1>5. preferences' = [memory |-> r1.table, postgres |-> r1.table,
                      mongo |-> r3.table]
  BY Zenon, <1>3, <1>4
<1>6. SamePreferences'
  BY Zenon, <1>3, <1>5 DEF SamePreferences
<1>7. SameDevices'
  BY Zenon, <1>2 DEF StoresInv, SameDevices
<1>8. SameExperiments'
  BY Zenon, <1>2 DEF StoresInv, SameExperiments
<1>9. now' \in Nat
  BY <1>4 DEF StoresInv
<1>10. QED
  BY Zenon, <1>4, <1>6, <1>7, <1>8, <1>9 DEF StoresInv

\* Two rows of experiments with the same columns are the same.
LEMMA SameExperimentRow ==
  ASSUME NEW r \in ExperimentRow, NEW s \in ExperimentRow,
         r.definition = s.definition, r.createdAt = s.createdAt,
         r.updatedAt = s.updatedAt
  PROVE  r = s
BY DEF ExperimentRow

\* What a call on the experiment stores changes.
LEMMA TwoTables ==
  ASSUME NEW r1, NEW r2, NEW key,
         OnExperiments(key, [memory |-> r1, postgres |-> r2])
  PROVE  /\ now' = now + 1
         /\ experiments' = [memory |-> r1.table, postgres |-> r2.table]
         /\ UNCHANGED <<devices, preferences>>
         /\ answer'.key = key
         /\ r1.is = r2.is => SameAnswers'
<1> DEFINE results == [memory |-> r1, postgres |-> r2]
<1>1. DOMAIN results = {"memory", "postgres"}
  BY Zenon
<1>2. /\ now' = now + 1 /\ experiments' = Tables(results)
      /\ answer' = [key |-> key, is |-> [b \in DOMAIN results |-> results[b].is]]
      /\ UNCHANGED <<devices, preferences>>
  BY Zenon DEF OnExperiments, Called
<1>3. Tables(results) \in [memory : {r1.table}, postgres : {r2.table}]
  BY Zenon, <1>1 DEF Tables
<1>4. ASSUME r1.is = r2.is
      PROVE  SameAnswers'
  <2>1. \A b \in DOMAIN answer'.is : answer'.is[b] = r1.is
    BY <1>1, <1>2, <1>4
  <2>2. QED
    BY Zenon, <2>1 DEF SameAnswers, AllEqual
<1>5. QED
  BY Zenon, <1>2, <1>3, <1>4

\* A call to the experiment stores that leaves the same ids, and the same
\* experiments but for those created again.
LEMMA AgreeingExperimentCall ==
  ASSUME StoresInv, NEW r1, NEW r2, NEW key,
         OnExperiments(key, [memory |-> r1, postgres |-> r2]),
         Table(r1.table, ExperimentRow), Table(r2.table, ExperimentRow),
         DOMAIN r2.table = DOMAIN r1.table,
         \A id \in DOMAIN r1.table :
           id \notin duplicated' => r1.table[id] = r2.table[id],
         key \in duplicated' \/ r1.is = r2.is
  PROVE  StoresInv'
<1>1. /\ now' = now + 1
      /\ experiments' = [memory |-> r1.table, postgres |-> r2.table]
      /\ UNCHANGED <<devices, preferences>>
      /\ answer'.key = key
      /\ r1.is = r2.is => SameAnswers'
  BY Zenon, TwoTables
<1>2. SameAnswers'
  BY Zenon, <1>1 DEF SameAnswers
<1>3. SameDevices'
  BY Zenon, <1>1 DEF StoresInv, SameDevices
<1>4. SamePreferences'
  BY Zenon, <1>1 DEF StoresInv, SamePreferences
<1>5. SameExperiments'
  <2> DEFINE t == r1.table
             p == r2.table
  <2>1. /\ Table(t, ExperimentRow) /\ Table(p, ExperimentRow)
        /\ DOMAIN p = DOMAIN t
        /\ \A id \in DOMAIN t \ duplicated' : t[id] = p[id]
        /\ experiments' = [memory |-> t, postgres |-> p]
    BY Zenon, <1>1
  <2> HIDE DEF t, p
  <2>2. QED
    BY Zenon, <2>1 DEF SameExperiments
<1>6. now' \in Nat
  BY <1>1 DEF StoresInv
<1>7. QED
  BY Zenon, <1>2, <1>3, <1>4, <1>5, <1>6 DEF StoresInv

\* CreateExperiment keeps the invariant; an id in use is from then on among
\* the duplicated.
LEMMA CreateExperimentKeeps ==
  ASSUME StoresInv, NEW e \in [id : ExperimentIDs, definition : Definitions],
         CreateExperiment(e)
  PROVE  StoresInv'
<1>1. PICK t, p : /\ Table(t, ExperimentRow) /\ Table(p, ExperimentRow)
                  /\ DOMAIN p = DOMAIN t
                  /\ \A id \in DOMAIN t \ duplicated : t[id] = p[id]
                  /\ experiments = [memory |-> t, postgres |-> p]
  BY Zenon DEF StoresInv, SameExperiments
<1> DEFINE r1 == memoryCreateExperiment(t, e)
           r2 == postgresCreateExperiment(p, e)
           row == [definition |-> e.definition, createdAt |-> now,
                   updatedAt |-> now]
<1>2. experiments.memory = t /\ experiments.postgres = p
  BY Zenon, <1>1
<1>3. /\ OnExperiments(e.id, [memory |-> r1, postgres |-> r2])
      /\ duplicated' = IF e.id \in DOMAIN p THEN duplicated \cup {e.id}
                       ELSE duplicated
  BY Zenon, <1>2 DEF CreateExperiment
<1>4. row \in ExperimentRow
  BY Zenon DEF StoresInv, ExperimentRow
<1>5. r1.table = Put(t, e.id, row) /\ r1.is = "ok"
  BY Zenon DEF memoryCreateExperiment, Result
<1>6. /\ e.id \in DOMAIN p => r2.table = p
      /\ e.id \notin DOMAIN p => r2.table = Put(p, e.id, row) /\ r2.is = "ok"
  BY Zenon DEF postgresCreateExperiment, createExperiment, Result
<1> HIDE DEF r1, r2, row
<1>7. Table(Put(t, e.id, row), ExperimentRow)
      /\ Table(Put(p, e.id, row), ExperimentRow)
  BY Zenon, <1>1, <1>4, PutInTable
<1>8. CASE e.id \in DOMAIN p
  <2>1. DOMAIN r2.table = DOMAIN r1.table
    BY Zenon, <1>1, <1>5, <1>6, <1>8 DEF Put
  <2>2. \A id \in DOMAIN r1.table :
          id \notin duplicated' => r1.table[id] = r2.table[id]
    BY Zenon, <1>1, <1>3, <1>5, <1>6, <1>8 DEF Put
  <2>3. /\ Table(r1.table, ExperimentRow) /\ Table(r2.table, ExperimentRow)
        /\ e.id \in duplicated'
    BY Zenon, <1>1, <1>3, <1>5, <1>6, <1>7, <1>8
  <2>4. QED
    BY Zenon, <1>3, <2>1, <2>2, <2>3, AgreeingExperimentCall
<1>9. CASE e.id \notin DOMAIN p
  <2>1. DOMAIN r2.table = DOMAIN r1.table
    BY Zenon, <1>1, <1>5, <1>6, <1>9 DEF Put
  <2>2. \A id \in DOMAIN r1.table :
          id \notin duplicated' => r1.table[id] = r2.table[id]
    BY <1>1, <1>3, <1>5, <1>6, <1>9 DEF Put
  <2>3. /\ Table(r1.table, ExperimentRow) /\ Table(r2.table, ExperimentRow)
        /\ r1.is = r2.is
    BY Zenon, <1>5, <1>6, <1>7, <1>9
  <2>4. QED
    BY Zenon, <1>3, <2>1, <2>2, <2>3, AgreeingExperimentCall
<1>10. QED
  BY Zenon, <1>8, <1>9

\* UpdateExperiment keeps the invariant.
LEMMA UpdateExperimentKeeps ==
  ASSUME StoresInv, NEW e \in [id : ExperimentIDs, definition : Definitions],
         UpdateExperiment(e)
  PROVE  StoresInv'
<1>1. PICK t, p : /\ Table(t, ExperimentRow) /\ Table(p, ExperimentRow)
                  /\ DOMAIN p = DOMAIN t
                  /\ \A id \in DOMAIN t \ duplicated : t[id] = p[id]
                  /\ experiments = [memory |-> t, postgres |-> p]
  BY Zenon DEF StoresInv, SameExperiments
<1> DEFINE r1 == memoryUpdateExperiment(t, e)
           r2 == postgresUpdateExperiment(p, e)
<1>2. experiments.memory = t /\ experiments.postgres = p
  BY Zenon, <1>1
<1>3. /\ OnExperiments(e.id, [memory |-> r1, postgres |-> r2])
      /\ duplicated' = duplicated
  BY Zenon, <1>2 DEF UpdateExperiment
<1>4. CASE e.id \notin DOMAIN t
  <2>1. r1.table = t /\ r2.table = p /\ r1.is = r2.is
    BY Zenon, <1>1, <1>4 DEF memoryUpdateExperiment, postgresUpdateExperiment,
       Result
  <2> HIDE DEF r1, r2
  <2>2. QED
    BY Zenon, <1>1, <1>3, <2>1, AgreeingExperimentCall
<1>5. CASE e.id \in DOMAIN t
  <2> DEFINE row == [definition |-> e.definition,
                     createdAt |-> t[e.id].createdAt, updatedAt |-> now]
             new == [p[e.id] EXCEPT !.definition = e.definition,
                                    !.updatedAt = now]
  <2>1. t[e.id] \in ExperimentRow /\ p[e.id] \in ExperimentRow /\ now \in Nat
    BY Zenon, <1>1, <1>5 DEF Table, StoresInv
  <2>2. row \in ExperimentRow
    BY Zenon, <2>1 DEF ExperimentRow
  <2>3. /\ new \in ExperimentRow /\ new.definition = e.definition
        /\ new.createdAt = p[e.id].createdAt /\ new.updatedAt = now
    BY Zenon, <2>1 DEF ExperimentRow
  <2>4. e.id \notin duplicated => new = row
    BY Zenon, <1>1, <1>5, <2>2, <2>3, SameExperimentRow
  <2>5. r1.table = Put(t, e.id, row) /\ r1.is = "ok"
    BY Zenon, <1>5 DEF memoryUpdateExperiment, Result
  <2>6. r2.table = [p EXCEPT ![e.id] = new] /\ r2.is = "ok"
    BY Zenon, <1>1, <1>5 DEF postgresUpdateExperiment, updateExperiment, Result
  <2> HIDE DEF r1, r2, row, new
  <2>7. r2.table = Put(p, e.id, new)
    <3>1. e.id \in DOMAIN p
      BY Zenon, <1>1, <1>5
    <3>2. QED
      BY Zenon, <2>6, <3>1, ExceptIsPut
  <2>8. Table(r1.table, ExperimentRow) /\ Table(r2.table, ExperimentRow)
    BY <1>1, <2>2, <2>3, <2>5, <2>7, PutInTable
  <2>9. DOMAIN r2.table = DOMAIN r1.table
    BY Zenon, <1>1, <2>5, <2>7 DEF Put
  <2>10. \A id \in DOMAIN r1.table :
           id \notin duplicated' => r1.table[id] = r2.table[id]
    <3> SUFFICES ASSUME NEW id \in DOMAIN t \cup {e.id},
                        id \notin duplicated
                 PROVE  Put(t, e.id, row)[id] = Put(p, e.id, new)[id]
      BY Zenon, <1>3, <2>5, <2>7 DEF Put
    <3>1. CASE id = e.id
      BY Zenon, <2>4, <3>1 DEF Put
    <3>2. CASE id # e.id
      BY Zenon, <1>1, <3>2 DEF Put
    <3>3. QED
      BY Zenon, <3>1, <3>2
  <2>11. QED
    <3>1. r1.is = r2.is
      BY Zenon, <2>5, <2>6
    <3>2. QED
      BY Zenon, <1>3, <2>8, <2>9, <2>10, <3>1, AgreeingExperimentCall
<1>6. QED
  BY Zenon, <1>4, <1>5

\* DeleteExperiment keeps the invariant.
LEMMA DeleteExperimentKeeps ==
  ASSUME StoresInv, NEW key \in ExperimentIDs, DeleteExperiment(key)
  PROVE  StoresInv'
<1>1. PICK t, p : /\ Table(t, ExperimentRow) /\ Table(p, ExperimentRow)
                  /\ DOMAIN p = DOMAIN t
                  /\ \A id \in DOMAIN t \ duplicated : t[id] = p[id]
                  /\ experiments = [memory |-> t, postgres |-> p]
  BY Zenon DEF StoresInv, SameExperiments
<1> DEFINE r1 == memoryDeleteExperiment(t, key)
           r2 == postgresDeleteExperiment(p, key)
<1>2. experiments.memory = t /\ experiments.postgres = p
  BY Zenon, <1>1
<1>3. /\ OnExperiments(key, [memory |-> r1, postgres |-> r2])
      /\ duplicated' = duplicated \ {key}
  BY Zenon, <1>2 DEF DeleteExperiment
<1>4. /\ r1.table = Without(t, key) /\ r2.table = Without(p, key)
      /\ r1.is = "ok" /\ r2.is = "ok"
  BY Zenon DEF memoryDeleteExperiment, postgresDeleteExperiment, Result
<1> HIDE DEF r1, r2
<1>5. Table(Without(t, key), ExperimentRow)
      /\ Table(Without(p, key), ExperimentRow)
  BY Zenon, <1>1, WithoutInTable
<1>6. DOMAIN r2.table = DOMAIN r1.table
  BY Zenon, <1>1, <1>4 DEF Without, Restrict
<1>7. \A id \in DOMAIN r1.table :
        id \notin duplicated' => r1.table[id] = r2.table[id]
  BY Zenon, <1>1, <1>3, <1>4 DEF Without, Restrict
<1>8. QED
  BY Zenon, <1>3, <1>4, <1>5, <1>6, <1>7, AgreeingExperimentCall

\* StoresInv is an invariant of the stores.
LEMMA StoresInvHolds == SpecStores => []StoresInv
<1>1. InitStores => StoresInv
  <2> SUFFICES ASSUME InitStores
               PROVE  StoresInv
    BY Zenon
  <2> USE DEF InitStores
  <2>1. DOMAIN NoRows = {} /\ \A rows : Table(NoRows, rows)
    BY Zenon DEF NoRows, Table
  <2> HIDE DEF NoRows
  <2>2. SameDevices
    BY Zenon, <2>1 DEF SameDevices
  <2>3. SamePreferences
    <3>1. Mirrors(NoRows, NoRows)
      BY Zenon, <2>1 DEF Mirrors
    <3>2. QED
      BY Zenon, <2>1, <3>1 DEF SamePreferences
  <2>4. SameExperiments
    BY Zenon, <2>1 DEF SameExperiments
  <2>5. SameAnswers
    <3>1. answer.is = [memory |-> "ok"]
      BY Zenon
    <3> HIDE DEF InitStores
    <3>2. \A b \in DOMAIN answer.is : answer.is[b] = "ok"
      BY <3>1
    <3>3. QED
      BY Zenon, <3>2 DEF SameAnswers, AllEqual
  <2>6. QED
    BY Zenon, <2>2, <2>3, <2>4, <2>5 DEF StoresInv
<1>2. StoresInv /\ [NextStores]_storeVars => StoresInv'
  <2> SUFFICES ASSUME StoresInv, [NextStores]_storeVars
               PROVE  StoresInv'
    BY Zenon
  <2>1. CASE UNCHANGED storeVars
    BY Zenon, <2>1 DEF storeVars, StoresInv, SameDevices, SamePreferences,
       SameExperiments, SameAnswers
  <2>2. QED
    BY Zenon, <2>1, DeviceCallsKeep, SavePreferencesKeeps,
       CreateExperimentKeeps,
       UpdateExperimentKeeps, DeleteExperimentKeeps DEF NextStores
<1>3. QED
  BY <1>1, <1>2, PTL DEF SpecStores

\* Equal tables give the same active devices.
LEMMA SameActiveDevices ==
  ASSUME NEW t
  PROVE  /\ \A user : /\ postgresGetActiveDevices(t, user)
                           = memoryGetActiveDevices(t, user)
                      /\ mongoGetActiveDevices(t, user)
                           = memoryGetActiveDevices(t, user)
         /\ \A anon : /\ postgresGetActiveDevicesByAnonymousID(t, anon)
                           = memoryGetActiveDevicesByAnonymousID(t, anon)
                      /\ mongoGetActiveDevicesByAnonymousID(t, anon)
                           = memoryGetActiveDevicesByAnonymousID(t, anon)
         /\ \A users : /\ postgresGetActiveDevicesBatch(t, users)
                            = memoryGetActiveDevicesBatch(t, users)
                       /\ mongoGetActiveDevicesBatch(t, users)
                            = memoryGetActiveDevicesBatch(t, users)
<1>1. ASSUME NEW users
      PROVE  {f \in DOMAIN t : t[f].active /\ t[f].owner.user \in users}
               = {f \in DOMAIN t : t[f].owner.user \in users /\ t[f].active}
  BY Zenon
<1>2. ASSUME NEW users
      PROVE  /\ postgresGetActiveDevicesBatch(t, users)
                  = memoryGetActiveDevicesBatch(t, users)
             /\ mongoGetActiveDevicesBatch(t, users)
                  = memoryGetActiveDevicesBatch(t, users)
  BY Zenon, <1>1 DEF memoryGetActiveDevicesBatch,
     postgresGetActiveDevicesBatch,
     mongoGetActiveDevicesBatch, getActiveDevicesByUserIDs
<1>3. QED
  BY Zenon, <1>2 DEF memoryGetActiveDevices, postgresGetActiveDevices,
     mongoGetActiveDevices, getActiveDevicesByUserID,
     memoryGetActiveDevicesByAnonymousID,
     postgresGetActiveDevicesByAnonymousID,
     mongoGetActiveDevicesByAnonymousID, getActiveDevicesByAnonymousID

\* toPreferences makes of the stored pairs the map they were made from.
LEMMA SettingsRoundTrip ==
  ASSUME NEW doc \in PreferencesDoc, NEW row \in PreferencesRow,
         Keeps(doc, row)
  PROVE  /\ toPreferences(doc).global = row.global
         /\ toPreferences(doc).settings.on = row.settings.on
         /\ AsRead(toPreferences(doc)) = AsRead(row)
<1> DEFINE s == row.settings
           pairs == {<<x, s.on[x]>> : x \in DOMAIN s.on}
           on == [x \in {q[1] : q \in pairs} |->
                    (CHOOSE q \in pairs : q[1] = x)[2]]
<1>1. doc.settings = pairs /\ doc.global = row.global
  BY Zenon DEF Keeps, settingsToMongo
<1>2. {q[1] : q \in pairs} = DOMAIN s.on
  <2>1. \A x \in DOMAIN s.on : \E q \in pairs : q[1] = x
    <3> SUFFICES ASSUME NEW x \in DOMAIN s.on
                 PROVE  \E q \in pairs : q[1] = x
      BY Zenon
    <3>1. <<x, s.on[x]>> \in pairs /\ <<x, s.on[x]>>[1] = x
      BY Zenon
    <3> HIDE DEF pairs
    <3>2. QED
      BY Zenon, <3>1
  <2>2. \A q \in pairs : q[1] \in DOMAIN s.on
    OBVIOUS
  <2> HIDE DEF pairs
  <2>3. QED
    BY Zenon, <2>1, <2>2
<1>3. ASSUME NEW x \in DOMAIN s.on
      PROVE  (CHOOSE q \in pairs : q[1] = x)[2] = s.on[x]
  <2>1. \A q \in pairs : q[1] = x => q = <<x, s.on[x]>>
    OBVIOUS
  <2>2. <<x, s.on[x]>> \in pairs
    BY Zenon
  <2> HIDE DEF pairs
  <2>3. <<x, s.on[x]>>[1] = x /\ <<x, s.on[x]>>[2] = s.on[x]
    BY Zenon
  <2>4. \E q : q \in pairs /\ q[1] = x
    BY Zenon, <2>2, <2>3
  <2>5. PICK c : c = CHOOSE q \in pairs : q[1] = x
    BY Zenon
  <2>6. c \in pairs /\ c[1] = x
    BY Zenon, <2>4, <2>5
  <2>7. QED
    BY Zenon, <2>1, <2>3, <2>5, <2>6
<1>4. on = s.on
  <2>1. on = [x \in DOMAIN s.on |-> s.on[x]]
    <3> DEFINE keys == {q[1] : q \in pairs}
               value(x) == (CHOOSE q \in pairs : q[1] = x)[2]
    <3>1. on = [x \in keys |-> value(x)]
      BY Zenon
    <3>2. keys = DOMAIN s.on /\ \A x \in DOMAIN s.on : value(x) = s.on[x]
      BY Zenon, <1>2, <1>3
    <3> HIDE DEF on, keys, value, s
    <3>3. [x \in DOMAIN s.on |-> value(x)] = [x \in DOMAIN s.on |-> s.on[x]]
      BY Zenon, <3>2
    <3>4. QED
      BY Zenon, <3>1, <3>2, <3>3
  <2>2. s.on \in [DOMAIN s.on -> BOOLEAN]
    BY Zenon, StoresAssumption DEF PreferencesRow
  <2> HIDE DEF on, s
  <2>3. s.on = [x \in DOMAIN s.on |-> s.on[x]]
    BY Zenon, <2>2
  <2>4. QED
    BY Zenon, <2>1, <2>3
<1> DEFINE p == toPreferences(doc)
           new == [nil |-> FALSE, on |-> on]
<1>5. p = [doc EXCEPT !.settings = new]
  <2> DEFINE map(S) == [x \in {q[1] : q \in S} |->
                          (CHOOSE q \in S : q[1] = x)[2]]
  <2>1. p = [doc EXCEPT !.settings = [nil |-> FALSE, on |-> map(doc.settings)]]
    BY Zenon DEF toPreferences
  <2>2. on = map(pairs)
    BY Zenon
  <2> HIDE DEF map, on, pairs, p
  <2>3. QED
    BY Zenon, <1>1, <2>1, <2>2
<1> HIDE DEF on, s, pairs
<1>6. new.on = row.settings.on
  BY Zenon, <1>4 DEF s
<1> HIDE DEF new
<1>7. /\ p \in [global : BOOLEAN, settings : {new}, createdAt : Nat,
                updatedAt : Nat]
      /\ p.global = row.global /\ p.settings = new
      /\ p.createdAt = row.createdAt /\ p.updatedAt = row.updatedAt
  BY Zenon, <1>5 DEF PreferencesDoc, Keeps
<1> HIDE DEF p
<1>8. AsRead(p) = AsRead(row)
  <2> DEFINE Read == [global : BOOLEAN, settings : {row.settings.on},
                      createdAt : Nat, updatedAt : Nat]
  <2>1. /\ AsRead(p) \in Read
        /\ AsRead(p).global = row.global
        /\ AsRead(p).createdAt = row.createdAt
        /\ AsRead(p).updatedAt = row.updatedAt
    BY Zenon, <1>6, <1>7 DEF AsRead
  <2>2. /\ AsRead(row) \in Read
        /\ AsRead(row).global = row.global
        /\ AsRead(row).createdAt = row.createdAt
        /\ AsRead(row).updatedAt = row.updatedAt
    BY Zenon DEF AsRead, PreferencesRow
  <2>3. ASSUME NEW x \in Read, NEW y \in Read, x.global = y.global,
               x.createdAt = y.createdAt, x.updatedAt = y.updatedAt
        PROVE  x = y
    BY <2>3
  <2>4. QED
    BY Zenon, <2>1, <2>2, <2>3
<1>9. QED
  BY Zenon, <1>6, <1>7, <1>8 DEF p

\* Stores with one table of devices answer every query alike.
LEMMA DevicesDoAgree ==
  ASSUME SameDevices
  PROVE  DevicesAgree
<1>1. PICK t : devices = [memory |-> t, postgres |-> t, mongo |-> t]
  BY Zenon DEF SameDevices
<1>2. devices.memory = t /\ devices.postgres = t /\ devices.mongo = t
      /\ \A b \in DOMAIN devices : devices[b] = t
  BY <1>1
<1>3. AllEqual({devices[b] : b \in DOMAIN devices})
  BY Zenon, <1>2 DEF AllEqual
<1>4. ASSUME NEW x, NEW y, NEW z, x = y, x = z
      PROVE  AllEqual({x, y, z})
  BY Zenon, <1>4 DEF AllEqual
<1>5. QED
  BY Zenon, <1>2, <1>3, <1>4, SameActiveDevices DEF DevicesAgree

\* Stores with the same preferences, in Mongo's form or not, answer every
\* query alike.
LEMMA PreferencesDoAgree ==
  ASSUME SamePreferences
  PROVE  PreferencesAgree
<1>1. PICK t, m : /\ Table(t, PreferencesRow) /\ Table(m, PreferencesDoc)
                  /\ Mirrors(m, t)
                  /\ preferences = [memory |-> t, postgres |-> t, mongo |-> m]
  BY Zenon DEF SamePreferences
<1>2. /\ preferences.memory = t /\ preferences.postgres = t
      /\ preferences.mongo = m
      /\ \A b \in DOMAIN preferences : preferences[b] = t \/ preferences[b] = m
  BY <1>1
<1>3. AllEqual({DOMAIN preferences[b] : b \in DOMAIN preferences})
  BY Zenon, <1>1, <1>2 DEF AllEqual, Mirrors
<1>4. ASSUME NEW user \in DOMAIN t
      PROVE  /\ toPreferences(m[user]).global = t[user].global
             /\ toPreferences(m[user]).settings.on = t[user].settings.on
             /\ AsRead(toPreferences(m[user])) = AsRead(t[user])
  <2>1. /\ m[user] \in PreferencesDoc /\ t[user] \in PreferencesRow
        /\ Keeps(m[user], t[user])
    BY Zenon, <1>1, <1>4 DEF Table, Mirrors
  <2>2. QED
    BY Zenon, <2>1, SettingsRoundTrip
<1>5. ASSUME NEW user \in Users, NEW type \in Types
      PROVE  AllEqual({memoryIsEventTypeEnabled(preferences.memory, user, type),
                       postgresIsEventTypeEnabled(preferences.postgres, user,
                                                  type),
                       mongoIsEventTypeEnabled(preferences.mongo, user, type)})
  <2>1. memoryIsEventTypeEnabled(t, user, type)
          = postgresIsEventTypeEnabled(t, user, type)
    BY Zenon DEF memoryIsEventTypeEnabled, postgresIsEventTypeEnabled,
       memoryGetPreferences, postgresGetPreferences
  <2>2. user \in DOMAIN t =>
          (EventTypeEnabled(toPreferences(m[user]), type)
             <=> EventTypeEnabled(t[user], type))
    BY Zenon, <1>4 DEF EventTypeEnabled
  <2>3. memoryIsEventTypeEnabled(t, user, type)
          = mongoIsEventTypeEnabled(m, user, type)
    BY Zenon, <1>1, <2>2 DEF memoryIsEventTypeEnabled, mongoIsEventTypeEnabled,
       memoryGetPreferences, mongoGetPreferences, Mirrors
  <2>4. QED
    BY Zenon, <1>2, <2>1, <2>3 DEF AllEqual
<1>6. ASSUME NEW user \in DOMAIN preferences.memory
      PROVE  AllEqual({AsRead(memoryGetPreferences(preferences.memory, user)),
                       AsRead(postgresGetPreferences(preferences.postgres,
                                                     user)),
                       AsRead(mongoGetPreferences(preferences.mongo, user))})
  <2>1. AsRead(toPreferences(m[user])) = AsRead(t[user])
    BY Zenon, <1>2, <1>4
  <2>2. QED
    BY Zenon, <1>2, <2>1 DEF AllEqual, memoryGetPreferences,
       postgresGetPreferences, mongoGetPreferences
<1>7. QED
  BY Zenon, <1>3, <1>5, <1>6 DEF PreferencesAgree

\* Stores with the same experiments, but for the duplicated, answer every
\* query alike.
LEMMA ExperimentsDoAgree ==
  ASSUME SameExperiments
  PROVE  ExperimentsAgree
<1>1. PICK t, p : /\ DOMAIN p = DOMAIN t
                  /\ \A id \in DOMAIN t \ duplicated : t[id] = p[id]
                  /\ experiments = [memory |-> t, postgres |-> p]
  BY Zenon DEF SameExperiments
<1>2. experiments.memory = t /\ experiments.postgres = p
  BY Zenon, <1>1
<1> DEFINE undisputed(list) == {x \in list : x[1] \notin duplicated}
           ours == {<<id, t[id]>> : id \in DOMAIN t}
           theirs == {<<id, p[id]>> : id \in DOMAIN t}
<1>3. undisputed(ours) = undisputed(theirs)
  <2>1. ASSUME NEW x \in ours, x[1] \notin duplicated
        PROVE  x \in theirs
    BY <1>1, <2>1
  <2>2. ASSUME NEW x \in theirs, x[1] \notin duplicated
        PROVE  x \in ours
    BY <1>1, <2>2
  <2> HIDE DEF ours, theirs
  <2>3. QED
    BY Zenon, <2>1, <2>2
<1>4. /\ memoryListExperiments(experiments.memory) = ours
      /\ postgresListExperiments(experiments.postgres) = theirs
  BY Zenon, <1>1, <1>2 DEF memoryListExperiments, postgresListExperiments
<1> HIDE DEF ours, theirs
<1>5. QED
  BY Zenon, <1>3, <1>4 DEF ExperimentsAgree

(***************************************************************************)
(* The backends of a store can be exchanged, for any installation ids,     *)
(* owners, preferences and experiments and any number of calls: they hold  *)
(* the same rows and answer every query alike, GetPreferences included, as *)
(* long as nil settings are read as empty ones, and but for the            *)
(* experiments created again.  The invariant says more than BackendsAgree: *)
(* what MongoDB keeps of the settings is the set of pairs of the map that  *)
(* the others keep.                                                        *)
(***************************************************************************)
THEOREM BackendsAgreeHolds == SpecStores => []BackendsAgree
<1>1. StoresInv => BackendsAgree
  BY Zenon, DevicesDoAgree, PreferencesDoAgree, ExperimentsDoAgree
  DEF StoresInv, BackendsAgree, SameAnswers
<1>2. QED
  BY <1>1, StoresInvHolds, PTL
=============================================================================
