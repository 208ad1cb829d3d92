------------------------------- MODULE Stores -------------------------------
(***************************************************************************)
(* The device, preferences and experiment stores, in memory (memory.go),   *)
(* in Postgres (with the queries of internal/postgresdb) and in MongoDB,   *)
(* driven in step: each call goes to every backend of its store, and the   *)
(* backends' tables and answers are compared.  Backends are reachable and  *)
(* open here; Connections has how they are opened and closed.              *)
(*                                                                         *)
(* A table is a function from the keys it holds to its rows.  Fields that  *)
(* every backend stores and returns alike (platform, names, quiet hours)   *)
(* are left out; the clock counts calls, which are further apart than the  *)
(* microsecond that Postgres and the millisecond that MongoDB keep.        *)
(***************************************************************************)
EXTENDS Naturals, Functions

CONSTANTS
  FIDs, ValidFIDs,  \* installation ids, and those validFID accepts
  Owners,           \* [user, anon]: a user's device or an anonymous one's
  Users,            \* user ids, "" among them
  Types,            \* event types
  Settings,         \* EventTypeSettings: [nil, on], on from types to BOOLEAN
  ExperimentIDs, Definitions,
  MaxCalls          \* bound: calls

\* A nil map has no entries.
ASSUME StoresAssumption ==
  \A s \in Settings :
    /\ s.nil \in BOOLEAN
    /\ s.on \in [DOMAIN s.on -> BOOLEAN]
    /\ DOMAIN s.on \subseteq Types
    /\ s.nil => DOMAIN s.on = {}

VARIABLES
  devices, preferences, experiments,  \* per backend, its table
  answer,      \* the last call: its key, and the answer of each backend
  now,         \* time.Now
  duplicated   \* history: experiments that were created when they existed

storeVars == <<devices, preferences, experiments, answer, now, duplicated>>

Put(table, key, row) ==
  [k \in DOMAIN table \cup {key} |-> IF k = key THEN row ELSE table[k]]
Without(table, key) == Restrict(table, DOMAIN table \ {key})
Result(table, is) == [table |-> table, is |-> is]

-----------------------------------------------------------------------------
(* Devices *)

Validate(d) == d.fid \in ValidFIDs

memorySaveDevice(t, d) ==
  IF ~Validate(d) THEN Result(t, "ErrInvalidFID")
  ELSE Result(Put(t, d.fid,
                  [owner |-> d.owner, active |-> TRUE, updatedAt |-> now,
                   createdAt |-> IF d.fid \in DOMAIN t THEN t[d.fid].createdAt
                                 ELSE now]), "ok")

memoryMarkInvalid(t, fid) ==
  Result(IF fid \in DOMAIN t
         THEN [t EXCEPT ![fid] = [@ EXCEPT !.active = FALSE, !.updatedAt = now]]
         ELSE t, "ok")

memoryDeleteDevice(t, fid) == Result(Without(t, fid), "ok")

memoryGetActiveDevices(t, user) ==
  {f \in DOMAIN t : t[f].owner.user = user /\ t[f].active}

memoryGetActiveDevicesBatch(t, users) ==
  LET active == {f \in DOMAIN t : t[f].active /\ t[f].owner.user \in users}
  IN  [u \in {t[f].owner.user : f \in active} |->
         {f \in active : t[f].owner.user = u}]

memoryGetActiveDevicesByAnonymousID(t, anon) ==
  {f \in DOMAIN t : t[f].owner.anon = anon /\ t[f].active}

\* Mutant: ON CONFLICT DO UPDATE leaves is_active out.
upsertDeviceInactive(t, d) ==
  IF d.fid \in DOMAIN t
  THEN [t EXCEPT ![d.fid] = [@ EXCEPT !.owner = d.owner, !.updatedAt = now]]
  ELSE Put(t, d.fid, [owner |-> d.owner, active |-> TRUE,
                      createdAt |-> now, updatedAt |-> now])

\* INSERT ... ON CONFLICT (fid) DO UPDATE.
upsertDevice(t, d) ==
  IF d.fid \in DOMAIN t
  THEN [t EXCEPT ![d.fid] = [@ EXCEPT !.owner = d.owner, !.active = TRUE,
                                      !.updatedAt = now]]
  ELSE Put(t, d.fid, [owner |-> d.owner, active |-> TRUE,
                      createdAt |-> now, updatedAt |-> now])

\* UPDATE ... WHERE fid = $1.
markDeviceInvalid(t, fid) ==
  [f \in DOMAIN t |->
     IF f = fid THEN [t[f] EXCEPT !.active = FALSE, !.updatedAt = now]
     ELSE t[f]]

deleteDevice(t, fid) == Without(t, fid)

getActiveDevicesByUserID(t, user) ==
  {f \in DOMAIN t : t[f].owner.user = user /\ t[f].active}

getActiveDevicesByUserIDs(t, users) ==
  {f \in DOMAIN t : t[f].owner.user \in users /\ t[f].active}

getActiveDevicesByAnonymousID(t, anon) ==
  {f \in DOMAIN t : t[f].owner.anon = anon /\ t[f].active}

postgresSaveDevice(t, d) ==
  IF ~Validate(d) THEN Result(t, "ErrInvalidFID")
  ELSE Result(upsertDevice(t, d), "ok")

\* Here and in DeleteDevice, no row is no error.
postgresMarkInvalid(t, fid) == Result(markDeviceInvalid(t, fid), "ok")

postgresDeleteDevice(t, fid) == Result(deleteDevice(t, fid), "ok")

postgresGetActiveDevices(t, user) == getActiveDevicesByUserID(t, user)

postgresGetActiveDevicesBatch(t, users) ==
  LET rows == getActiveDevicesByUserIDs(t, users)
  IN  [u \in {t[f].owner.user : f \in rows} |->
         {f \in rows : t[f].owner.user = u}]

postgresGetActiveDevicesByAnonymousID(t, anon) ==
  getActiveDevicesByAnonymousID(t, anon)

\* The document with the fields of set, and those of doc that set leaves out.
Over(set, doc) ==
  [field \in DOMAIN set \cup DOMAIN doc |->
     IF field \in DOMAIN set THEN set[field] ELSE doc[field]]

\* UpdateOne with upsert: $set over the document there is or an empty one,
\* $setOnInsert under it.
Upserted(t, key, set, setOnInsert) ==
  Put(t, key, Over(set, IF key \in DOMAIN t THEN t[key] ELSE setOnInsert))

mongoSaveDevice(t, d) ==
  IF ~Validate(d) THEN Result(t, "ErrInvalidFID")
  ELSE Result(Upserted(t, d.fid, [owner |-> d.owner, active |-> TRUE,
                                  updatedAt |-> now],
                       [createdAt |-> now]), "ok")

mongoMarkInvalid(t, fid) ==
  Result(IF fid \in DOMAIN t
         THEN Put(t, fid, Over([active |-> FALSE, updatedAt |-> now], t[fid]))
         ELSE t, "ok")

mongoDeleteDevice(t, fid) == Result(Without(t, fid), "ok")

mongoGetActiveDevices(t, user) ==
  {f \in DOMAIN t : t[f].owner.user = user /\ t[f].active}

mongoGetActiveDevicesBatch(t, users) ==
  LET docs == {f \in DOMAIN t : t[f].owner.user \in users /\ t[f].active}
  IN  [u \in {t[f].owner.user : f \in docs} |->
         {f \in docs : t[f].owner.user = u}]

mongoGetActiveDevicesByAnonymousID(t, anon) ==
  {f \in DOMAIN t : t[f].owner.anon = anon /\ t[f].active}

-----------------------------------------------------------------------------
(* Preferences *)

memorySavePreferences(t, p) ==
  IF p.user = "" THEN Result(t, "ErrPreferencesUserIDRequired")
  ELSE Result(Put(t, p.user,
                  [global |-> p.global, settings |-> p.settings,
                   createdAt |-> IF p.user \in DOMAIN t
                                 THEN t[p.user].createdAt ELSE now,
                   updatedAt |-> now]), "ok")

memoryGetPreferences(t, user) == t[user]

upsertPreferences(t, p) ==
  IF p.user \in DOMAIN t
  THEN [t EXCEPT ![p.user] = [@ EXCEPT !.global = p.global,
                                       !.settings = p.settings,
                                       !.updatedAt = now]]
  ELSE Put(t, p.user, [global |-> p.global, settings |-> p.settings,
                       createdAt |-> now, updatedAt |-> now])

\* JSON: a nil map is null, and null is read back as a nil map.
postgresSavePreferences(t, p) ==
  IF p.user = "" THEN Result(t, "ErrPreferencesUserIDRequired")
  ELSE Result(upsertPreferences(t, p), "ok")

postgresGetPreferences(t, user) == t[user]

\* The stored array has a pair for every setting, and none for a nil map.
settingsToMongo(s) == {<<type, s.on[type]>> : type \in DOMAIN s.on}

mongoSavePreferences(t, p) ==
  IF p.user = "" THEN Result(t, "ErrPreferencesUserIDRequired")
  ELSE Result(Upserted(t, p.user,
                       [global |-> p.global, updatedAt |-> now,
                        settings |-> settingsToMongo(p.settings)],
                       [createdAt |-> now]), "ok")

\* toPreferences: the map is made anew from the pairs, and is never nil.
toPreferences(doc) ==
  [doc EXCEPT !.settings =
     [nil |-> FALSE,
      on |-> [type \in {s[1] : s \in doc.settings} |->
                (CHOOSE s \in doc.settings : s[1] = type)[2]]]]

mongoGetPreferences(t, user) == toPreferences(t[user])

\* NotificationPreferences.IsEventTypeEnabled
EventTypeEnabled(p, type) ==
  p.global /\ (type \in DOMAIN p.settings.on => p.settings.on[type])

\* An unconfigured user is opted in.
memoryIsEventTypeEnabled(t, user, type) ==
  user \in DOMAIN t => EventTypeEnabled(memoryGetPreferences(t, user), type)

postgresIsEventTypeEnabled(t, user, type) ==
  user \in DOMAIN t => EventTypeEnabled(postgresGetPreferences(t, user), type)

mongoIsEventTypeEnabled(t, user, type) ==
  user \in DOMAIN t => EventTypeEnabled(mongoGetPreferences(t, user), type)

-----------------------------------------------------------------------------
(* Experiments, in memory and in Postgres *)

\* Whatever is there is replaced.
memoryCreateExperiment(t, e) ==
  Result(Put(t, e.id, [definition |-> e.definition, createdAt |-> now,
                       updatedAt |-> now]), "ok")

memoryUpdateExperiment(t, e) ==
  IF e.id \notin DOMAIN t THEN Result(t, "ErrExperimentNotFound")
  ELSE Result(Put(t, e.id, [definition |-> e.definition,
                            createdAt |-> t[e.id].createdAt,
                            updatedAt |-> now]), "ok")

memoryDeleteExperiment(t, id) == Result(Without(t, id), "ok")

memoryListExperiments(t) == {<<id, t[id]>> : id \in DOMAIN t}

createExperiment(t, e) ==
  Put(t, e.id, [definition |-> e.definition, createdAt |-> now,
                updatedAt |-> now])

updateExperiment(t, e) ==
  [t EXCEPT ![e.id] = [@ EXCEPT !.definition = e.definition,
                                !.updatedAt = now]]

\* A unique violation is ErrExperimentAlreadyExists.
postgresCreateExperiment(t, e) ==
  IF e.id \in DOMAIN t THEN Result(t, "ErrExperimentAlreadyExists")
  ELSE Result(createExperiment(t, e), "ok")

\* UPDATE ... WHERE id = $1; no row is ErrExperimentNotFound.
postgresUpdateExperiment(t, e) ==
  IF e.id \notin DOMAIN t THEN Result(t, "ErrExperimentNotFound")
  ELSE Result(updateExperiment(t, e), "ok")

postgresDeleteExperiment(t, id) == Result(Without(t, id), "ok")

postgresListExperiments(t) == {<<id, t[id]>> : id \in DOMAIN t}

-----------------------------------------------------------------------------
NoRows == [key \in {} |-> {}]

InitStores ==
  /\ devices = [memory |-> NoRows, postgres |-> NoRows, mongo |-> NoRows]
  /\ preferences = [memory |-> NoRows, postgres |-> NoRows, mongo |-> NoRows]
  /\ experiments = [memory |-> NoRows, postgres |-> NoRows]
  /\ answer = [key |-> "", is |-> [memory |-> "ok"]]
  /\ now = 0
  /\ duplicated = {}

Tables(results) == [b \in DOMAIN results |-> results[b].table]

Called(key, results) ==
  /\ now < MaxCalls
  /\ now' = now + 1
  /\ answer' = [key |-> key, is |-> [b \in DOMAIN results |-> results[b].is]]

OnDevices(key, results) ==
  /\ Called(key, results)
  /\ devices' = Tables(results)
  /\ UNCHANGED <<preferences, experiments, duplicated>>

SaveDevice(d) ==
  OnDevices(d.fid, [memory |-> memorySaveDevice(devices.memory, d),
                    postgres |-> postgresSaveDevice(devices.postgres, d),
                    mongo |-> mongoSaveDevice(devices.mongo, d)])

MarkInvalid(fid) ==
  OnDevices(fid, [memory |-> memoryMarkInvalid(devices.memory, fid),
                  postgres |-> postgresMarkInvalid(devices.postgres, fid),
                  mongo |-> mongoMarkInvalid(devices.mongo, fid)])

DeleteDevice(fid) ==
  OnDevices(fid, [memory |-> memoryDeleteDevice(devices.memory, fid),
                  postgres |-> postgresDeleteDevice(devices.postgres, fid),
                  mongo |-> mongoDeleteDevice(devices.mongo, fid)])

SavePreferences(p) ==
  LET results == [memory |-> memorySavePreferences(preferences.memory, p),
                  postgres |-> postgresSavePreferences(preferences.postgres, p),
                  mongo |-> mongoSavePreferences(preferences.mongo, p)]
  IN  /\ Called(p.user, results)
      /\ preferences' = Tables(results)
      /\ UNCHANGED <<devices, experiments, duplicated>>

OnExperiments(key, results) ==
  /\ Called(key, results)
  /\ experiments' = Tables(results)
  /\ UNCHANGED <<devices, preferences>>

CreateExperiment(e) ==
  /\ OnExperiments(e.id,
       [memory |-> memoryCreateExperiment(experiments.memory, e),
        postgres |-> postgresCreateExperiment(experiments.postgres, e)])
  /\ duplicated' = IF e.id \in DOMAIN experiments.postgres
                   THEN duplicated \cup {e.id} ELSE duplicated

UpdateExperiment(e) ==
  /\ OnExperiments(e.id,
       [memory |-> memoryUpdateExperiment(experiments.memory, e),
        postgres |-> postgresUpdateExperiment(experiments.postgres, e)])
  /\ UNCHANGED duplicated

DeleteExperiment(id) ==
  /\ OnExperiments(id,
       [memory |-> memoryDeleteExperiment(experiments.memory, id),
        postgres |-> postgresDeleteExperiment(experiments.postgres, id)])
  /\ duplicated' = duplicated \ {id}

NextStores ==
  \/ \E d \in [fid : FIDs, owner : Owners] : SaveDevice(d)
  \/ \E fid \in FIDs : MarkInvalid(fid) \/ DeleteDevice(fid)
  \/ \E p \in [user : Users, global : BOOLEAN, settings : Settings] :
       SavePreferences(p)
  \/ \E e \in [id : ExperimentIDs, definition : Definitions] :
       CreateExperiment(e) \/ UpdateExperiment(e)
  \/ \E id \in ExperimentIDs : DeleteExperiment(id)

SpecStores == InitStores /\ [][NextStores]_storeVars

-----------------------------------------------------------------------------
AllEqual(S) == \A x, y \in S : x = y

DevicesAgree ==
  /\ AllEqual({devices[b] : b \in DOMAIN devices})
  /\ \A owner \in Owners :
       /\ AllEqual({memoryGetActiveDevices(devices.memory, owner.user),
                    postgresGetActiveDevices(devices.postgres, owner.user),
                    mongoGetActiveDevices(devices.mongo, owner.user)})
       /\ AllEqual(
            {memoryGetActiveDevicesByAnonymousID(devices.memory, owner.anon),
             postgresGetActiveDevicesByAnonymousID(devices.postgres, owner.anon),
             mongoGetActiveDevicesByAnonymousID(devices.mongo, owner.anon)})
  /\ LET users == {owner.user : owner \in Owners}
     IN  AllEqual({memoryGetActiveDevicesBatch(devices.memory, users),
                   postgresGetActiveDevicesBatch(devices.postgres, users),
                   mongoGetActiveDevicesBatch(devices.mongo, users)})

\* The preferences as Go reads them: a lookup in a nil map and a loop over it
\* find what they find in an empty one.
AsRead(p) == [p EXCEPT !.settings = p.settings.on]

PreferencesAgree ==
  /\ AllEqual({DOMAIN preferences[b] : b \in DOMAIN preferences})
  /\ \A user \in DOMAIN preferences.memory :
       AllEqual({AsRead(memoryGetPreferences(preferences.memory, user)),
                 AsRead(postgresGetPreferences(preferences.postgres, user)),
                 AsRead(mongoGetPreferences(preferences.mongo, user))})
  /\ \A user \in Users, type \in Types :
       AllEqual({memoryIsEventTypeEnabled(preferences.memory, user, type),
                 postgresIsEventTypeEnabled(preferences.postgres, user, type),
                 mongoIsEventTypeEnabled(preferences.mongo, user, type)})

ExperimentsAgree ==
  LET undisputed(list) == {x \in list : x[1] \notin duplicated}
  IN  undisputed(memoryListExperiments(experiments.memory)) =
        undisputed(postgresListExperiments(experiments.postgres))

\* The backends of a store can be exchanged ("behaves exactly as
\* NewPostgresPreferencesStore does", preferences.mongo.go): after any
\* sequence of calls they hold the same rows, with the same times, and answer
\* every call alike, with two exceptions.  CreateExperiment with an id in use
\* Postgres refuses and the memory store takes as a replacement: until it is
\* deleted, that experiment is left out.  And GetPreferences of MongoDB makes
\* an empty map of nil settings, where the other two return nil: the answers
\* are compared as they read, and do not tell nil from empty.
BackendsAgree ==
  /\ DevicesAgree
  /\ PreferencesAgree
  /\ ExperimentsAgree
  /\ answer.key \notin duplicated =>
       AllEqual({answer.is[b] : b \in DOMAIN answer.is})
=============================================================================
