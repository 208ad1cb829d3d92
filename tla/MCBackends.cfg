SPECIFICATION Spec
CONSTANTS
  FIDs = {"f1", "f2", "bad"}
  ValidFIDs = {"f1", "f2"}
  Owners <- MCOwners
  Users = {"u1", ""}
  Types = {"t1", "t2"}
  Settings <- MCSettings
  ExperimentIDs = {"e1"}
  Definitions = {"d1", "d2"}
  MaxCalls = 4
  Postgres = {"p1", "p2"}
  Mongo = {"m"}
  Redis = {"r"}
  Publishers = {"k"}
  Consumers = {"c"}
  Producers = {"e"}
  Given = {"g"}
  Operations = {"o1", "o2"}
  MaxHandles = 2
  Readers = {"c1", "c2"}
  Preferences <- MCPreferences
  None = None
  Day = 4
  MaxSaves = 2
  Builders = {b1, b2}
  Locales = {"en", "de"}
  Fallback = "en"
  Default = "en"
  Templates = {t1, t2, bad}
  Malformed = {bad}
  Missing = Missing
  Calls = {"c1", "c2"}
  Waiters = {"c2"}
  Replicas = {"a"}
  Home <- MCOneHome
  Limits <- MCLimits
  MaxRate = 1
  MaxBurst = 2
  Second = 3
  Grain = 3
  KeyTTL = 7
  MaxTime = 7
  MaxAdvance = 1
  MaxBack = 1
  MaxEvals = 4
  Assigners = {a1, a2}
  UserID <- MCUserID
  ExperimentID <- MCExperimentID
  Weightings <- MCWeightings
  Uint32 = 4
INVARIANT BackendsAgree
INVARIANT NothingLeaks
INVARIANT GivenStaysOpen
INVARIANT PanicOnlyInRace
INVARIANT FreshUnlessRaced
INVARIANT DecisionFollowsPreferences
INVARIANT RenderedIsRegistered
INVARIANT GrantsBounded
INVARIANT OneEvalAfterStop
INVARIANT PickProportional
INVARIANT VariantStable
INVARIANT AnnouncedOnce
PROPERTY CacheConverges
CHECK_DEADLOCK FALSE
