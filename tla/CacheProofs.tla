---------------------------- MODULE CacheProofs -----------------------------
(***************************************************************************)
(* The caches that are filled while their source changes, the preferences  *)
(* cache of PreferencesFilter, the compiled templates of Localization and  *)
(* the assignments of Experiments, for any number of goroutines, of        *)
(* preferences, of templates and of experiment definitions; and the        *)
(* decision that is taken on what the first one gives.                     *)
(***************************************************************************)
EXTENDS PreferencesFilter, Localization, Experiments, FiniteSetTheorems,
        WellFoundedInduction, TLAPS

-----------------------------------------------------------------------------
(* The preferences cache *)

\* What a reader is about to fill in is what is stored, unless a save came
\* after its load.
FillsFresh ==
  \A c \in Readers :
    reader[c].pc = "fill" /\ reader[c].prefs # stored => overlapped

Reader == [pc : {"idle", "get", "load", "fill", "decide", "decided"},
           prefs : Preferences \cup {None},
           decision : {"none", "send", "skip"},
           now : 0 .. Day - 1]

FilterType ==
  /\ stored \in Preferences \cup {None}
  /\ cached \in [prefs : Preferences \cup {None}, expires : BOOLEAN] \cup {None}
  /\ save \in [pc : {"idle", "invalidate"}, saves : Nat]
  /\ reader \in [Readers -> Reader]
  /\ faulted \in BOOLEAN
  /\ overlapped \in BOOLEAN

\* A reader at rest is well typed.
LEMMA ReadyType == Ready \in Reader
BY FilterAssumption DEF Ready, Reader

\* A step of one reader.
LEMMA ReaderMoves ==
  ASSUME FilterType, NEW c \in Readers, NEW r \in Reader,
         reader' = [reader EXCEPT ![c] = r]
  PROVE  /\ reader' \in [Readers -> Reader]
         /\ reader'[c] = r
         /\ \A d \in Readers : d # c => reader'[d] = reader[d]
BY Zenon DEF FilterType

\* ShouldSendNotification, and GetPreferences that misses.
LEMMA ReaderGoesOn ==
  ASSUME FilterType, NEW c \in Readers,
         NEW pc \in {"get", "load"}, reader' = [reader EXCEPT ![c].pc = pc]
  PROVE  /\ reader' \in [Readers -> Reader]
         /\ reader'[c].pc = pc
         /\ \A d \in Readers : d # c => reader'[d] = reader[d]
<1> DEFINE r == [reader[c] EXCEPT !.pc = pc]
<1>1. reader[c] \in Reader
  BY Zenon DEF FilterType
<1>2. r \in Reader /\ r.pc = pc
  BY Zenon, <1>1 DEF Reader
<1>3. reader' = [reader EXCEPT ![c] = r]
  BY Zenon
<1> HIDE DEF r
<1> QED
  BY Zenon, <1>2, <1>3, ReaderMoves

\* A reader that loads the stored preferences.
LEMMA ReaderLoads ==
  ASSUME FilterType, NEW c \in Readers,
         reader' = [reader EXCEPT ![c] =
                      [@ EXCEPT !.pc = "fill", !.prefs = stored]]
  PROVE  /\ reader' \in [Readers -> Reader]
         /\ reader'[c].pc = "fill" /\ reader'[c].prefs = stored
         /\ \A d \in Readers : d # c => reader'[d] = reader[d]
<1> DEFINE r == [reader[c] EXCEPT !.pc = "fill", !.prefs = stored]
<1>1. reader[c] \in Reader /\ stored \in Preferences \cup {None}
  BY Zenon DEF FilterType
<1>2. r \in Reader /\ r.pc = "fill" /\ r.prefs = stored
  BY Zenon, <1>1 DEF Reader
<1>3. reader' = [reader EXCEPT ![c] = r]
  BY Zenon
<1> HIDE DEF r
<1> QED
  BY Zenon, <1>2, <1>3, ReaderMoves

\* A reader that has its answer.
LEMMA ReaderGot ==
  ASSUME FilterType, NEW c \in Readers, NEW prefs \in Preferences \cup {None},
         Got(c, prefs)
  PROVE  /\ reader' \in [Readers -> Reader]
         /\ reader'[c].pc = "decide"
         /\ \A d \in Readers : d # c => reader'[d] = reader[d]
<1> DEFINE r == [Ready EXCEPT !.pc = "decide", !.prefs = prefs]
<1>1. r \in Reader /\ r.pc = "decide"
  BY Zenon, ReadyType DEF Reader
<1>2. reader' = [reader EXCEPT ![c] = r]
  BY Zenon DEF Got
<1> HIDE DEF r
<1> QED
  BY Zenon, <1>1, <1>2, ReaderMoves

\* A reader that decides.
LEMMA ReaderDecides ==
  ASSUME FilterType, NEW c \in Readers, Decide(c)
  PROVE  /\ reader' \in [Readers -> Reader]
         /\ reader'[c].pc = "decided"
         /\ reader'[c].prefs = reader[c].prefs
         /\ reader'[c].now \in 0 .. Day - 1
         /\ reader[c].prefs # None =>
              reader'[c].now < Day - reader[c].prefs.quiet.zone.skip
         /\ reader'[c].decision = Decision(reader[c].prefs, reader'[c].now)
         /\ \A d \in Readers : d # c => reader'[d] = reader[d]
<1>1. PICK now \in 0 .. Day - 1 :
        /\ reader[c].prefs # None =>
             now < Day - reader[c].prefs.quiet.zone.skip
        /\ reader' = [reader EXCEPT ![c] =
             [@ EXCEPT !.pc = "decided", !.now = now,
                       !.decision = Decision(reader[c].prefs, now)]]
  BY Zenon DEF Decide
<1> DEFINE d == Decision(reader[c].prefs, now)
           r == [reader[c] EXCEPT !.pc = "decided", !.now = now,
                                  !.decision = d]
<1>2. d \in {"send", "skip"}
  BY Zenon DEF Decision
<1>3. reader[c] \in Reader
  BY Zenon DEF FilterType
<1>4. reader' = [reader EXCEPT ![c] = r]
  BY Zenon, <1>1
<1> HIDE DEF d
<1>5. /\ r \in Reader /\ r.pc = "decided" /\ r.prefs = reader[c].prefs
      /\ r.now = now /\ r.decision = d
  BY Zenon, <1>2, <1>3 DEF Reader
<1>6. reader[c].prefs # None => now < Day - reader[c].prefs.quiet.zone.skip
  BY Zenon, <1>1
<1> HIDE DEF r
<1> QED
  BY Zenon, <1>4, <1>5, <1>6, ReaderMoves DEF d

\* Every step of readers, savers and the cache keeps the types.
LEMMA FilterTypeNext == FilterType /\ [NextFilter]_filterVars => FilterType'
<1> SUFFICES ASSUME FilterType, [NextFilter]_filterVars PROVE FilterType'
  BY Zenon
<1> USE DEF FilterType
<1>1. ASSUME NEW c \in Readers, ShouldSendNotification(c) PROVE FilterType'
  BY Zenon, <1>1, ReaderGoesOn DEF ShouldSendNotification
<1>2. ASSUME NEW c \in Readers, GetCached(c) PROVE FilterType'
  <2>1. CASE cached # None /\ Got(c, cached.prefs)
    <3>1. cached.prefs \in Preferences \cup {None}
      BY Zenon, <2>1
    <3> QED
      BY Zenon, <1>2, <2>1, <3>1, ReaderGot DEF GetCached
  <2>2. CASE reader' = [reader EXCEPT ![c].pc = "load"]
    BY Zenon, <1>2, <2>2, ReaderGoesOn DEF GetCached
  <2> QED
    BY Zenon, <1>2, <2>1, <2>2 DEF GetCached
<1>3. ASSUME NEW c \in Readers, Load(c) PROVE FilterType'
  <2>1. CASE Got(c, None)
    BY Zenon, <1>3, <2>1, ReaderGot DEF Load
  <2>2. CASE reader' = [reader EXCEPT ![c] =
                          [@ EXCEPT !.pc = "fill", !.prefs = stored]]
    BY Zenon, <1>3, <2>2, ReaderLoads DEF Load
  <2> QED
    BY Zenon, <1>3, <2>1, <2>2 DEF Load
<1>4. ASSUME NEW c \in Readers, Fill(c) PROVE FilterType'
  <2>1. reader[c].prefs \in Preferences \cup {None} /\ Got(c, reader[c].prefs)
    BY Zenon, <1>4 DEF Fill, Reader
  <2>2. reader' \in [Readers -> Reader]
    BY Zenon, <2>1, ReaderGot
  <2>3. cached' \in [prefs : Preferences \cup {None}, expires : BOOLEAN]
                      \cup {None}
    <3>1. CASE UNCHANGED cached
      BY Zenon, <3>1
    <3>2. CASE cached' = [prefs |-> reader[c].prefs, expires |-> TRUE]
      <4> DEFINE p == reader[c].prefs
      <4>1. /\ p \in Preferences \cup {None}
            /\ cached' = [prefs |-> p, expires |-> TRUE]
        BY Zenon, <2>1, <3>2
      <4> HIDE DEF p
      <4> QED
        BY Zenon, <4>1
    <3> QED
      BY Zenon, <1>4, <3>1, <3>2 DEF Fill
  <2> QED
    BY Zenon, <1>4, <2>2, <2>3 DEF Fill
<1>5. ASSUME NEW c \in Readers, Decide(c) PROVE FilterType'
  BY Zenon, <1>5, ReaderDecides DEF Decide
<1>6. ASSUME NEW c \in Readers, ReturnDecision(c) PROVE FilterType'
  BY Zenon, <1>6, ReadyType DEF ReturnDecision
<1>7. ASSUME NEW prefs \in Preferences, Save(prefs) PROVE FilterType'
  BY <1>7 DEF Save
<1>8. CASE Invalidate
  BY Zenon, <1>8 DEF Invalidate
<1>9. CASE Expire
  BY Zenon, <1>9 DEF Expire
<1>10. CASE UNCHANGED filterVars
  BY Zenon, <1>10 DEF filterVars
<1> QED
  BY Zenon, <1>1, <1>2, <1>3, <1>4, <1>5, <1>6, <1>7, <1>8, <1>9, <1>10
     DEF NextFilter, FilterStep

FInv == FilterType /\ FillsFresh /\ FreshUnlessRaced

\* The invariant holds initially.
LEMMA FilterInit == InitFilter => FInv
<1> SUFFICES ASSUME InitFilter PROVE FInv
  BY Zenon
<1>1. FilterType
  BY Zenon, ReadyType DEF InitFilter, FilterType
<1>2. FillsFresh
  BY Zenon DEF InitFilter, FillsFresh, Ready
<1>3. FreshUnlessRaced
  BY Zenon DEF InitFilter, FreshUnlessRaced
<1> QED
  BY Zenon, <1>1, <1>2, <1>3 DEF FInv

\* Every step keeps it.
LEMMA FilterNext == FInv /\ [NextFilter]_filterVars => FInv'
<1> SUFFICES ASSUME FInv, [NextFilter]_filterVars PROVE FInv'
  BY Zenon
<1>0. FilterType /\ FilterType'
  BY Zenon, FilterTypeNext DEF FInv
<1>a. ASSUME NEW c \in Readers, UNCHANGED <<stored, overlapped>>,
             reader'[c].pc = "fill" => reader'[c].prefs = stored,
             \A d \in Readers : d # c => reader'[d] = reader[d]
      PROVE  FillsFresh'
  BY Zenon, <1>a DEF FInv, FillsFresh
<1> USE <1>0 DEF FInv
<1>1. ASSUME NEW c \in Readers, ShouldSendNotification(c) PROVE FInv'
  BY Zenon, <1>1, <1>a, ReaderGoesOn DEF ShouldSendNotification,
     FreshUnlessRaced
<1>2. ASSUME NEW c \in Readers, GetCached(c) PROVE FInv'
  <2>1. CASE cached # None /\ Got(c, cached.prefs)
    <3>1. cached.prefs \in Preferences \cup {None}
      BY Zenon, <2>1 DEF FilterType
    <3> QED
      BY Zenon, <1>2, <1>a, <2>1, <3>1, ReaderGot DEF GetCached,
         FreshUnlessRaced
  <2>2. CASE reader' = [reader EXCEPT ![c].pc = "load"]
    BY Zenon, <1>2, <1>a, <2>2, ReaderGoesOn DEF GetCached, FreshUnlessRaced
  <2> QED
    BY Zenon, <1>2, <2>1, <2>2 DEF GetCached
<1>3. ASSUME NEW c \in Readers, Load(c) PROVE FInv'
  BY Zenon, <1>3, <1>a, ReaderGot, ReaderLoads DEF Load, FreshUnlessRaced
<1>4. ASSUME NEW c \in Readers, Fill(c) PROVE FInv'
  <2>1. reader[c].prefs \in Preferences \cup {None}
    BY Zenon DEF FilterType, Reader
  <2>2. FillsFresh'
    BY Zenon, <1>4, <1>a, <2>1, ReaderGot DEF Fill
  <2>3. FreshUnlessRaced'
    BY <1>4 DEF Fill, FillsFresh, FreshUnlessRaced
  <2> QED
    BY Zenon, <2>2, <2>3
<1>5. ASSUME NEW c \in Readers, Decide(c) PROVE FInv'
  BY Zenon, <1>5, <1>a, ReaderDecides DEF Decide, FreshUnlessRaced
<1>6. ASSUME NEW c \in Readers, ReturnDecision(c) PROVE FInv'
  <2>1. /\ reader'[c].pc = "idle"
        /\ \A d \in Readers : d # c => reader'[d] = reader[d]
    BY Zenon, <1>6 DEF ReturnDecision, FilterType, Ready
  <2> QED
    BY Zenon, <1>6, <1>a, <2>1 DEF ReturnDecision, FreshUnlessRaced
<1>7. ASSUME NEW prefs \in Preferences, Save(prefs) PROVE FInv'
  BY Zenon, <1>7 DEF Save, FillsFresh, FreshUnlessRaced
<1>8. CASE Invalidate
  BY Zenon, <1>8 DEF Invalidate, FillsFresh, FreshUnlessRaced
<1>9. CASE Expire
  BY Zenon, <1>9 DEF Expire, FillsFresh, FreshUnlessRaced
<1>10. CASE UNCHANGED filterVars
  BY Zenon, <1>10 DEF filterVars, FillsFresh, FreshUnlessRaced
<1> QED
  BY Zenon, <1>1, <1>2, <1>3, <1>4, <1>5, <1>6, <1>7, <1>8, <1>9, <1>10
     DEF NextFilter, FilterStep

\* A stale entry outlives the save only if the invalidation failed or a save
\* came between the load and the fill of a GetPreferences.
THEOREM FreshUnlessRacedHolds == SpecFilter => []FreshUnlessRaced
<1>1. FInv => FreshUnlessRaced
  BY Zenon DEF FInv
<1> QED
  BY <1>1, FilterInit, FilterNext, PTL DEF SpecFilter

-----------------------------------------------------------------------------
(* The decision *)

Times == 0 .. Day - 1

\* The remainder of a difference of two times of day.
LEMMA Remainder ==
  ASSUME NEW s \in Times, NEW t \in Times
  PROVE  (t - s) % Day = IF s <= t THEN t - s ELSE t - s + Day
BY FilterAssumption DEF Times

\* The two cases of isWithinQuietHours are one window of the circle.
LEMMA WindowOnCircle ==
  ASSUME NEW s \in Times, NEW e \in Times, NEW t \in Times
  PROVE  (IF s < e THEN s <= t /\ t < e ELSE s # e /\ (s <= t \/ t < e))
           <=> (t - s) % Day < (e - s) % Day
<1>1. (t - s) % Day = IF s <= t THEN t - s ELSE t - s + Day
  BY Zenon, Remainder
<1>2. (e - s) % Day = IF s <= e THEN e - s ELSE e - s + Day
  BY Zenon, Remainder
<1> QED
  BY <1>1, <1>2, FilterAssumption DEF Times

\* The clock of the zone shows the time of day t that day: it is not one of
\* those that the clock skips.
ClockShows(zone, t) == t < zone.at \/ zone.at + zone.skip <= t

\* If the clock shows both ends of a window, isWithinQuietHours decides as the
\* window on the circle does, on the day of a change of the clocks too.
LEMMA QuietHoursAgree ==
  ASSUME NEW prefs \in Preferences, NEW now \in Times,
         now < Day - prefs.quiet.zone.skip,
         ClockShows(prefs.quiet.zone, prefs.quiet.start),
         ClockShows(prefs.quiet.zone, prefs.quiet.end)
  PROVE  isWithinQuietHours(prefs.quiet, now)
           <=> InQuietHours(prefs.quiet, now)
<1> DEFINE q == prefs.quiet
           at == q.zone.at
           skip == q.zone.skip
           s == q.start
           e == q.end
           wall == IF now < at THEN now ELSE now + skip
<1>1. /\ at \in Nat /\ skip \in Nat
      /\ s \in Times \cup {Unparsed} /\ e \in Times \cup {Unparsed}
  BY FilterAssumption DEF Times, Zone
<1>2. CASE s = Unparsed \/ e = Unparsed
  BY Zenon, <1>2 DEF isWithinQuietHours, InQuietHours
<1>3. CASE s \in Times /\ e \in Times
  <2> DEFINE ds == Date(q.zone, s)
             de == Date(q.zone, e)
  <2>1. /\ ds = IF s < at THEN s ELSE s - skip
        /\ de = IF e < at THEN e ELSE e - skip
        /\ s < at \/ at + skip <= s
        /\ e < at \/ at + skip <= e
    BY <1>1, <1>3, FilterAssumption DEF Date, ClockShows, Times
  <2>2. wall \in Times
    BY <1>1, FilterAssumption DEF Times
  <2>3. (IF s < e THEN s <= wall /\ wall < e
         ELSE s # e /\ (s <= wall \/ wall < e))
          <=> (wall - s) % Day < (e - s) % Day
    BY <1>3, <2>2, WindowOnCircle
  <2>4. InQuietHours(q, now)
          <=> q.on /\ (wall - s) % Day < (e - s) % Day
    BY <1>3, FilterAssumption DEF InQuietHours, Times, Unparsed
  <2>5. isWithinQuietHours(q, now)
          <=> q.on /\ IF ds < de THEN ds <= now /\ now < de
                      ELSE ds # de /\ (ds <= now \/ now < de)
    BY <1>3, FilterAssumption DEF isWithinQuietHours, Times, Unparsed
  <2>6. /\ ds <= now <=> s <= wall
        /\ now < de <=> wall < e
        /\ ds < de <=> s < e
        /\ ds = de <=> s = e
    <3> HIDE DEF q, at, skip, s, e, ds, de
    <3>1. at \in Int /\ skip \in Nat /\ s \in Int /\ e \in Int /\ now \in Int
      BY <1>1, <1>3, FilterAssumption DEF Times
    <3> QED
      BY <2>1, <3>1
  <2> HIDE DEF ds, de, wall, s, e
  <2> QED
    BY Zenon, <2>3, <2>4, <2>5, <2>6
<1> QED
  BY Zenon, <1>1, <1>2, <1>3

\* A decision is the one of the preferences and the time it was taken on, a
\* time that the day has.
DecidedRight ==
  \A c \in Readers : reader[c].pc = "decided" =>
    /\ reader[c].decision = Decision(reader[c].prefs, reader[c].now)
    /\ reader[c].prefs # None =>
         reader[c].now < Day - reader[c].prefs.quiet.zone.skip

\* No step changes a decision that has been taken.
LEMMA DecisionNext ==
  FilterType /\ DecidedRight /\ [NextFilter]_filterVars => DecidedRight'
<1> SUFFICES ASSUME FilterType, DecidedRight, [NextFilter]_filterVars
             PROVE  DecidedRight'
  BY Zenon
<1>1. ASSUME NEW c \in Readers, Decide(c) PROVE DecidedRight'
  <2>1. /\ reader'[c].decision = Decision(reader'[c].prefs, reader'[c].now)
        /\ reader'[c].prefs # None =>
             reader'[c].now < Day - reader'[c].prefs.quiet.zone.skip
        /\ \A d \in Readers : d # c => reader'[d] = reader[d]
    BY Zenon, <1>1, ReaderDecides
  <2> QED
    BY Zenon, <2>1 DEF DecidedRight
<1>2. ASSUME NEW c \in Readers, reader'[c].pc # "decided",
             \A d \in Readers : d # c => reader'[d] = reader[d]
      PROVE  DecidedRight'
  BY Zenon, <1>2 DEF DecidedRight
<1>3. CASE UNCHANGED reader
  BY Zenon, <1>3 DEF DecidedRight
<1>4. ASSUME NEW c \in Readers, ShouldSendNotification(c) \/ Load(c)
      PROVE  DecidedRight'
  BY Zenon, <1>2, <1>4, ReaderGoesOn, ReaderGot, ReaderLoads
     DEF ShouldSendNotification, Load
<1>5. ASSUME NEW c \in Readers, GetCached(c) \/ Fill(c)
      PROVE  DecidedRight'
  <2>1. /\ reader[c].prefs \in Preferences \cup {None}
        /\ cached # None => cached.prefs \in Preferences \cup {None}
    BY Zenon DEF FilterType, Reader
  <2> QED
    BY Zenon, <1>2, <1>5, <2>1, ReaderGoesOn, ReaderGot DEF GetCached, Fill
<1>6. ASSUME NEW c \in Readers, ReturnDecision(c)
      PROVE  DecidedRight'
  BY Zenon, <1>2, <1>6 DEF ReturnDecision, FilterType, Ready
<1> QED
  BY Zenon, <1>1, <1>3, <1>4, <1>5, <1>6
     DEF NextFilter, FilterStep, Save, Invalidate, Expire, filterVars

\* The decisions of every reachable state.
LEMMA DecidedRightHolds == SpecFilter => [](FilterType /\ DecidedRight)
<1>1. InitFilter => FilterType /\ DecidedRight
  BY FilterInit DEF FInv, InitFilter, DecidedRight, Ready
<1> QED
  BY <1>1, FilterTypeNext, DecisionNext, PTL DEF SpecFilter

\* What DecisionFollowsPreferences says of days without a change of the
\* clocks, said of every window both ends of which the clock shows.
DecisionFollowsClock ==
  \A c \in Readers :
    LET prefs == reader[c].prefs
    IN  reader[c].pc = "decided" =>
          IF prefs = None THEN reader[c].decision = "send"
          ELSE /\ ClockShows(prefs.quiet.zone, prefs.quiet.start)
               /\ ClockShows(prefs.quiet.zone, prefs.quiet.end)
               => (reader[c].decision = "skip"
                     <=> \/ ~prefs.enabled
                         \/ InQuietHours(prefs.quiet, reader[c].now))

\* A change of the clocks confuses only the windows that begin or end in the
\* time that is skipped: for all others ShouldSendNotification decides by the
\* local time of day, before and after the change.
THEOREM DecisionFollowsClockHolds == SpecFilter => []DecisionFollowsClock
<1>1. FilterType /\ DecidedRight => DecisionFollowsClock
  <2> SUFFICES ASSUME FilterType, DecidedRight,
                      NEW c \in Readers, reader[c].pc = "decided",
                      NEW prefs, prefs = reader[c].prefs
               PROVE  IF prefs = None THEN reader[c].decision = "send"
                      ELSE /\ ClockShows(prefs.quiet.zone, prefs.quiet.start)
                           /\ ClockShows(prefs.quiet.zone, prefs.quiet.end)
                           => (reader[c].decision = "skip"
                                 <=> \/ ~prefs.enabled
                                     \/ InQuietHours(prefs.quiet, reader[c].now))
    BY Zenon DEF DecisionFollowsClock
  <2>1. /\ reader[c].decision = Decision(prefs, reader[c].now)
        /\ prefs # None => reader[c].now < Day - prefs.quiet.zone.skip
    BY Zenon DEF DecidedRight
  <2>2. reader[c].now \in Times /\ (prefs # None => prefs \in Preferences)
    BY Zenon DEF FilterType, Reader, Times
  <2>3. CASE prefs = None
    BY Zenon, <2>1, <2>3 DEF Decision
  <2>4. ASSUME prefs # None,
               ClockShows(prefs.quiet.zone, prefs.quiet.start),
               ClockShows(prefs.quiet.zone, prefs.quiet.end)
        PROVE  reader[c].decision = "skip"
                 <=> \/ ~prefs.enabled
                     \/ InQuietHours(prefs.quiet, reader[c].now)
    <3>1. isWithinQuietHours(prefs.quiet, reader[c].now)
            <=> InQuietHours(prefs.quiet, reader[c].now)
      BY Zenon, <2>1, <2>2, <2>4, QuietHoursAgree
    <3> QED
      BY Zenon, <2>1, <2>4, <3>1 DEF Decision
  <2> QED
    BY Zenon, <2>3, <2>4
<1> QED
  BY <1>1, DecidedRightHolds, PTL

\* On a day without a change of the clocks, ShouldSendNotification skips a
\* user's event if and only if the preferences it read disable it or the time
\* of day lies in their quiet hours on the 24-hour circle.
THEOREM DecisionFollowsPreferencesHolds ==
  SpecFilter => []DecisionFollowsPreferences
<1>1. FilterType /\ DecisionFollowsClock => DecisionFollowsPreferences
  <2> SUFFICES ASSUME FilterType, DecisionFollowsClock
               PROVE  DecisionFollowsPreferences
    BY Zenon
  <2>1. ASSUME NEW c \in Readers, reader[c].prefs # None,
               reader[c].prefs.quiet.zone.skip = 0
        PROVE  /\ ClockShows(reader[c].prefs.quiet.zone,
                             reader[c].prefs.quiet.start)
               /\ ClockShows(reader[c].prefs.quiet.zone,
                             reader[c].prefs.quiet.end)
    <3>1. reader[c].prefs \in Preferences
      BY Zenon, <2>1 DEF FilterType, Reader
    <3> QED
      BY <2>1, <3>1, FilterAssumption DEF ClockShows, Zone, Unparsed
  <2> QED
    BY Zenon, <2>1 DEF DecisionFollowsClock, DecisionFollowsPreferences
<1> QED
  BY <1>1, DecidedRightHolds, DecisionFollowsClockHolds, PTL

\* A window whose start is before its end, and which is longer than the jump
\* of the clock, is not turned around by time.Date.
LEMMA LongWindowsKeepOrder ==
  ASSUME NEW prefs \in Preferences, NEW now \in Times,
         prefs.quiet.start # Unparsed,
         prefs.quiet.end - prefs.quiet.start > prefs.quiet.zone.skip,
         isWithinQuietHours(prefs.quiet, now)
  PROVE  now < prefs.quiet.end + prefs.quiet.zone.skip
<1> DEFINE q == prefs.quiet
<1>1. /\ q.zone.at \in Int /\ q.zone.skip \in Nat
      /\ q.start \in Int /\ q.end \in Int
      /\ q.zone.east \in BOOLEAN
  BY FilterAssumption DEF Zone, Unparsed
<1>2. /\ Date(q.zone, q.start) < Date(q.zone, q.end)
      /\ Date(q.zone, q.end) <= q.end
      /\ Date(q.zone, q.end) \in Int
  BY <1>1 DEF Date
<1>3. now < Date(q.zone, q.end)
  BY Zenon, <1>2 DEF isWithinQuietHours
<1> QED
  BY <1>1, <1>2, <1>3 DEF Times

\* The comment of isWithinQuietHours is right about every window that is
\* longer than the jump of the clock that day, so about all of them on a day
\* without one: nothing is skipped for quiet hours once they are over.
THEOREM LongWindowsWrapAsParsed ==
  ASSUME \A p \in Preferences :
           p.quiet.start # Unparsed /\ p.quiet.start < p.quiet.end =>
             p.quiet.end - p.quiet.start > p.quiet.zone.skip
  PROVE  SpecFilter => []WrapsAsParsed
<1>1. FilterType /\ DecidedRight => WrapsAsParsed
  <2> SUFFICES ASSUME FilterType, DecidedRight, NEW c \in Readers,
                      NEW prefs, prefs = reader[c].prefs,
                      reader[c].pc = "decided", prefs # None,
                      prefs.enabled, reader[c].decision = "skip",
                      prefs.quiet.start < prefs.quiet.end
               PROVE  reader[c].now < prefs.quiet.end + prefs.quiet.zone.skip
    BY Zenon DEF WrapsAsParsed
  <2>1. reader[c].decision = Decision(prefs, reader[c].now)
    BY Zenon DEF DecidedRight
  <2>2. reader[c].now \in Times /\ prefs \in Preferences
    BY Zenon DEF FilterType, Reader, Times
  <2>3. isWithinQuietHours(prefs.quiet, reader[c].now)
    BY Zenon, <2>1 DEF Decision
  <2>4. prefs.quiet.start # Unparsed
    BY Zenon, <2>3 DEF isWithinQuietHours
  <2> QED
    BY Zenon, <2>2, <2>3, <2>4, LongWindowsKeepOrder
<1> QED
  BY <1>1, DecidedRightHolds, PTL

-----------------------------------------------------------------------------
(* The compiled templates *)

\* What a call holds at each step of BuildMessage; a form about to be stored
\* is compiled from what the call looked up.
InBuild(r) ==
  /\ r.pc \in {"idle", "lookup", "compile", "base"} => r.rendered = Missing
  /\ r.pc = "compile" => r.template # Missing
  /\ r.pc = "store" => r.rendered \in Templates \ Malformed
  /\ r.rendered # Missing =>
       r.rendered = r.template /\ r.rendered \notin Malformed

LInv == TypeOKLocalization /\ \A b \in Builders : InBuild(builder[b])

\* The invariant holds initially.
LEMMA LocalizationInit == InitLocalization => LInv
<1> SUFFICES ASSUME InitLocalization PROVE LInv
  BY Zenon
<1>1. Waiting \in Builder /\ InBuild(Waiting)
  BY Zenon, LocalizationAssumption DEF Waiting, Builder, InBuild
<1> QED
  BY Zenon, <1>1 DEF InitLocalization, LInv, TypeOKLocalization

\* A step of one call that leaves the store and the base engine alone.
LEMMA BuilderMoves ==
  ASSUME LInv, NEW b \in Builders, NEW r \in Builder, InBuild(r),
         builder' = [builder EXCEPT ![b] = r],
         compiled' \in [Locales -> (Templates \ Malformed) \cup {Missing}],
         UNCHANGED <<registered, base>>
  PROVE  LInv'
<1>1. /\ builder' \in [Builders -> Builder] /\ builder'[b] = r
      /\ \A d \in Builders : d # b => builder'[d] = builder[d]
  BY Zenon DEF LInv, TypeOKLocalization
<1>2. \A d \in Builders : InBuild(builder'[d])
  BY Zenon, <1>1 DEF LInv
<1> QED
  BY Zenon, <1>1, <1>2 DEF LInv, TypeOKLocalization

\* Every step of BuildMessage and every registration keeps it.
LEMMA LocalizationNext == LInv /\ [NextLocalization]_localizationVars => LInv'
<1> SUFFICES ASSUME LInv, [NextLocalization]_localizationVars PROVE LInv'
  BY Zenon
<1>0. /\ compiled \in [Locales -> (Templates \ Malformed) \cup {Missing}]
      /\ base \in (Templates \ Malformed) \cup {Missing}
      /\ \A b \in Builders : builder[b] \in Builder /\ InBuild(builder[b])
  BY Zenon DEF LInv, TypeOKLocalization
<1>1. ASSUME NEW b \in Builders, ResolveLocale(b) PROVE LInv'
  <2>1. PICK l \in Locales :
          builder' = [builder EXCEPT ![b] =
                        [builder[b] EXCEPT !.pc = "lookup", !.locale = l]]
    BY Zenon, <1>1 DEF ResolveLocale
  <2> DEFINE r == [builder[b] EXCEPT !.pc = "lookup", !.locale = l]
  <2>2. r \in Builder /\ InBuild(r)
    BY Zenon, <1>0, <1>1 DEF ResolveLocale, Builder, InBuild
  <2> HIDE DEF r
  <2> QED
    BY Zenon, <1>0, <1>1, <2>1, <2>2, BuilderMoves DEF ResolveLocale, r
<1>2. ASSUME NEW b \in Builders, Lookup(b) PROVE LInv'
  <2> DEFINE t == GetLocalizedTemplate(builder[b].locale)
             pc == IF t = Missing THEN "base" ELSE "compile"
             r == [builder[b] EXCEPT !.pc = pc, !.template = t]
  <2>1. t \in Templates \cup {Missing}
    BY Zenon, <1>0, LocalizationAssumption
       DEF LInv, TypeOKLocalization, Builder, GetLocalizedTemplate
  <2>2. builder' = [builder EXCEPT ![b] = r]
    BY Zenon, <1>2 DEF Lookup
  <2> HIDE DEF t
  <2>3. r \in Builder /\ InBuild(r)
    BY Zenon, <1>0, <1>2, <2>1 DEF Lookup, Builder, InBuild
  <2> HIDE DEF r
  <2> QED
    BY Zenon, <1>0, <1>2, <2>2, <2>3, BuilderMoves DEF Lookup
<1>3. ASSUME NEW b \in Builders, getCompiled(b) PROVE LInv'
  <2> DEFINE hit == [builder[b] EXCEPT !.pc = "built",
                                       !.rendered = compiled[builder[b].locale]]
             bad == [builder[b] EXCEPT !.pc = "base", !.template = Missing]
             new == [builder[b] EXCEPT !.pc = "store",
                                       !.rendered = builder[b].template]
             r == IF Hit(b) THEN hit
                  ELSE IF builder[b].template \in Malformed THEN bad ELSE new
  <2>1. /\ builder' = [builder EXCEPT ![b] = r]
        /\ UNCHANGED <<registered, compiled, base>>
    BY Zenon, <1>3 DEF getCompiled
  <2>2. Hit(b) => hit \in Builder /\ InBuild(hit)
    BY Zenon, <1>0 DEF Hit, Builder, InBuild
  <2>3. bad \in Builder /\ InBuild(bad)
    BY Zenon, <1>0, <1>3 DEF getCompiled, Builder, InBuild
  <2>4. builder[b].template \notin Malformed /\ ~Hit(b)
          => new \in Builder /\ InBuild(new)
    BY Zenon, <1>0, <1>3 DEF getCompiled, Builder, InBuild
  <2> HIDE DEF hit, bad, new
  <2>5. r \in Builder /\ InBuild(r)
    BY Zenon, <2>2, <2>3, <2>4
  <2> HIDE DEF r
  <2> QED
    BY Zenon, <1>0, <2>1, <2>5, BuilderMoves
<1>4. ASSUME NEW b \in Builders, storeCompiled(b) PROVE LInv'
  <2> DEFINE r == [builder[b] EXCEPT !.pc = "built"]
  <2>1. builder' = [builder EXCEPT ![b] = r]
    BY Zenon, <1>4 DEF storeCompiled
  <2>2. r \in Builder /\ InBuild(r)
    BY Zenon, <1>0, <1>4 DEF storeCompiled, Builder, InBuild
  <2>3. compiled' \in [Locales -> (Templates \ Malformed) \cup {Missing}]
    BY Zenon, <1>0, <1>4 DEF storeCompiled, Builder, InBuild
  <2> HIDE DEF r
  <2> QED
    BY Zenon, <1>4, <2>1, <2>2, <2>3, BuilderMoves DEF storeCompiled
<1>5. ASSUME NEW b \in Builders, baseBuildMessage(b) PROVE LInv'
  <2> DEFINE r == [builder[b] EXCEPT !.pc = "built", !.template = base,
                                     !.rendered = base]
  <2>1. builder' = [builder EXCEPT ![b] = r]
    BY Zenon, <1>5 DEF baseBuildMessage
  <2>2. r \in Builder /\ InBuild(r)
    BY Zenon, <1>0 DEF Builder, InBuild
  <2> HIDE DEF r
  <2> QED
    BY Zenon, <1>0, <1>5, <2>1, <2>2, BuilderMoves DEF baseBuildMessage
<1>6. ASSUME NEW b \in Builders, SendBuilt(b) PROVE LInv'
  <2>1. Waiting \in Builder /\ InBuild(Waiting)
    BY Zenon, LocalizationAssumption DEF Waiting, Builder, InBuild
  <2> QED
    BY Zenon, <1>0, <1>6, <2>1, BuilderMoves DEF SendBuilt
<1>7. ASSUME NEW l \in Locales, NEW t \in Templates,
             RegisterLocalizedTemplate(l, t)
      PROVE  LInv'
  BY Zenon, <1>7 DEF RegisterLocalizedTemplate, LInv, TypeOKLocalization
<1>8. ASSUME NEW t \in Templates, RegisterTemplate(t) PROVE LInv'
  BY Zenon, <1>8 DEF RegisterTemplate, LInv, TypeOKLocalization
<1>9. CASE UNCHANGED localizationVars
  BY Zenon, <1>9 DEF localizationVars, LInv, TypeOKLocalization
<1> QED
  BY Zenon, <1>1, <1>2, <1>3, <1>4, <1>5, <1>6, <1>7, <1>8, <1>9
     DEF NextLocalization

\* A message is rendered from the template its call looked up, never from a
\* malformed one, whatever is registered and stored in the cache meanwhile.
THEOREM RenderedIsRegisteredHolds == SpecLocalization => []RenderedIsRegistered
<1>1. LInv => RenderedIsRegistered
  BY Zenon DEF LInv, InBuild, RenderedIsRegistered
<1> QED
  BY <1>1, LocalizationInit, LocalizationNext, PTL DEF SpecLocalization

-----------------------------------------------------------------------------
(* The experiment engines *)

Pickable == {weights \in Weightings \ {<<>>} : ~Panics(weights)}

\* A variant is what deterministicPick gives for some definition and hash.
Variants ==
  {[of |-> weights, index |-> Pick(h, weights)] :
     weights \in Pickable, h \in 0 .. Uint32 - 1}

Assigner == [pc : {"idle", "assign", "pick", "publish", "panicked"},
             definition : Weightings \cup {<<>>},
             variant : Variants \cup {Unassigned}]

ExperimentType ==
  /\ engine \in {"deterministic", "cache"}
  /\ hash \in [{assignmentKey(UserID, ExperimentID)} -> 0 .. Uint32 - 1]
  /\ definition \in Weightings
  /\ assignment \in Variants \cup {Unassigned}
  /\ assigner \in [Assigners -> Assigner]
  /\ \A a \in Assigners :
       /\ assigner[a].pc \in {"assign", "pick"} =>
            assigner[a].definition \in Weightings \ {<<>>}
       /\ assigner[a].pc = "publish" => assigner[a].variant \in Variants
  /\ announced \in Seq(Variants)
  /\ answers \subseteq Variants
  /\ updated \in BOOLEAN
  /\ disturbed \in BOOLEAN

\* The variants that callers know of: those answered, and those about to be
\* published and then answered.
Known == answers \cup {assigner[a].variant : a \in Publishing}

\* Unless the cache engine was disturbed, callers know of one variant, the
\* assignment, and one caller at most picks, while there is none.
OneAssignment ==
  engine = "deterministic" \/ ~disturbed =>
    /\ \A v \in Known : v = assignment /\ v # Unassigned
    /\ \A a \in Assigners :
         assigner[a].pc = "pick" =>
           /\ engine = "cache"
           /\ assignment = Unassigned
           /\ \A b \in Assigners : assigner[b].pc = "pick" => b = a

\* Until the definition changes, there is one variant to pick.
OneDefinition ==
  ~updated =>
    /\ \A v \in Known : v = Picked(definition)
    /\ assignment = Unassigned \/ assignment = Picked(definition)
    /\ \A a \in Assigners :
         assigner[a].pc \in {"assign", "pick"} =>
           assigner[a].definition = definition

\* The deterministic engine's assignment is announced, or one caller is about
\* to announce it.
OneAnnouncement ==
  engine = "deterministic" =>
    \/ assignment = Unassigned /\ announced = <<>> /\ Publishing = {}
    \/ assignment # Unassigned /\ Len(announced) = 1 /\ Publishing = {}
    \/ /\ assignment # Unassigned /\ announced = <<>>
       /\ \E a \in Assigners : Publishing = {a}

\* What is answered, or may be from the map or the cache, is announced or
\* about to be.
Announcing(v) == Published(v) \/ \E a \in Publishing : assigner[a].variant = v

KnownIsAnnounced ==
  \A v \in Known \cup {assignment} : v = Unassigned \/ Announcing(v)

ExperimentInv ==
  ExperimentType /\ OneAssignment /\ OneDefinition /\ OneAnnouncement
    /\ KnownIsAnnounced

\* What deterministicPick gives is a variant, unless it panics.
LEMMA PickedIsVariant ==
  ASSUME ExperimentType, NEW weights \in Weightings \ {<<>>}, ~Panics(weights)
  PROVE  Picked(weights) \in Variants
<1> DEFINE h == hash[assignmentKey(UserID, ExperimentID)]
<1>1. h \in 0 .. Uint32 - 1
  BY Zenon DEF ExperimentType
<1>2. weights \in Pickable
  BY Zenon DEF Pickable
<1>3. Picked(weights) = [of |-> weights, index |-> Pick(h, weights)]
  BY Zenon DEF Picked
<1> HIDE DEF h
<1> QED
  BY <1>1, <1>2, <1>3 DEF Variants

\* No variant is taken for the lack of one.
LEMMA VariantsAreAssigned == Unassigned \notin Variants
<1> SUFFICES ASSUME NEW weights \in Pickable, NEW h \in 0 .. Uint32 - 1,
                    Unassigned = [of |-> weights, index |-> Pick(h, weights)]
             PROVE  FALSE
  BY DEF Variants
<1>1. Unassigned.of = weights
  BY Zenon
<1>2. QED
  BY Zenon, <1>1 DEF Unassigned, Pickable

\* A step of one caller.
LEMMA AssignerMoves ==
  ASSUME ExperimentType, NEW a \in Assigners, NEW r \in Assigner,
         assigner' = [assigner EXCEPT ![a] = r]
  PROVE  /\ assigner' \in [Assigners -> Assigner]
         /\ assigner'[a] = r
         /\ \A b \in Assigners : b # a => assigner'[b] = assigner[b]
         /\ Publishing' = IF r.pc = "publish" THEN Publishing \cup {a}
                          ELSE Publishing \ {a}
<1>1. /\ assigner' \in [Assigners -> Assigner]
      /\ assigner'[a] = r
      /\ \A b \in Assigners : b # a => assigner'[b] = assigner[b]
  BY Zenon DEF ExperimentType
<1>2. QED
  BY Zenon, <1>1 DEF Publishing

\* A caller that goes on with its variant unchanged, and neither publishes
\* nor did: after Fetch, a miss in the cache or a panic.
LEMMA AssignerGoesOn ==
  ASSUME ExperimentType, NEW a \in Assigners, NEW r \in Assigner,
         assigner' = [assigner EXCEPT ![a] = r],
         assigner[a].pc # "publish", r.pc # "publish", UNCHANGED answers
  PROVE  Publishing' = Publishing /\ Known' = Known
<1>1. a \notin Publishing /\ Publishing' = Publishing
  BY Zenon, AssignerMoves DEF Publishing
<1>2. \A b \in Publishing : assigner'[b] = assigner[b]
  BY Zenon, <1>1, AssignerMoves DEF Publishing
<1>3. QED
  BY Zenon, <1>1, <1>2 DEF Known

\* A caller that is told the assignment.
LEMMA AssignerIsTold ==
  ASSUME ExperimentType, NEW a \in Assigners, NEW v,
         ReturnVariant(a, v), assigner[a].pc # "publish"
  PROVE  Publishing' = Publishing /\ Known' = Known \cup {v}
<1>0. Free \in Assigner /\ Free.pc = "idle"
  BY Zenon DEF Free, Assigner
<1>1. a \notin Publishing /\ Publishing' = Publishing
  BY Zenon, <1>0, AssignerMoves DEF Publishing, ReturnVariant
<1>2. \A b \in Publishing : assigner'[b] = assigner[b]
  BY Zenon, <1>0, <1>1, AssignerMoves DEF Publishing, ReturnVariant
<1>3. QED
  BY Zenon, <1>1, <1>2 DEF Known, ReturnVariant

\* A caller that has picked.
LEMMA AssignerPublishes ==
  ASSUME ExperimentType, NEW a \in Assigners, NEW v \in Variants,
         ToPublish(a, v), assigner[a].pc # "publish"
  PROVE  /\ assigner' \in [Assigners -> Assigner]
         /\ assigner'[a].pc = "publish" /\ assigner'[a].variant = v
         /\ \A b \in Assigners : b # a => assigner'[b] = assigner[b]
         /\ a \notin Publishing
         /\ Publishing' = Publishing \cup {a}
         /\ Known' = Known \cup {v}
<1> DEFINE r == [assigner[a] EXCEPT !.pc = "publish", !.variant = v]
<1>1. assigner[a] \in Assigner
  BY Zenon DEF ExperimentType
<1>2. r \in Assigner /\ r.pc = "publish" /\ r.variant = v
  BY Zenon, <1>1 DEF Assigner
<1>3. assigner' = [assigner EXCEPT ![a] = r]
  BY Zenon DEF ToPublish
<1> HIDE DEF r
<1>4. /\ assigner' \in [Assigners -> Assigner]
      /\ assigner'[a] = r
      /\ \A b \in Assigners : b # a => assigner'[b] = assigner[b]
      /\ Publishing' = Publishing \cup {a}
  BY Zenon, <1>2, <1>3, AssignerMoves
<1>5. a \notin Publishing /\ \A b \in Publishing : b \in Assigners /\ b # a
  BY Zenon DEF Publishing
<1>6. Known' = Known \cup {v}
  BY <1>2, <1>4, <1>5 DEF Known, ToPublish
<1>7. QED
  BY Zenon, <1>2, <1>4, <1>5, <1>6

\* A caller that has published.
LEMMA AssignerHasPublished ==
  ASSUME ExperimentType, NEW a \in Assigners,
         assigner[a].pc = "publish", ReturnVariant(a, assigner[a].variant)
  PROVE  Publishing' = Publishing \ {a} /\ Known' = Known
<1>0. Free \in Assigner /\ Free.pc = "idle"
  BY Zenon DEF Free, Assigner
<1>1. a \in Publishing /\ Publishing' = Publishing \ {a}
  BY Zenon, <1>0, AssignerMoves DEF Publishing, ReturnVariant
<1>2. \A b \in Publishing : b # a => assigner'[b] = assigner[b]
  BY Zenon, <1>0, AssignerMoves DEF Publishing, ReturnVariant
<1>3. QED
  BY Zenon, <1>1, <1>2 DEF Known, ReturnVariant

\* What Picked gives does not change, as the hash of a key does not.
LEMMA SamePicked ==
  ASSUME UNCHANGED <<hash, definition>>
  PROVE  Picked(definition)' = Picked(definition)
BY Zenon DEF Picked

\* A caller goes on without a variant: it has fetched the definition, missed
\* in the cache, or panicked.
LEMMA GoingOnKeeps ==
  ASSUME ExperimentInv, NEW a \in Assigners, NEW r \in Assigner,
         assigner' = [assigner EXCEPT ![a] = r],
         assigner[a].pc # "publish", r.pc # "publish",
         r.pc \in {"assign", "pick"} =>
           /\ r.definition \in Weightings \ {<<>>}
           /\ ~updated => r.definition = definition,
         r.pc = "pick" =>
           /\ engine = "cache"
           /\ ~disturbed' => /\ assignment = Unassigned
                             /\ \A b \in Assigners : assigner[b].pc # "pick",
         disturbed => disturbed', disturbed' \in BOOLEAN,
         UNCHANGED <<engine, hash, definition, assignment, announced, answers,
                     updated>>
  PROVE  ExperimentInv'
<1> USE DEF ExperimentInv
<1>1. Publishing' = Publishing /\ Known' = Known
  BY Zenon, AssignerGoesOn
<1>2. /\ assigner' \in [Assigners -> Assigner]
      /\ assigner'[a] = r
      /\ \A b \in Assigners : b # a => assigner'[b] = assigner[b]
  BY Zenon, AssignerMoves
<1>3. ExperimentType'
  BY Zenon, <1>2 DEF ExperimentType
<1>4. OneAssignment'
  BY <1>1, <1>2, <1>3 DEF OneAssignment, ExperimentType
<1>5. OneDefinition'
  BY Zenon, <1>1, <1>2, SamePicked DEF OneDefinition
<1>6. OneAnnouncement'
  BY Zenon, <1>1 DEF OneAnnouncement
<1>7. KnownIsAnnounced'
  <2>1. \A v : Announcing(v) => Announcing(v)'
    BY Zenon, <1>1, <1>2 DEF Announcing, Published, Publishing
  <2>2. QED
    BY Zenon, <1>1, <2>1 DEF KnownIsAnnounced
<1>8. QED
  BY Zenon, <1>3, <1>4, <1>5, <1>6, <1>7

\* A caller is told the assignment there is.
LEMMA AnswerKeeps ==
  ASSUME ExperimentInv, NEW a \in Assigners, assigner[a].pc = "assign",
         assignment # Unassigned, ReturnVariant(a, assignment),
         UNCHANGED <<engine, hash, definition, assignment, announced, updated,
                     disturbed>>
  PROVE  ExperimentInv'
<1> USE DEF ExperimentInv
<1>1. Publishing' = Publishing /\ Known' = Known \cup {assignment}
  BY Zenon, AssignerIsTold
<1>0. Free \in Assigner /\ Free.pc = "idle"
  BY Zenon DEF Free, Assigner
<1>2. /\ assigner' \in [Assigners -> Assigner]
      /\ assigner'[a].pc = "idle"
      /\ \A b \in Assigners : b # a => assigner'[b] = assigner[b]
  BY Zenon, <1>0, AssignerMoves DEF ReturnVariant
<1>3. ExperimentType'
  BY Zenon, <1>2 DEF ExperimentType, ReturnVariant
<1>4. OneAssignment'
  BY Zenon, <1>1, <1>2 DEF OneAssignment
<1>5. OneDefinition'
  BY Zenon, <1>1, <1>2, SamePicked DEF OneDefinition
<1>6. OneAnnouncement'
  BY Zenon, <1>1 DEF OneAnnouncement
<1>7. KnownIsAnnounced'
  <2>1. \A v : Announcing(v) => Announcing(v)'
    BY Zenon, <1>1, <1>2 DEF Announcing, Published, Publishing
  <2>2. QED
    BY Zenon, <1>1, <2>1 DEF KnownIsAnnounced
<1>8. QED
  BY Zenon, <1>3, <1>4, <1>5, <1>6, <1>7

\* A caller has picked, and its variant becomes the assignment unless the
\* cache was not written.
LEMMA PickKeeps ==
  ASSUME ExperimentInv, NEW a \in Assigners,
         ~Panics(assigner[a].definition),
         ToPublish(a, Picked(assigner[a].definition)),
         \/ /\ engine = "deterministic" /\ assigner[a].pc = "assign"
            /\ assignment = Unassigned
         \/ assigner[a].pc = "pick",
         \/ /\ assignment' = Picked(assigner[a].definition)
            /\ UNCHANGED disturbed
         \/ /\ engine = "cache" /\ disturbed' = TRUE
            /\ UNCHANGED assignment,
         UNCHANGED <<engine, hash, definition, announced, updated>>
  PROVE  ExperimentInv'
<1> USE DEF ExperimentInv
<1>0. PICK v : v = Picked(assigner[a].definition)
  BY Zenon
<1>1. v \in Variants /\ v # Unassigned /\ (~updated => v = Picked(definition))
  BY Zenon, <1>0, PickedIsVariant, VariantsAreAssigned
  DEF ExperimentType, OneDefinition
<1>2. /\ assigner' \in [Assigners -> Assigner]
      /\ assigner'[a].pc = "publish" /\ assigner'[a].variant = v
      /\ \A b \in Assigners : b # a => assigner'[b] = assigner[b]
      /\ Publishing' = Publishing \cup {a}
      /\ Known' = Known \cup {v}
  BY Zenon, <1>0, <1>1, AssignerPublishes
<1>3. \/ assignment' = v /\ UNCHANGED disturbed
      \/ engine = "cache" /\ disturbed' = TRUE /\ UNCHANGED assignment
  BY Zenon, <1>0
<1>4. ExperimentType'
  BY Zenon, <1>1, <1>2, <1>3 DEF ExperimentType, ToPublish
<1>5. OneAssignment'
  <2>1. CASE engine = "cache" /\ disturbed'
    BY Zenon, <2>1, <1>4 DEF OneAssignment, ExperimentType
  <2>2. CASE ~(engine = "cache" /\ disturbed')
    <3>1. engine = "deterministic" \/ ~disturbed
      BY Zenon, <2>2, <1>3 DEF ExperimentType
    <3>2. assignment = Unassigned /\ Known = {}
      BY Zenon, <3>1 DEF OneAssignment
    <3>3. \A b \in Assigners : assigner'[b].pc # "pick"
      BY Zenon, <3>1, <1>2 DEF OneAssignment
    <3>4. assignment' = v
      BY Zenon, <2>2, <1>3
    <3>5. QED
      BY Zenon, <3>2, <3>3, <3>4, <1>1, <1>2 DEF OneAssignment
  <2>3. QED
    BY Zenon, <2>1, <2>2
<1>6. OneDefinition'
  BY Zenon, <1>1, <1>2, <1>3, SamePicked DEF OneDefinition
<1>7. OneAnnouncement'
  <2> SUFFICES ASSUME engine = "deterministic"
               PROVE  OneAnnouncement'
    BY Zenon DEF OneAnnouncement
  <2>1. assignment = Unassigned /\ assignment' = v
    BY Zenon, <1>3 DEF OneAssignment
  <2>2. announced = <<>> /\ Publishing = {}
    BY Zenon, <2>1 DEF OneAnnouncement
  <2>3. announced' = <<>> /\ Publishing' = {a}
    BY Zenon, <2>2, <1>2
  <2>4. QED
    BY Zenon, <2>1, <2>3, <1>1 DEF OneAnnouncement
<1>8. KnownIsAnnounced'
  <2>1. \A w : Announcing(w) => Announcing(w)'
    BY Zenon, <1>2 DEF Announcing, Published, Publishing
  <2>2. Announcing(v)'
    BY Zenon, <1>2 DEF Announcing
  <2>3. QED
    BY Zenon, <1>2, <1>3, <2>1, <2>2 DEF KnownIsAnnounced
<1>9. QED
  BY Zenon, <1>4, <1>5, <1>6, <1>7, <1>8

\* A caller has published its variant.
LEMMA PublishKeeps ==
  ASSUME ExperimentInv, NEW a \in Assigners, PublishAssigned(a)
  PROVE  ExperimentInv'
<1> USE DEF ExperimentInv
<1>0. PICK v : v = assigner[a].variant
  BY Zenon
<1>1. v \in Variants /\ v \in Known /\ a \in Publishing
  BY Zenon, <1>0 DEF PublishAssigned, ExperimentType, Known, Publishing
<1>2. Publishing' = Publishing \ {a} /\ Known' = Known
  BY Zenon, AssignerHasPublished DEF PublishAssigned
<1>3. Free \in Assigner /\ Free.pc = "idle"
  BY Zenon DEF Free, Assigner
<1>4. /\ assigner' \in [Assigners -> Assigner]
      /\ assigner'[a].pc = "idle"
      /\ \A b \in Assigners : b # a => assigner'[b] = assigner[b]
  BY Zenon, <1>3, AssignerMoves DEF ReturnVariant, PublishAssigned
<1>5. /\ UNCHANGED <<engine, hash, definition, assignment, updated, disturbed>>
      /\ answers' = answers \cup {v}
      /\ \/ announced' = announced /\ Published(v) /\ engine = "cache"
         \/ announced' = Append(announced, v)
  BY Zenon, <1>0 DEF PublishAssigned, ReturnVariant
<1>6. ExperimentType'
  <2>1. announced' \in Seq(Variants)
    BY <1>1, <1>5 DEF ExperimentType
  <2>2. QED
    BY Zenon, <2>1, <1>1, <1>4, <1>5 DEF ExperimentType
<1>7. OneAssignment'
  BY Zenon, <1>2, <1>4, <1>5 DEF OneAssignment
<1>8. OneDefinition'
  BY Zenon, <1>2, <1>4, <1>5, SamePicked DEF OneDefinition
<1>9. OneAnnouncement'
  <2> SUFFICES ASSUME engine = "deterministic"
               PROVE  OneAnnouncement'
    BY Zenon, <1>5 DEF OneAnnouncement
  <2>1. assignment # Unassigned /\ announced = <<>> /\ Publishing = {a}
    BY Zenon, <1>1 DEF OneAnnouncement
  <2>2. Len(announced') = 1 /\ Publishing' = {}
    BY <2>1, <1>2, <1>5
  <2>3. QED
    BY Zenon, <2>1, <2>2, <1>5 DEF OneAnnouncement
<1>10. KnownIsAnnounced'
  <2>1. \A w : Published(w) => Published(w)'
    BY <1>1, <1>5 DEF Published, ExperimentType
  <2>2. Published(v)'
    BY <1>1, <1>5 DEF Published, ExperimentType
  <2>3. \A w : Announcing(w) => Announcing(w)'
    BY Zenon, <2>1, <2>2, <1>0, <1>2, <1>4 DEF Announcing, Publishing
  <2>4. QED
    BY Zenon, <2>3, <1>2, <1>5 DEF KnownIsAnnounced
<1>11. QED
  BY Zenon, <1>6, <1>7, <1>8, <1>9, <1>10

\* A caller that goes on to pick, or panics, keeps its definition.
LEMMA AssignerIsTyped ==
  ASSUME ExperimentType, NEW a \in Assigners,
         NEW pc \in {"pick", "panicked"},
         assigner' = [assigner EXCEPT ![a].pc = pc]
  PROVE  \E r \in Assigner :
           /\ assigner' = [assigner EXCEPT ![a] = r]
           /\ r.pc = pc /\ r.definition = assigner[a].definition
<1> DEFINE r == [assigner[a] EXCEPT !.pc = pc]
<1>1. assigner[a] \in Assigner
  BY Zenon DEF ExperimentType
<1>2. r \in Assigner /\ r.pc = pc /\ r.definition = assigner[a].definition
  BY Zenon, <1>1 DEF Assigner
<1>3. assigner' = [assigner EXCEPT ![a] = r]
  BY Zenon
<1> HIDE DEF r
<1> QED
  BY Zenon, <1>2, <1>3

\* Fetching a definition keeps the invariant.
LEMMA FetchKeeps ==
  ASSUME ExperimentInv, NEW a \in Assigners, Fetch(a)
  PROVE  ExperimentInv'
<1> DEFINE r == [assigner[a] EXCEPT !.pc = "assign", !.definition = definition]
<1>1. assigner[a] \in Assigner /\ definition \in Weightings \ {<<>>}
  BY Zenon DEF ExperimentInv, ExperimentType, Fetch
<1>2. r \in Assigner /\ r.pc = "assign" /\ r.definition = definition
  BY Zenon, <1>1 DEF Assigner
<1>3. assigner' = [assigner EXCEPT ![a] = r]
  BY Zenon DEF Fetch
<1>4. /\ assigner[a].pc = "idle"
      /\ UNCHANGED <<engine, hash, definition, assignment, announced, answers,
                     updated>>
      /\ disturbed' = disturbed /\ disturbed \in BOOLEAN
  BY Zenon DEF Fetch, ExperimentInv, ExperimentType
<1> HIDE DEF r
<1> QED
  BY Zenon, <1>1, <1>2, <1>3, <1>4, GoingOnKeeps

\* The panic of deterministicPick.
LEMMA PanicKeeps ==
  ASSUME ExperimentInv, NEW a \in Assigners,
         assigner[a].pc \in {"assign", "pick"}, Panic(a),
         UNCHANGED <<engine, hash, definition, assignment, announced, updated,
                     disturbed>>
  PROVE  ExperimentInv'
<1>1. PICK r \in Assigner :
        assigner' = [assigner EXCEPT ![a] = r] /\ r.pc = "panicked"
  BY Zenon, AssignerIsTyped DEF Panic, ExperimentInv
<1>2. disturbed \in BOOLEAN
  BY Zenon DEF ExperimentInv, ExperimentType
<1>3. QED
  BY Zenon, <1>1, <1>2, GoingOnKeeps DEF Panic

\* AssignVariant of the deterministic engine keeps the invariant.
LEMMA AssignKeeps ==
  ASSUME ExperimentInv, NEW a \in Assigners, AssignVariant(a)
  PROVE  ExperimentInv'
<1>1. CASE assignment # Unassigned
  BY Zenon, <1>1, AnswerKeeps DEF AssignVariant
<1>2. CASE assignment = Unassigned /\ ~Panics(assigner[a].definition)
  BY Zenon, <1>2, PickKeeps DEF AssignVariant, Enter
<1>3. CASE assignment = Unassigned /\ Panics(assigner[a].definition)
  BY Zenon, <1>3, PanicKeeps DEF AssignVariant
<1>4. QED
  BY Zenon, <1>1, <1>2, <1>3

\* Asking the cache keeps the invariant.
LEMMA GetKeeps ==
  ASSUME ExperimentInv, NEW a \in Assigners, GetVariant(a)
  PROVE  ExperimentInv'
<1>1. CASE assignment # Unassigned /\ ReturnVariant(a, assignment)
             /\ UNCHANGED disturbed
  BY Zenon, <1>1, AnswerKeeps DEF GetVariant
<1>2. CASE /\ assigner' = [assigner EXCEPT ![a].pc = "pick"]
           /\ disturbed' = (\/ disturbed
                            \/ assignment # Unassigned
                            \/ \E b \in Assigners : assigner[b].pc = "pick")
           /\ UNCHANGED answers
  <2>1. PICK r \in Assigner :
          /\ assigner' = [assigner EXCEPT ![a] = r]
          /\ r.pc = "pick" /\ r.definition = assigner[a].definition
    BY Zenon, <1>2, AssignerIsTyped DEF ExperimentInv
  <2>2. /\ r.definition \in Weightings \ {<<>>}
        /\ ~updated => r.definition = definition
    BY Zenon, <2>1 DEF GetVariant, ExperimentInv, ExperimentType, OneDefinition
  <2>3. /\ disturbed' \in BOOLEAN
        /\ disturbed => disturbed'
        /\ ~disturbed' => /\ assignment = Unassigned
                          /\ \A b \in Assigners : assigner[b].pc # "pick"
    BY Zenon, <1>2 DEF ExperimentInv, ExperimentType
  <2>4. QED
    BY Zenon, <1>2, <2>1, <2>2, <2>3, GoingOnKeeps DEF GetVariant
<1>3. QED
  BY Zenon, <1>1, <1>2 DEF GetVariant

\* Picking, and setting the cache entry or failing to, keeps the invariant.
LEMMA SetKeeps ==
  ASSUME ExperimentInv, NEW a \in Assigners, SetVariant(a)
  PROVE  ExperimentInv'
<1>1. engine = "cache"
  BY Zenon DEF SetVariant, ExperimentInv, ExperimentType, OneAssignment
<1>2. CASE ~Panics(assigner[a].definition)
  BY Zenon, <1>1, <1>2, PickKeeps DEF SetVariant, Enter
<1>3. CASE Panics(assigner[a].definition)
  BY Zenon, <1>3, PanicKeeps DEF SetVariant
<1>4. QED
  BY Zenon, <1>2, <1>3

\* The loss of a cache entry keeps the invariant: it is a disturbance.
LEMMA EvictKeeps ==
  ASSUME ExperimentInv, Evict
  PROVE  ExperimentInv'
<1> USE DEF ExperimentInv, Evict
<1>1. Publishing' = Publishing /\ Known' = Known
  BY Zenon DEF Publishing, Known
<1>2. ExperimentType'
  BY Zenon DEF ExperimentType
<1>3. OneAssignment' /\ OneAnnouncement'
  BY Zenon DEF OneAssignment, OneAnnouncement
<1>4. OneDefinition'
  BY Zenon, <1>1, SamePicked DEF OneDefinition
<1>5. KnownIsAnnounced'
  <2>1. \A v : Announcing(v) => Announcing(v)'
    BY Zenon, <1>1 DEF Announcing, Published
  <2>2. QED
    BY Zenon, <1>1, <2>1 DEF KnownIsAnnounced
<1>6. QED
  BY Zenon, <1>2, <1>3, <1>4, <1>5

\* A change of the definition keeps the invariant: it is an update.
LEMMA ChangeKeeps ==
  ASSUME ExperimentInv, NEW d \in Weightings, ChangeDefinition(d)
  PROVE  ExperimentInv'
<1> USE DEF ExperimentInv, ChangeDefinition
<1>1. Publishing' = Publishing /\ Known' = Known
  BY Zenon DEF Publishing, Known
<1>2. ExperimentType'
  BY Zenon DEF ExperimentType
<1>3. OneAssignment' /\ OneAnnouncement'
  BY Zenon, <1>1 DEF OneAssignment, OneAnnouncement
<1>4. OneDefinition'
  BY Zenon DEF OneDefinition
<1>5. KnownIsAnnounced'
  <2>1. \A v : Announcing(v) => Announcing(v)'
    BY Zenon, <1>1 DEF Announcing, Published
  <2>2. QED
    BY Zenon, <1>1, <2>1 DEF KnownIsAnnounced
<1>6. QED
  BY Zenon, <1>2, <1>3, <1>4, <1>5

\* ExperimentInv is an invariant of both engines.
LEMMA ExperimentInvHolds == SpecExperiments => []ExperimentInv
<1>1. InitExperiments => ExperimentInv
  <2> SUFFICES ASSUME InitExperiments
               PROVE  ExperimentInv
    BY Zenon
  <2> USE DEF InitExperiments
  <2>1. Free \in Assigner /\ Free.pc = "idle"
    BY Zenon DEF Free, Assigner
  <2>2. \A a \in Assigners : assigner[a] \in Assigner /\ assigner[a].pc = "idle"
    BY Zenon, <2>1
  <2>3. Publishing = {} /\ Known = {}
    BY Zenon, <2>2 DEF Publishing, Known
  <2>4. ExperimentType
    <3>1. assigner \in [Assigners -> Assigner] /\ announced \in Seq(Variants)
      BY <2>1
    <3>2. QED
      BY Zenon, <2>2, <3>1 DEF ExperimentType
  <2>5. OneAssignment /\ OneDefinition
    BY Zenon, <2>2, <2>3 DEF OneAssignment, OneDefinition
  <2>6. OneAnnouncement /\ KnownIsAnnounced
    BY Zenon, <2>3 DEF OneAnnouncement, KnownIsAnnounced
  <2>7. QED
    BY Zenon, <2>4, <2>5, <2>6 DEF ExperimentInv
<1>2. ExperimentInv /\ [NextExperiments]_experimentVars => ExperimentInv'
  <2> SUFFICES ASSUME ExperimentInv, [NextExperiments]_experimentVars
               PROVE  ExperimentInv'
    BY Zenon
  <2>1. CASE UNCHANGED experimentVars
    <3>1. Publishing' = Publishing /\ Known' = Known
      BY Zenon, <2>1 DEF experimentVars, Publishing, Known
    <3>2. ExperimentType'
      BY Zenon, <2>1 DEF experimentVars, ExperimentInv, ExperimentType
    <3>3. OneAssignment' /\ OneAnnouncement'
      BY Zenon, <2>1, <3>1 DEF experimentVars, ExperimentInv, OneAssignment,
         OneAnnouncement
    <3>4. OneDefinition'
      BY Zenon, <2>1, <3>1, SamePicked DEF experimentVars, ExperimentInv,
         OneDefinition
    <3>5. KnownIsAnnounced'
      BY Zenon, <2>1, <3>1 DEF experimentVars, ExperimentInv, KnownIsAnnounced,
         Announcing, Published
    <3>6. QED
      BY Zenon, <3>2, <3>3, <3>4, <3>5 DEF ExperimentInv
  <2>2. QED
    BY Zenon, <2>1, FetchKeeps, AssignKeeps, GetKeeps, SetKeeps, PublishKeeps,
       EvictKeeps, ChangeKeeps DEF NextExperiments
<1>3. QED
  BY <1>1, <1>2, PTL DEF SpecExperiments

(***************************************************************************)
(* A user keeps the variant, for any number of callers, any definitions    *)
(* and any hash: two answers of AssignVariant differ only with the cache   *)
(* engine, and then only if both the definition has changed and the cache  *)
(* was disturbed.                                                          *)
(***************************************************************************)
THEOREM VariantStableHolds == SpecExperiments => []VariantStable
<1>1. ExperimentInv => VariantStable
  <2> SUFFICES ASSUME ExperimentInv, NEW v \in answers, NEW w \in answers,
                      v # w
               PROVE  engine = "cache" /\ updated /\ disturbed
    BY Zenon DEF VariantStable
  <2>1. v \in Known /\ w \in Known
    BY Zenon DEF Known
  <2>2. QED
    BY Zenon, <2>1 DEF ExperimentInv, ExperimentType, OneAssignment,
       OneDefinition
<1>2. QED
  BY <1>1, ExperimentInvHolds, PTL

(***************************************************************************)
(* An assignment is published, for any number of callers: exactly once     *)
(* with the deterministic engine, at least once with the cache engine.     *)
(***************************************************************************)
THEOREM AnnouncedOnceHolds == SpecExperiments => []AnnouncedOnce
<1>1. ExperimentInv => AnnouncedOnce
  <2> SUFFICES ASSUME ExperimentInv
               PROVE  AnnouncedOnce
    BY Zenon
  <2>1. ASSUME engine = "deterministic"
        PROVE  Len(announced) + Cardinality(Publishing)
                 = IF assignment = Unassigned THEN 0 ELSE 1
    <3>1. Cardinality({}) = 0 /\ \A a \in Assigners : Cardinality({a}) = 1
      BY Zenon, FS_EmptySet, FS_Singleton
    <3>2. CASE /\ assignment = Unassigned /\ announced = <<>>
               /\ Publishing = {}
      BY <3>1, <3>2
    <3>3. CASE /\ assignment # Unassigned /\ Len(announced) = 1
               /\ Publishing = {}
      BY <3>1, <3>3
    <3>4. CASE /\ assignment # Unassigned /\ announced = <<>>
               /\ \E a \in Assigners : Publishing = {a}
      BY <3>1, <3>4
    <3>5. QED
      BY Zenon, <2>1, <3>2, <3>3, <3>4 DEF ExperimentInv, OneAnnouncement
  <2>2. ASSUME NEW v \in answers
        PROVE  Published(v) \/ \E a \in Publishing : assigner[a].variant = v
    <3>1. v # Unassigned /\ v \in Known
      BY Zenon, VariantsAreAssigned DEF ExperimentInv, ExperimentType, Known
    <3>2. QED
      BY Zenon, <3>1 DEF ExperimentInv, KnownIsAnnounced, Announcing
  <2>3. QED
    BY Zenon, <2>1, <2>2 DEF AnnouncedOnce
<1>2. QED
  BY <1>1, ExperimentInvHolds, PTL

-----------------------------------------------------------------------------
(* The shares of the variants *)

\* Every set of numbers that is not empty has a least one.
LEMMA NatLeast ==
  ASSUME NEW T, T \subseteq Nat, T # {}
  PROVE  \E x \in T : \A y \in T : x <= y
<1>1. PICK x \in T : \A y \in T : ~ (<<y, x>> \in OpToRel(<, Nat))
  BY Zenon, WFMin, NatLessThanWellFounded
<1>2. \A y \in T : ~ (y < x)
  BY Zenon, <1>1 DEF OpToRel
<1>3. QED
  BY <1>2

\* A weight counts at least 1.
LEMMA WeightType == ASSUME NEW w \in Int PROVE Weight(w) \in Nat \ {0}
BY DEF Weight

\* The sums of the first 0, 1, ..., n weights.
SumsUpTo(weights, n, f) ==
  /\ f \in [0 .. n -> Nat]
  /\ f[0] = 0
  /\ \A i \in 1 .. n : f[i] = f[i - 1] + Weight(weights[i])

\* deterministicPick's loop has a running total for every number of weights.
LEMMA SumsExist ==
  ASSUME NEW weights \in Seq(Int)
  PROVE  \E f : SumsUpTo(weights, Len(weights), f)
<1> DEFINE T == {n \in 0 .. Len(weights) : ~ \E f : SumsUpTo(weights, n, f)}
<1>0. Len(weights) \in Nat /\ \A i \in 1 .. Len(weights) : weights[i] \in Int
  OBVIOUS
<1>a. Len(weights) \in 0 .. Len(weights)
  BY <1>0
<1> SUFFICES ASSUME T # {} PROVE FALSE
  BY Zenon, <1>a
<1>b. T \subseteq Nat
  BY <1>0
<1>1. PICK n \in T : \A m \in T : n <= m
  <2> HIDE DEF T
  <2> QED
    BY Zenon, <1>b, NatLeast
<1>2. n \in Nat /\ n <= Len(weights)
  BY <1>0
<1>3. CASE n = 0
  <2>1. SumsUpTo(weights, 0, [i \in 0 .. 0 |-> 0])
    BY DEF SumsUpTo
  <2> QED
    BY Zenon, <1>1, <1>3, <2>1
<1>4. CASE n # 0
  <2>1. n - 1 \in 0 .. Len(weights) /\ n - 1 \notin T
    BY <1>0, <1>1, <1>2, <1>4
  <2> DEFINE m == n - 1
  <2> HIDE DEF m
  <2>a. m \in 0 .. Len(weights) /\ m \notin T
    BY Zenon, <2>1 DEF m
  <2>b. \E f : SumsUpTo(weights, m, f)
    BY <2>a, Zenon
  <2>2. PICK f : SumsUpTo(weights, n - 1, f)
    BY <2>b, Zenon DEF m
  <2> DEFINE g == [i \in 0 .. n |->
                     IF i = n THEN f[n - 1] + Weight(weights[n]) ELSE f[i]]
  <2>3. Weight(weights[n]) \in Nat
    <3>1. weights[n] \in Int
      BY <1>0, <1>2, <1>4
    <3> QED
      BY Zenon, <3>1, WeightType
  <2>4. g \in [0 .. n -> Nat]
    BY <1>2, <1>4, <2>2, <2>3 DEF SumsUpTo
  <2>5. g[0] = 0
    BY <1>2, <1>4, <2>2 DEF SumsUpTo
  <2>6. ASSUME NEW i \in 1 .. n PROVE g[i] = g[i - 1] + Weight(weights[i])
    BY <1>2, <1>4, <2>2 DEF SumsUpTo
  <2>7. SumsUpTo(weights, n, g)
    <3> HIDE DEF g
    <3> QED
      BY Zenon, <2>4, <2>5, <2>6 DEF SumsUpTo
  <2> QED
    BY Zenon, <1>1, <2>7
<1> QED
  BY Zenon, <1>3, <1>4

\* Cumulative is that running total.
LEMMA CumulativeIs ==
  ASSUME NEW weights \in Seq(Int)
  PROVE  SumsUpTo(weights, Len(weights), Cumulative(weights))
<1> DEFINE n == Len(weights)
           Body(f) == [i \in 0 .. n |->
                         IF i = 0 THEN 0 ELSE f[i - 1] + Weight(weights[i])]
<1>0. n \in Nat
  OBVIOUS
<1>1. PICK f : SumsUpTo(weights, n, f)
  BY Zenon, SumsExist
<1>2. f = Body(f)
  BY <1>0, <1>1 DEF SumsUpTo
<1>3. Cumulative(weights) = CHOOSE s : s = Body(s)
  BY Zenon DEF Cumulative
<1>4. Cumulative(weights) = Body(Cumulative(weights))
  BY Zenon, <1>2, <1>3
<1> DEFINE c == Cumulative(weights)
           T == {i \in 0 .. n : c[i] # f[i]}
<1> HIDE DEF c
<1>5. /\ c = [i \in 0 .. n |-> c[i]]
      /\ c[0] = 0
      /\ \A i \in 1 .. n : c[i] = c[i - 1] + Weight(weights[i])
  BY <1>0, <1>4 DEF c
<1>6. ASSUME T # {} PROVE FALSE
  <2>a. T \subseteq Nat
    BY <1>0
  <2>1. PICK i \in T : \A j \in T : i <= j
    <3> HIDE DEF T
    <3> QED
      BY Zenon, <1>6, <2>a, NatLeast
  <2>2. i # 0
    BY Zenon, <1>1, <1>5, <2>1 DEF SumsUpTo
  <2>3. i \in 1 .. n /\ i - 1 \in 0 .. n /\ ~ (i <= i - 1)
    BY <1>0, <2>1, <2>2
  <2>4. c[i - 1] = f[i - 1]
    BY Zenon, <2>1, <2>3
  <2> QED
    BY Zenon, <1>1, <1>5, <2>1, <2>3, <2>4 DEF SumsUpTo
<1>7. \A i \in 0 .. n : c[i] = f[i]
  BY Zenon, <1>6
<1>8. f = [i \in 0 .. n |-> f[i]]
  BY Zenon, <1>1 DEF SumsUpTo
<1>9. c = f
  BY Zenon, <1>5, <1>7, <1>8
<1> QED
  BY Zenon, <1>1, <1>9 DEF c

\* The running total never falls: it grows with every weight.
LEMMA CumulativeGrows ==
  ASSUME NEW weights \in Seq(Int),
         NEW i \in 0 .. Len(weights), NEW j \in 0 .. Len(weights), i <= j
  PROVE  Cumulative(weights)[i] <= Cumulative(weights)[j]
<1> DEFINE n == Len(weights)
           c == Cumulative(weights)
           T == {k \in 0 .. n : i <= k /\ ~ (c[i] <= c[k])}
<1>0. n \in Nat /\ \A k \in 1 .. n : weights[k] \in Int
  OBVIOUS
<1>1. SumsUpTo(weights, n, c)
  BY Zenon, CumulativeIs
<1> HIDE DEF c
<1>2. ASSUME T # {} PROVE FALSE
  <2>a. T \subseteq Nat
    BY <1>0
  <2>1. PICK k \in T : \A m \in T : k <= m
    <3> HIDE DEF T
    <3> QED
      BY Zenon, <1>2, <2>a, NatLeast
  <2>b. c[i] \in Nat
    BY Zenon, <1>1 DEF SumsUpTo
  <2>2. k # i
    BY <2>1, <2>b
  <2>3. k \in 1 .. n /\ k - 1 \in 0 .. n /\ i <= k - 1 /\ ~ (k <= k - 1)
    BY <1>0, <2>1, <2>2
  <2>4. c[i] <= c[k - 1]
    BY Zenon, <2>1, <2>3
  <2>5. Weight(weights[k]) \in Nat
    BY Zenon, <1>0, <2>3, WeightType
  <2>6. c[k] = c[k - 1] + Weight(weights[k]) /\ c[k - 1] \in Nat /\ c[i] \in Nat
    BY Zenon, <1>1, <2>3 DEF SumsUpTo
  <2>7. ~ (c[i] <= c[k])
    BY Zenon, <2>1
  <2> HIDE DEF T
  <2> QED
    BY <2>4, <2>5, <2>6, <2>7
<1> QED
  BY Zenon, <1>2 DEF c

\* A number below the divisor is its own remainder.
LEMMA SmallRemainder ==
  ASSUME NEW d \in Nat \ {0}, NEW r \in 0 .. d - 1 PROVE r % d = r
  OBVIOUS

\* deterministicPick gives variant i exactly the buckets from the sum of the
\* weights before it to the sum up to it.
LEMMA PickIs ==
  ASSUME NEW weights \in Seq(Int), Uint32 \in Nat,
         TotalWeight(weights) < Uint32,
         NEW h \in 0 .. TotalWeight(weights) - 1,
         NEW i \in 1 .. Len(weights)
  PROVE  Pick(h, weights) = i
           <=> Cumulative(weights)[i - 1] <= h /\ h < Cumulative(weights)[i]
<1> DEFINE n == Len(weights)
           c == Cumulative(weights)
           First(k) == h < c[k] /\ \A j \in 1 .. k - 1 : ~ (h < c[j])
<1>0. n \in Nat /\ i - 1 \in 0 .. n /\ i \in 0 .. n
  OBVIOUS
<1>1. SumsUpTo(weights, n, c)
  BY Zenon, CumulativeIs
<1>2. TotalWeight(weights) = c[n] /\ c[n] \in Nat /\ h \in Nat /\ h < c[n]
  <2>1. TotalWeight(weights) = c[n]
    BY Zenon DEF TotalWeight
  <2>2. c[n] \in Nat
    <3>1. n \in 0 .. n
      BY <1>0
    <3> HIDE DEF c, n
    <3> QED
      BY Zenon, <1>1, <3>1 DEF SumsUpTo
  <2> HIDE DEF c
  <2> QED
    BY <2>1, <2>2
<1>3. h % (TotalWeight(weights) % Uint32) = h
  <2>1. PICK t \in Nat : t = TotalWeight(weights) /\ t < Uint32 /\ h < t
    BY Zenon, <1>2
  <2>2. t % Uint32 = t
    <3>1. Uint32 \in Nat \ {0} /\ t \in 0 .. Uint32 - 1
      BY <2>1
    <3> QED
      BY Zenon, <3>1, SmallRemainder
  <2>3. h % t = h
    <3>1. t \in Nat \ {0} /\ h \in 0 .. t - 1
      BY <1>2, <2>1
    <3> QED
      BY Zenon, <3>1, SmallRemainder
  <2> QED
    BY Zenon, <2>1, <2>2, <2>3
<1>4. Pick(h, weights) = CHOOSE k \in 1 .. n : First(k)
  BY Zenon, <1>3 DEF Pick
<1>5. \A j, k \in 0 .. n : j <= k => c[j] <= c[k]
  BY Zenon, CumulativeGrows
<1>6. \A k \in 0 .. n : c[k] \in Nat
  BY Zenon, <1>1 DEF SumsUpTo
<1>7. c[0] = 0
  BY Zenon, <1>1 DEF SumsUpTo
<1> HIDE DEF c
<1>8. \A k \in 1 .. n : First(k) <=> c[k - 1] <= h /\ h < c[k]
  <2> TAKE k \in 1 .. n
  <2>1. k - 1 \in 0 .. n /\ k \in 0 .. n
    BY <1>0
  <2>2. ASSUME First(k) PROVE c[k - 1] <= h
    <3>1. CASE k = 1
      BY <1>2, <1>7, <3>1
    <3>2. CASE k # 1
      <4>1. k - 1 \in 1 .. k - 1
        BY <3>2
      <4>2. ~ (h < c[k - 1])
        BY Zenon, <2>2, <4>1
      <4>3. c[k - 1] \in Nat
        BY Zenon, <1>6, <2>1
      <4> HIDE DEF First
      <4> QED
        BY <1>2, <4>2, <4>3
    <3> QED
      BY Zenon, <3>1, <3>2
  <2>3. ASSUME c[k - 1] <= h, NEW j \in 1 .. k - 1 PROVE ~ (h < c[j])
    <3>1. j \in 0 .. n /\ j <= k - 1
      BY <1>0
    <3>2. c[j] <= c[k - 1]
      BY Zenon, <1>5, <2>1, <3>1
    <3>3. c[j] \in Nat /\ c[k - 1] \in Nat
      BY Zenon, <1>6, <2>1, <3>1
    <3> HIDE DEF First
    <3> QED
      BY <1>2, <2>3, <3>2, <3>3
  <2> QED
    BY Zenon, <2>2, <2>3
<1>9. \E k \in 1 .. n : First(k)
  <2> DEFINE T == {k \in 0 .. n : h < c[k]}
  <2>1. n \in T /\ T \subseteq Nat
    BY <1>0, <1>2
  <2>2. PICK k \in T : \A m \in T : k <= m
    <3> HIDE DEF T
    <3> QED
      BY Zenon, <2>1, NatLeast
  <2>3. k # 0
    BY <1>2, <1>7, <2>2
  <2>4. k \in 1 .. n
    BY <1>0, <2>2, <2>3
  <2>5. \A j \in 1 .. k - 1 : j \in 0 .. n /\ ~ (k <= j)
    BY <1>0, <2>4
  <2> QED
    BY Zenon, <2>2, <2>4, <2>5
<1>10. ASSUME NEW j \in 1 .. n, NEW k \in 1 .. n, First(j), First(k)
       PROVE  j = k
  <2>1. ~ (j \in 1 .. k - 1) /\ ~ (k \in 1 .. j - 1)
    BY Zenon, <1>10
  <2> QED
    BY <2>1
<1> HIDE DEF First
<1>11. Pick(h, weights) = i <=> First(i)
  BY Zenon, <1>4, <1>9, <1>10
<1> QED
  BY Zenon, <1>8, <1>11 DEF c

\* Of as many consecutive hash values as the weights add up to, exactly its
\* weight fall to each variant.
LEMMA PickIsProportional ==
  ASSUME NEW weights \in Seq(Int), Uint32 \in Nat,
         TotalWeight(weights) < Uint32, NEW i \in 1 .. Len(weights)
  PROVE  Cardinality({h \in 0 .. TotalWeight(weights) - 1 :
                        Pick(h, weights) = i}) = Weight(weights[i])
<1> DEFINE n == Len(weights)
           c == Cumulative(weights)
<1>0. n \in Nat /\ i - 1 \in 0 .. n /\ i \in 0 .. n /\ i \in 1 .. n /\ n \in 0 .. n
  OBVIOUS
<1>1. SumsUpTo(weights, n, c)
  BY Zenon, CumulativeIs
<1>2. TotalWeight(weights) = c[n]
  BY Zenon DEF TotalWeight
<1>3. c[i] <= c[n]
  <2>1. i <= n
    BY <1>0
  <2> QED
    BY Zenon, <1>0, <2>1, CumulativeGrows
<1>4. \A h \in 0 .. TotalWeight(weights) - 1 :
        Pick(h, weights) = i <=> c[i - 1] <= h /\ h < c[i]
  BY Zenon, PickIs
<1> HIDE DEF c
<1>5. /\ c[i - 1] \in Nat /\ c[i] \in Nat /\ c[n] \in Nat
      /\ c[i] = c[i - 1] + Weight(weights[i])
  <2> HIDE DEF n
  <2> QED
    BY Zenon, <1>0, <1>1 DEF SumsUpTo
<1>6. Weight(weights[i]) \in Nat \ {0}
  <2>1. weights[i] \in Int
    OBVIOUS
  <2> QED
    BY Zenon, <2>1, WeightType
<1> HIDE DEF n
<1>7. PICK a \in Int, b \in Int : a = c[i - 1] /\ b = c[i] - 1
  BY <1>5
<1>8. {h \in 0 .. TotalWeight(weights) - 1 : Pick(h, weights) = i} = a .. b
  <2>1. PICK t \in Nat : t = TotalWeight(weights) /\ b < t
    BY <1>2, <1>3, <1>5, <1>7
  <2>2. ASSUME NEW h \in 0 .. t - 1
        PROVE  Pick(h, weights) = i <=> h \in a .. b
    <3>1. Pick(h, weights) = i <=> c[i - 1] <= h /\ h < c[i]
      BY Zenon, <1>4, <2>1
    <3>2. c[i - 1] <= h /\ h < c[i] <=> h \in a .. b
      BY <1>5, <1>7
    <3> QED
      BY Zenon, <3>1, <3>2
  <2>3. a .. b \subseteq 0 .. t - 1
    <3>1. a >= 0
      BY <1>5, <1>7
    <3> QED
      BY <2>1, <3>1
  <2>4. {h \in 0 .. t - 1 : Pick(h, weights) = i} = a .. b
    BY Zenon, <2>2, <2>3
  <2> QED
    BY Zenon, <2>1, <2>4
<1>9. Cardinality(a .. b) = IF a > b THEN 0 ELSE b - a + 1
  BY Zenon, <1>7, FS_Interval
<1>10. PICK w \in Nat \ {0} : w = Weight(weights[i])
  BY Zenon, <1>6
<1>11. b - a + 1 = w /\ ~ (a > b)
  <2>1. PICK x \in Nat : x = c[i - 1]
    BY Zenon, <1>5
  <2>2. PICK y \in Nat : y = c[i]
    BY Zenon, <1>5
  <2>3. y = x + w
    BY Zenon, <1>5, <1>10, <2>1, <2>2
  <2>4. a = x /\ b = y - 1
    BY Zenon, <1>7, <2>1, <2>2
  <2> QED
    BY <2>3, <2>4
<1> QED
  BY Zenon, <1>8, <1>9, <1>10, <1>11

\* PickProportional: whatever definition a caller of AssignVariant has
\* fetched, deterministicPick gives each of its variants its share of the
\* hashes, as long as the weights' total fits into 32 bits.
THEOREM PickProportionalHolds == SpecExperiments => []PickProportional
<1>1. ExperimentInv => PickProportional
  <2> SUFFICES ASSUME ExperimentInv, NEW a \in Assigners,
                      TotalWeight(assigner[a].definition) < Uint32,
                      NEW i \in 1 .. Len(assigner[a].definition)
               PROVE  Cardinality({h \in 0 .. TotalWeight(assigner[a].definition) - 1 :
                                     Pick(h, assigner[a].definition) = i})
                        = Weight(assigner[a].definition[i])
    BY Zenon DEF PickProportional
  <2>1. assigner[a].definition \in Weightings \cup {<<>>}
    BY Zenon DEF ExperimentInv, ExperimentType, Assigner
  <2>2. assigner[a].definition \in Seq(Int) /\ Uint32 \in Nat
    BY <2>1, WeightingsAssumption
  <2> QED
    BY Zenon, <2>2, PickIsProportional
<1> QED
  BY <1>1, ExperimentInvHolds, PTL
=============================================================================
