------------------------- MODULE PreferencesFilter --------------------------
(***************************************************************************)
(* The preferences filter (preferencesfilter.go), which decides whether a  *)
(* user's notification is sent, over cachedPreferencesStore                *)
(* (cache.preferences.go), the read-through cache before the durable       *)
(* store, while the preferences are saved by others.                       *)
(*                                                                         *)
(* One user, one event type.  Preferences are [enabled, quiet], where      *)
(* enabled is GlobalEnabled and the type's setting taken together and      *)
(* quiet is [on, zone, start, end] with times of day in minutes, or        *)
(* Unparsed (for which an unknown timezone stands too: what follows is the *)
(* same).  A zone gives the day's jump of its clock: at minute "at" it     *)
(* goes forward by "skip" (0 on all days but one); "east" is the sign of   *)
(* its offset.                                                             *)
(***************************************************************************)
EXTENDS Integers

CONSTANTS
  Readers,     \* goroutines that call ShouldSendNotification
  Preferences, \* what can be saved
  None,        \* nothing there
  Day,         \* minutes in a day
  MaxSaves     \* bound: saves

\* A time of day that does not parse.
Unparsed == -1

\* The clock of a zone goes forward by skip at the instant at, east of
\* Greenwich or not; a skip of 0 is a day like any other.
Zone == [at : 0 .. Day, skip : 0 .. Day - 1, east : BOOLEAN]

ASSUME FilterAssumption ==
  /\ Day \in Nat \ {0} /\ MaxSaves \in Nat
  /\ Preferences \subseteq
       [enabled : BOOLEAN,
        quiet : [on : BOOLEAN, zone : Zone,
                 start : (0 .. Day - 1) \cup {Unparsed},
                 end : (0 .. Day - 1) \cup {Unparsed}]]
  /\ None \notin Preferences

VARIABLES
  stored,      \* the durable store's row, or None
  cached,      \* the cache's entry: [prefs, expires], or None
  save,        \* the saver: [pc, saves]
  reader,      \* per reader: [pc, prefs, decision, now]
  faulted,     \* history: an invalidation failed
  overlapped   \* history: a save overtook a fill

filterVars == <<stored, cached, save, reader, faulted, overlapped>>

Ready == [pc |-> "idle", prefs |-> None, decision |-> "none", now |-> 0]

InitFilter ==
  /\ stored = None
  /\ cached = None
  /\ save = [pc |-> "idle", saves |-> 0]
  /\ reader = [c \in Readers |-> Ready]
  /\ faulted = FALSE
  /\ overlapped = FALSE

-----------------------------------------------------------------------------
(* Quiet hours *)

\* The instant, in minutes from midnight, that time.Date gives for the time
\* of day t; for a time that the clock skips, it reckons with one of the two
\* offsets, which depends on the offset's sign.
Date(zone, t) ==
  IF t < zone.at \/ (t < zone.at + zone.skip /\ zone.east) THEN t
  ELSE t - zone.skip

\* Mutant: a window across midnight is taken for an empty one.
isWithinQuietHoursOneDay(q, now) ==
  /\ q.on
  /\ q.start # Unparsed /\ q.end # Unparsed
  /\ Date(q.zone, q.start) <= now /\ now < Date(q.zone, q.end)

\* What is not parsed is an error, after which quiet hours are ignored.
isWithinQuietHours(q, now) ==
  LET start == Date(q.zone, q.start)
      end == Date(q.zone, q.end)
  IN  /\ q.on
      /\ q.start # Unparsed /\ q.end # Unparsed
      /\ IF start < end THEN start <= now /\ now < end
         ELSE start # end /\ (start <= now \/ now < end)

-----------------------------------------------------------------------------
(* cachedPreferencesStore *)

\* GetPreferences has its answer: preferences, or None for not found and for
\* a failure, which the filter takes in the same way.
Got(c, prefs) ==
  reader' = [reader EXCEPT ![c] = [Ready EXCEPT !.pc = "decide", !.prefs = prefs]]

\* The entry is used if the cache answers and the entry decodes.
GetCached(c) ==
  /\ reader[c].pc = "get"
  /\ \/ cached # None /\ Got(c, cached.prefs)
     \/ reader' = [reader EXCEPT ![c].pc = "load"]
  /\ UNCHANGED <<stored, cached, save, faulted, overlapped>>

Load(c) ==
  /\ reader[c].pc = "load"
  /\ \/ /\ stored # None
        /\ reader' = [reader EXCEPT ![c] =
             [@ EXCEPT !.pc = "fill", !.prefs = stored]]
     \/ Got(c, None)
  /\ UNCHANGED <<stored, cached, save, faulted, overlapped>>

\* Mutant: the entry is set without the TTL.
FillForever(c) ==
  /\ reader[c].pc = "fill"
  /\ Got(c, reader[c].prefs)
  /\ cached' = [prefs |-> reader[c].prefs, expires |-> FALSE]
  /\ UNCHANGED <<stored, save, faulted, overlapped>>

\* A failed Set is logged.
Fill(c) ==
  /\ reader[c].pc = "fill"
  /\ Got(c, reader[c].prefs)
  /\ \/ cached' = [prefs |-> reader[c].prefs, expires |-> TRUE]
     \/ UNCHANGED cached
  /\ UNCHANGED <<stored, save, faulted, overlapped>>

\* The first half of SavePreferences: the durable store.
Save(prefs) ==
  /\ save.pc = "idle" /\ save.saves < MaxSaves
  /\ stored' = prefs
  /\ save' = [pc |-> "invalidate", saves |-> save.saves + 1]
  /\ overlapped' = (overlapped \/ \E c \in Readers : reader[c].pc = "fill")
  /\ UNCHANGED <<cached, reader, faulted>>

\* Mutant: the tag is not invalidated.
InvalidateNothing ==
  /\ save.pc = "invalidate"
  /\ save' = [save EXCEPT !.pc = "idle"]
  /\ UNCHANGED <<stored, cached, reader, faulted, overlapped>>

\* The second half: InvalidateTag, whose failure is logged.
Invalidate ==
  /\ save.pc = "invalidate"
  /\ save' = [save EXCEPT !.pc = "idle"]
  /\ \/ cached' = None /\ UNCHANGED faulted
     \/ faulted' = TRUE /\ UNCHANGED cached
  /\ UNCHANGED <<stored, reader, overlapped>>

\* The cache drops an entry at the end of its TTL.
Expire ==
  /\ cached # None /\ cached.expires
  /\ cached' = None
  /\ UNCHANGED <<stored, save, reader, faulted, overlapped>>

-----------------------------------------------------------------------------
(* ShouldSendNotification, for a user's event; the others are always sent *)

ShouldSendNotification(c) ==
  /\ reader[c].pc = "idle"
  /\ reader' = [reader EXCEPT ![c].pc = "get"]
  /\ UNCHANGED <<stored, cached, save, faulted, overlapped>>

Decision(prefs, now) ==
  IF prefs = None THEN "send"
  ELSE IF ~prefs.enabled \/ isWithinQuietHours(prefs.quiet, now) THEN "skip"
  ELSE "send"

Decide(c) ==
  /\ reader[c].pc = "decide"
  /\ \E now \in 0 .. Day - 1 :
       /\ reader[c].prefs # None => now < Day - reader[c].prefs.quiet.zone.skip
       /\ reader' = [reader EXCEPT ![c] =
            [@ EXCEPT !.pc = "decided", !.now = now,
                      !.decision = Decision(reader[c].prefs, now)]]
  /\ UNCHANGED <<stored, cached, save, faulted, overlapped>>

ReturnDecision(c) ==
  /\ reader[c].pc = "decided"
  /\ reader' = [reader EXCEPT ![c] = Ready]
  /\ UNCHANGED <<stored, cached, save, faulted, overlapped>>

-----------------------------------------------------------------------------
FilterStep(c) ==
  GetCached(c) \/ Load(c) \/ Fill(c) \/ Decide(c) \/ ReturnDecision(c)

NextFilter ==
  \/ \E c \in Readers : ShouldSendNotification(c) \/ FilterStep(c)
  \/ \E prefs \in Preferences : Save(prefs)
  \/ Invalidate
  \/ Expire

SpecFilter == InitFilter /\ [][NextFilter]_filterVars

\* Readers and the saver go on, and the cache keeps to the TTL.
FairFilter ==
  /\ \A c \in Readers : WF_filterVars(FilterStep(c))
  /\ WF_filterVars(Invalidate)
  /\ WF_filterVars(Expire)

-----------------------------------------------------------------------------
\* SavePreferences writes and then invalidates: with the cache answering, and
\* no save that overtakes a read between the read's load and its fill, a
\* stale entry is seen only while the save is not over.
FreshUnlessRaced ==
  cached # None /\ cached.prefs # stored =>
    faulted \/ overlapped \/ save.pc = "invalidate"

\* And whatever the races and the failures, the TTL ends it: after the last
\* save the cache comes to hold the stored preferences or nothing, for good.
CacheConverges == <>[](cached # None => cached.prefs = stored)

\* Reference: the time of day lies in the half-open window from start to end
\* on the 24-hour circle.
InQuietHours(q, now) ==
  LET wall == IF now < q.zone.at THEN now ELSE now + q.zone.skip
  IN  /\ q.on /\ q.start # Unparsed /\ q.end # Unparsed
      /\ (wall - q.start) % Day < (q.end - q.start) % Day

\* On a day without a change of the clocks, a notification is skipped if and
\* only if the preferences that were read disable it or its time of day lies
\* in their window, with windows that cross midnight and empty ones.
DecisionFollowsPreferences ==
  \A c \in Readers :
    LET prefs == reader[c].prefs
    IN  reader[c].pc = "decided" =>
          IF prefs = None THEN reader[c].decision = "send"
          ELSE prefs.quiet.zone.skip = 0 =>
                 (reader[c].decision = "skip"
                    <=> ~prefs.enabled \/ InQuietHours(prefs.quiet, reader[c].now))

\* What the comment of isWithinQuietHours says: "a window is 'wrapping'
\* whenever its parsed start time is not before its end time".  So with the
\* start before the end, nothing is skipped for quiet hours once the window
\* is over, the hour that time.Date may be off allowed for.
WrapsAsParsed ==
  \A c \in Readers :
    LET q == reader[c].prefs.quiet
    IN  reader[c].pc = "decided" /\ reader[c].prefs # None =>
          (reader[c].prefs.enabled /\ reader[c].decision = "skip"
             /\ q.start < q.end
           => reader[c].now < q.end + q.zone.skip)
=============================================================================
