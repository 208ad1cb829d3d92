---------------------------- MODULE RateLimiter -----------------------------
(***************************************************************************)
(* redisRateLimiter (ratelimiter.redis.go): replicas with limits of their  *)
(* own share one token bucket, a Redis hash that tokenBucketScript reads   *)
(* and writes in one step.  Wait polls Allow.                              *)
(*                                                                         *)
(* Time is Redis's clock in ticks, Second ticks to the second, and tokens  *)
(* are counted in parts, Second parts to the token, so that a rate in      *)
(* tokens per second is a rate in parts per tick and the arithmetic is     *)
(* exact.  Lua's tostring keeps 14 significant digits, which for a time in *)
(* seconds is 1e-4 s: updated_at is stored rounded to Grain ticks.  (The   *)
(* tokens are rounded in the same way, to less than 1e-8 of a token; this  *)
(* is left out, and so are the counters that GetStats reads.)              *)
(***************************************************************************)
EXTENDS Integers

CONSTANTS
  Calls,      \* goroutines that use a limiter
  Waiters,    \* those that call Wait; the others call Allow
  Replicas,   \* the processes, each with its redisRateLimiter
  Home,       \* the replica of each call
  Limits,     \* the limits configured: [rate, burst]
  MaxRate, MaxBurst,  \* the largest of them
  Second,     \* ticks per second
  Grain,      \* what tostring leaves of updated_at, in ticks
  KeyTTL,     \* redisRateLimiterKeyTTL, in ticks
  MaxTime,    \* bound: the clock's last tick
  MaxAdvance, \* bound: ticks forward in a window
  MaxBack,    \* bound: how far the clock is set back at once
  MaxEvals    \* bound: evaluations of the script

HalfGrain == Grain \div 2

\* What NewRedisRateLimiter and UpdateLimit accept.
ASSUME LimiterAssumption ==
  /\ Waiters \subseteq Calls
  /\ Home \in [Calls -> Replicas]
  /\ Limits \subseteq [rate : 1 .. MaxRate, burst : 1 .. MaxBurst]
  /\ \A l \in Limits : l.burst >= l.rate
  /\ MaxRate \in Nat \ {0} /\ MaxBurst \in Nat \ {0}
  /\ Second \in Nat \ {0} /\ Grain \in Nat \ {0} /\ KeyTTL \in Nat \ {0}
  /\ MaxTime \in Nat /\ MaxAdvance \in Nat /\ MaxBack \in Nat /\ MaxEvals \in Nat

VARIABLES
  clock,     \* TIME
  bucket,    \* the hash: [tokens, updatedAt, expiresAt], or Absent
  limits,    \* per replica: requestsPerSec and burstSize
  closed,    \* the replicas whose limiter is closed
  call,      \* per call: [pc, limit, done, late]; done says that its
             \* context is, late counts the evaluations that ran for it when
             \* it should have stopped (history)
  granted,   \* history: tokens given out since the window began
  advanced,  \* history: ticks the clock has gone forward since then
  evals      \* history: evaluations since then

window == <<granted, advanced, evals>>
limiterVars == <<clock, bucket, limits, closed, call, window>>

Absent == [tokens |-> -1]
NoLimit == [rate |-> 0, burst |-> 0]
Idle == [pc |-> "idle", limit |-> NoLimit, done |-> FALSE,
         late |-> 0]

Stopped(c) == Home[c] \in closed \/ call[c].done

InitLimiter ==
  /\ clock = 0
  /\ bucket = Absent
  /\ limits \in [Replicas -> Limits]
  /\ closed = {}
  /\ call = [c \in Calls |-> Idle]
  /\ granted = 0 /\ advanced = 0 /\ evals = 0

-----------------------------------------------------------------------------
(* tokenBucketScript *)

\* tostring(now), to the nearest multiple of Grain.
Stored(now) == ((now + HalfGrain) \div Grain) * Grain

\* Redis has not expired the key.
Live == bucket # Absent /\ clock < bucket.expiresAt

\* The tokens there are for a caller with this limit.
Refilled(limit) ==
  LET capacity == limit.burst * Second
      elapsed == IF clock < bucket.updatedAt THEN 0
                 ELSE clock - bucket.updatedAt
      tokens == bucket.tokens + elapsed * limit.rate
  IN  IF ~Live \/ tokens > capacity THEN capacity ELSE tokens

Allowed(limit) == Refilled(limit) >= Second

\* Mutant: EXPIRE is given a TTL in the wrong unit.
ConsumedBriefly(limit) ==
  [tokens |-> IF Allowed(limit) THEN Refilled(limit) - Second
              ELSE Refilled(limit),
   updatedAt |-> Stored(clock), expiresAt |-> clock + 1]

Consumed(limit) ==
  [tokens |-> IF Allowed(limit) THEN Refilled(limit) - Second
              ELSE Refilled(limit),
   updatedAt |-> Stored(clock), expiresAt |-> clock + KeyTTL]

-----------------------------------------------------------------------------
(* Allow and Wait *)

Return(c) == call' = [call EXCEPT ![c] = Idle]

\* Mutant: a poll of Wait does not look at closed again.
AllowUnchecked(c) ==
  IF call[c].done THEN Return(c)
  ELSE call' = [call EXCEPT ![c].pc = "eval", ![c].limit = limits[Home[c]]]

\* Allow up to the script: closed, the context, and the limits it reads.
Allow(c) ==
  IF Stopped(c) THEN Return(c)
  ELSE call' = [call EXCEPT ![c].pc = "eval", ![c].limit = limits[Home[c]]]

Begin(c) ==
  /\ call[c].pc = "idle"
  /\ ~Stopped(c)
  /\ call' = [call EXCEPT ![c] = [@ EXCEPT !.pc = "eval",
                                           !.limit = limits[Home[c]]]]
  /\ UNCHANGED <<clock, bucket, limits, closed, window>>

\* The script runs; its answer, or only its answer, may be lost on the way.
Eval(c) ==
  LET limit == call[c].limit
  IN  /\ call[c].pc = "eval"
      /\ evals < MaxEvals
      /\ bucket' = Consumed(limit)
      /\ evals' = evals + 1
      /\ \/ /\ granted' = granted + (IF Allowed(limit) THEN 1 ELSE 0)
            /\ IF Allowed(limit) \/ c \notin Waiters THEN Return(c)
               ELSE call' = [call EXCEPT ![c].pc = "poll",
                                         ![c].limit = NoLimit,
                                         ![c].late = IF Stopped(c) THEN @ + 1
                                                     ELSE @]
         \/ Return(c) /\ UNCHANGED granted
      /\ UNCHANGED <<clock, limits, closed, advanced>>

\* The script does not run: ErrBackendUnavailable.
EvalErrs(c) ==
  /\ call[c].pc = "eval"
  /\ Return(c)
  /\ UNCHANGED <<clock, bucket, limits, closed, window>>

\* Wait between two polls; with both ready, select takes either case.
Poll(c) ==
  /\ call[c].pc = "poll"
  /\ \/ Allow(c)
     \/ call[c].done /\ Return(c)
  /\ UNCHANGED <<clock, bucket, limits, closed, window>>

-----------------------------------------------------------------------------
UpdateLimit(r, limit) ==
  /\ r \notin closed
  /\ limits' = [limits EXCEPT ![r] = limit]
  /\ UNCHANGED <<clock, bucket, closed, call, window>>

CloseLimiter(r) ==
  /\ closed' = closed \cup {r}
  /\ UNCHANGED <<clock, bucket, limits, call, window>>

\* (An Allow that has begun does not look at its context again.)
Cancel(c) ==
  /\ call[c].pc # "idle"
  /\ call' = [call EXCEPT ![c].done = TRUE]
  /\ UNCHANGED <<clock, bucket, limits, closed, window>>

Forward ==
  /\ clock < MaxTime /\ advanced < MaxAdvance
  /\ clock' = clock + 1
  /\ advanced' = advanced + 1
  /\ UNCHANGED <<bucket, limits, closed, call, granted, evals>>

\* The server's clock is corrected, or a replica with another one takes over.
Backward ==
  /\ \E d \in 1 .. MaxBack : clock' = clock - d /\ clock >= d
  /\ UNCHANGED <<bucket, limits, closed, call, window>>

\* The window that the grants are counted in begins now.
OpenWindow ==
  /\ granted' = 0 /\ advanced' = 0 /\ evals' = 0
  /\ UNCHANGED <<clock, bucket, limits, closed, call>>

NextLimiter ==
  \/ \E c \in Calls : Begin(c) \/ Eval(c) \/ EvalErrs(c)
  \/ \E c \in Waiters : Poll(c) \/ Cancel(c)
  \/ \E r \in Replicas, limit \in Limits : UpdateLimit(r, limit)
  \/ \E r \in Replicas : CloseLimiter(r)
  \/ Forward
  \/ Backward
  \/ OpenWindow

SpecLimiter == InitLimiter /\ [][NextLimiter]_limiterVars

-----------------------------------------------------------------------------
TypeOKLimiter ==
  /\ clock \in Nat
  /\ bucket = Absent \/ bucket \in [tokens : Nat, updatedAt : Nat,
                                    expiresAt : Nat]
  /\ limits \in [Replicas -> Limits]
  /\ closed \subseteq Replicas
  /\ call \in [Calls -> [pc : {"idle", "eval", "poll"},
                         limit : Limits \cup {NoLimit},
                         done : BOOLEAN, late : Nat]]
  /\ \A c \in Calls : call[c].pc = "eval" => call[c].limit \in Limits
  /\ granted \in Nat /\ advanced \in Nat /\ evals \in Nat

\* An idle bucket is full before its key expires.  The code does not see to
\* it: it takes a burst of at most rate * redisRateLimiterKeyTTL.
FullWithinTTL == MaxBurst * Second <= MaxRate * (KeyTTL - HalfGrain)

\* The promise of a token bucket, for every window of time: however replicas
\* and their limits interleave, no more tokens are given out than the burst,
\* what the rate refills while the clock goes forward, and half a grain of
\* time per evaluation for the rounding of updated_at.  A clock that is set
\* back gives the time it repeats a second time, and no more.
GrantsBounded ==
  FullWithinTTL =>
    granted * Second <=
      MaxBurst * Second + MaxRate * (advanced + HalfGrain * evals)

\* A Wait that polls stops: after Close or the end of its context a call
\* evaluates the script at most once, for the check it had already passed.
OneEvalAfterStop == \A c \in Calls : call[c].late <= 1
=============================================================================
