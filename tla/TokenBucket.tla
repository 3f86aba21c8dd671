---------------------------- MODULE TokenBucket ----------------------------
(***************************************************************************)
(* The Redis token bucket that paces the pulls of one source.  Workers of  *)
(* several processes share it: the Lua script that refills and consumes is *)
(* one step, everything around it is not.                                  *)
(*                                                                         *)
(*   services/ingestion/src/lib/rate-limiter.ts                            *)
(*                                                                         *)
(* Time is counted in the milliseconds of the script; Second of them make  *)
(* a second (1000 in the code).  Tokens are counted in units of 1/Second   *)
(* token, so that what the script adds per millisecond, elapsed * refill,  *)
(* is a whole number although the code's tokens are fractions.             *)
(***************************************************************************)
EXTENDS Integers, FiniteSets

CONSTANTS
  Worker,            \* who acquires
  Capacity,          \* tokens a full bucket holds
  RefillPerSecond,   \* tokens per second
  Second,            \* milliseconds in a second
  TimeToLive,        \* seconds Redis keeps an untouched bucket (EXPIRE)
  NoDeadline,        \* acquire without maxWaitMs
  Idle,              \* bound: nobody waiting, the clock stops here
  Late,              \* bound: milliseconds a timer may fire late
  MaxSkew            \* bound: milliseconds Redis' clock is set back

ASSUME BucketAssumption ==
  /\ Capacity \in Nat \ {0} /\ RefillPerSecond \in Nat \ {0} /\ Second \in Nat \ {0}
  /\ TimeToLive \in Nat
  \* A bucket is kept for as long as it takes to fill: 3600 s against 1 s.
  /\ TimeToLive * RefillPerSecond >= Capacity
  /\ NoDeadline \notin Nat
  /\ Idle \in Nat /\ Late \in Nat /\ MaxSkew \in Nat

VARIABLES
  clock,      \* milliseconds gone by
  skew,       \* how far Redis' TIME has been set back
  stored,     \* the hash of the bucket was written
  tokens,     \* its field tokens, in units
  stamp,      \* its field ts
  call,       \* the acquire() of each worker
  spent,      \* history: units granted
  disturbed   \* history: who waits and was overtaken, or was told a wait by a
              \* clock that had been set back

bucket     == <<stored, tokens, stamp>>
bucketVars == <<clock, skew, bucket, call, spent, disturbed>>

Full   == Capacity * Second
Refill == RefillPerSecond

Stage  == {"none", "asking", "answered", "sleeping", "granted", "refused"}
NoCall == [at |-> "none", cost |-> 0, deadline |-> NoDeadline, wait |-> 0, wake |-> 0,
           slept |-> FALSE]
Call   == [at: Stage, cost: Nat, deadline: Nat \cup {NoDeadline}, wait: Nat, wake: Nat,
           slept: BOOLEAN]

BucketInit ==
  /\ clock = 0
  /\ skew = 0
  /\ stored = FALSE
  /\ tokens = 0
  /\ stamp = 0
  /\ call = [w \in Worker |-> NoCall]
  /\ spent = 0
  /\ disturbed = {}

(***************************************************************************)
(* What the script reads.                                                  *)
(***************************************************************************)
Now == clock - skew

\* Redis drops the key TimeToLive after it was last written.
KeyAlive == stored /\ Now < stamp + TimeToLive * Second

Tokens == IF KeyAlive THEN tokens ELSE Full
Stamp  == IF KeyAlive THEN stamp ELSE Now

Elapsed == IF Now < Stamp THEN 0 ELSE Now - Stamp

Level == IF Tokens + Elapsed * Refill > Full THEN Full ELSE Tokens + Elapsed * Refill

\* A slip: Math.floor.
WaitRoundedDown(missing) == missing \div Refill

\* math.ceil: the wait is never cut short.
Wait(missing) == (missing + Refill - 1) \div Refill

(***************************************************************************)
(* acquire(), step by step.                                                *)
(***************************************************************************)
\* A cost above the capacity throws, and would otherwise wait for ever.
Ask(w, cost, patience) ==
  /\ call[w].at = "none"
  /\ call' = [call EXCEPT ![w] =
       [NoCall EXCEPT !.at = IF cost > Capacity THEN "refused" ELSE "asking",
                      !.cost = cost,
                      !.deadline = IF patience = NoDeadline THEN NoDeadline
                                   ELSE clock + patience]]
  /\ UNCHANGED <<clock, skew, bucket, spent, disturbed>>

Missing(w) == call[w].cost * Second - Level

Answer(w) == IF Missing(w) > 0 THEN Wait(Missing(w)) ELSE 0

\* Whoever has not been granted yet is overtaken by the one that is.
Others(w) == {v \in Worker \ {w} : call[v].at \in {"asking", "answered", "sleeping"}}

\* A slip: the timestamp is left, and the refill is counted again.
ConsumeWithoutStamp(w) ==
  /\ Missing(w) <= 0
  /\ stored' = TRUE
  /\ tokens' = Level - call[w].cost * Second
  /\ stamp' = Stamp
  /\ disturbed' = (disturbed \cup Others(w)) \ {w}

\* HMSET and EXPIRE: the refilled bucket, less what is consumed.
Consume(w) ==
  /\ Missing(w) <= 0
  /\ stored' = TRUE
  /\ tokens' = Level - call[w].cost * Second
  /\ stamp' = Now
  /\ disturbed' = (disturbed \cup Others(w)) \ {w}

\* A bucket that is too low is left as it was, the refill included.
TooLow(w) ==
  /\ Missing(w) > 0
  /\ disturbed' = IF Now < Stamp THEN disturbed \cup {w} ELSE disturbed \ {w}
  /\ UNCHANGED bucket

\* The script runs and answers; an answer of zero is a grant.
Script(w) ==
  /\ call[w].at = "asking"
  /\ Consume(w) \/ TooLow(w)
  /\ call' = [call EXCEPT ![w] = [call[w] EXCEPT !.at = "answered", !.wait = Answer(w)]]
  /\ spent' = IF Answer(w) = 0 THEN spent + call[w].cost * Second ELSE spent
  /\ UNCHANGED <<clock, skew>>

\* Redis rejects the command, and acquire() with it.
RedisFails(w) ==
  /\ call[w].at = "asking"
  /\ call' = [call EXCEPT ![w].at = "refused"]
  /\ UNCHANGED <<clock, skew, bucket, spent, disturbed>>

Granted(w) ==
  /\ call[w].at = "answered" /\ call[w].wait = 0
  /\ call' = [call EXCEPT ![w].at = "granted"]
  /\ UNCHANGED <<clock, skew, bucket, spent, disturbed>>

TooPatient(w) ==
  call[w].deadline # NoDeadline /\ clock + call[w].wait > call[w].deadline

\* The projected wait would pass the deadline: the caller gets an error.
GiveUp(w) ==
  /\ call[w].at = "answered" /\ call[w].wait # 0
  /\ TooPatient(w)
  /\ call' = [call EXCEPT ![w].at = "refused"]
  /\ UNCHANGED <<clock, skew, bucket, spent, disturbed>>

\* setTimeout(wait)
Sleep(w) ==
  /\ call[w].at = "answered" /\ call[w].wait # 0
  /\ ~TooPatient(w)
  /\ call' = [call EXCEPT ![w] = [call[w] EXCEPT !.at = "sleeping", !.wake = clock + call[w].wait]]
  /\ UNCHANGED <<clock, skew, bucket, spent, disturbed>>

\* Round the loop: the tokens are asked for again, not kept for the sleeper.
Wake(w) ==
  /\ call[w].at = "sleeping" /\ clock >= call[w].wake
  /\ call' = [call EXCEPT ![w] = [call[w] EXCEPT !.at = "asking", !.slept = TRUE]]
  /\ UNCHANGED <<clock, skew, bucket, spent, disturbed>>

\* The caller goes on with what acquire() returned or threw.
Leave(w) ==
  /\ call[w].at \in {"granted", "refused"}
  /\ call' = [call EXCEPT ![w] = NoCall]
  /\ UNCHANGED <<clock, skew, bucket, spent, disturbed>>

(***************************************************************************)
(* Time.                                                                   *)
(***************************************************************************)
Tick ==
  /\ \/ clock < Idle
     \/ \E w \in Worker : call[w].at = "sleeping" /\ clock < call[w].wake + Late
  /\ clock' = clock + 1
  /\ UNCHANGED <<skew, bucket, call, spent, disturbed>>

\* Redis' clock is set back; a bucket that had run out may be gone by then.
SetBack ==
  /\ skew' \in (skew + 1)..MaxSkew
  /\ stored' \in {stored, KeyAlive}
  /\ disturbed' = Worker
  /\ UNCHANGED <<clock, tokens, stamp, call, spent>>

BucketStep(w) == Script(w) \/ Granted(w) \/ GiveUp(w) \/ Sleep(w) \/ Wake(w)

BucketNext ==
  \/ Tick
  \/ SetBack
  \/ \E w \in Worker : \/ \E cost \in Nat \ {0}, patience \in Nat \cup {NoDeadline} :
                            Ask(w, cost, patience)
                       \/ BucketStep(w)
                       \/ RedisFails(w)
                       \/ Leave(w)

BucketSpec == BucketInit /\ [][BucketNext]_bucketVars

BucketTypeOK ==
  /\ clock \in Nat /\ skew \in Nat
  /\ stored \in BOOLEAN /\ tokens \in 0..Full /\ stamp \in Int
  /\ call \in [Worker -> Call]
  /\ spent \in Nat
  /\ disturbed \subseteq Worker

(***************************************************************************)
(* Properties.                                                             *)
(***************************************************************************)
M == INSTANCE Meter WITH level <- Level

\* The bucket that refills only when somebody consumes from it, that Redis may
\* drop and whose clock may be set back, is a meter: in any stretch of time no
\* more is granted than a full bucket and what the time brought
\* (rate-limiter.ts 26-47).
KeepsRate == M!Spec

\* A worker that has slept the wait it was told, was not overtaken since and had
\* no clock set back under it finds its tokens: the rounded wait is long enough,
\* and rounding it does not send the worker round again
\* (rate-limiter.ts 39-42, 111-128).
WakesInTime ==
  \A w \in Worker \ disturbed :
    call[w].at = "asking" /\ call[w].slept => Level >= call[w].cost * Second
=============================================================================
