-------------------------- MODULE PullProofs --------------------------
(***************************************************************************)
(* What holds of Pull and of the bucket it shares, for any accounts, any   *)
(* scenes, any number of workers, any costs and patience, any capacity and *)
(* rate, any number of errors, and any number of times Redis' clock is set *)
(* back: first the bucket by itself, which implements the meter, then the  *)
(* jobs, whose success means that everything is stored, the pages in which *)
(* accounts are listed, and the pace of the reports they ask for.          *)
(***************************************************************************)
EXTENDS Pull, CalendarProofs, FiniteSetTheorems, TLAPS

\* Products of naturals, which the solver is given one at a time.
LEMMA ProductNat == ASSUME NEW a \in Nat, NEW b \in Nat PROVE a * b \in Nat
  BY SMT

LEMMA ProductGrows ==
  ASSUME NEW a \in Nat, NEW b \in Nat, NEW c \in Nat, a <= b
  PROVE  a * c <= b * c
  BY SMT

LEMMA ProductStep ==
  ASSUME NEW a \in Nat, NEW c \in Nat
  PROVE  (a + 1) * c = a * c + c
  BY SMT

LEMMA ProductTick ==
  ASSUME NEW a \in Nat, NEW b \in Nat, NEW c \in Nat, b <= a + 1
  PROVE  b * c <= a * c + c
  BY ProductGrows, ProductStep

LEMMA ProductSwap ==
  ASSUME NEW a \in Nat, NEW b \in Nat, NEW c \in Nat
  PROVE  (a * b) * c = (a * c) * b
  BY SMT

\* A positive amount never waits for no time, and is never negative.
LEMMA WaitPositive ==
  ASSUME NEW n \in Nat \ {0}
  PROVE  Wait(n) \in Nat \ {0}
  <1>1. Refill \in Nat \ {0}
    BY BucketAssumption DEF Refill
  <1>2. n + Refill - 1 \in Nat /\ n + Refill - 1 >= Refill
    BY <1>1
  <1> QED BY <1>1, <1>2, SMT DEF Wait

LEMMA Capped ==
  ASSUME NEW f \in Nat, NEW t \in 0..f, NEW g \in Nat
  PROVE  (IF t + g > f THEN f ELSE t + g) \in 0..f
  BY SMT

LEMMA CappedGrows ==
  ASSUME NEW f \in Nat, NEW t \in 0..f, NEW g \in Nat, NEW h \in Nat, g <= h
  PROVE  (IF t + g > f THEN f ELSE t + g) <= (IF t + h > f THEN f ELSE t + h)
  BY SMT

LEMMA SmallerLeft ==
  ASSUME NEW a \in Int, NEW b \in Int, NEW c \in Int, b < c
  PROVE  a - c < a - b /\ a - b \in Int /\ a - c \in Int
  BY SMT

\* The time gone by since a stamp, which is none if the stamp is ahead.
LEMMA Since ==
  ASSUME NEW n \in Int, NEW s \in Int
  PROVE  (IF n < s THEN 0 ELSE n - s) \in Nat
  BY SMT

LEMMA SinceGrows ==
  ASSUME NEW m \in Int, NEW n \in Int, NEW s \in Int, m < n
  PROVE  (IF m < s THEN 0 ELSE m - s) <= (IF n < s THEN 0 ELSE n - s)
  BY SMT

LEMMA FullNat == Full \in Nat /\ Refill \in Nat \ {0}
  BY BucketAssumption, ProductNat DEF Full, Refill

\* What is left of the type invariant when only the bucket matters.
Sane == /\ clock \in Nat /\ skew \in Nat
        /\ stored \in BOOLEAN /\ tokens \in 0..Full /\ stamp \in Int

LEMMA ReadsSane ==
  ASSUME Sane
  PROVE  Now \in Int /\ Tokens \in 0..Full /\ Stamp \in Int /\ Elapsed \in Nat
  BY FullNat DEF Sane, Now, Tokens, Stamp, Elapsed

LEMMA LevelType == ASSUME Sane PROVE Level \in 0..Full
  <1>1. Tokens \in 0..Full /\ Elapsed \in Nat BY ReadsSane
  <1>2. Elapsed * Refill \in Nat BY <1>1, FullNat, ProductNat
  <1> QED BY <1>1, <1>2, FullNat DEF Level

LEMMA LevelNextType == ASSUME Sane' PROVE Level' \in 0..Full
  <1>1. Tokens' \in 0..Full BY FullNat DEF Sane, Tokens
  <1>2. Now' \in Int BY DEF Sane, Now
  <1>3. Stamp' \in Int BY <1>2 DEF Sane, Stamp
  <1>4. Elapsed' = IF Now' < Stamp' THEN 0 ELSE Now' - Stamp' BY DEF Elapsed
  <1>5. Elapsed' \in Nat BY <1>2, <1>3, <1>4, Since
  <1>6. Elapsed' * Refill \in Nat BY <1>5, FullNat, ProductNat
  <1>7. Level' = IF Tokens' + Elapsed' * Refill > Full THEN Full
                 ELSE Tokens' + Elapsed' * Refill
    BY DEF Level
  <1> QED BY <1>1, <1>6, <1>7, FullNat, Capped

\* The bucket that Redis has dropped would be full by now.
LEMMA DroppedIsFull ==
  ASSUME NEW t \in Nat, t + 1 >= TimeToLive * Second
  PROVE  t * Refill + Refill >= Full
  <1> DEFINE life == TimeToLive * Second
  <1>1. life \in Nat BY BucketAssumption, ProductNat
  <1>2. life * Refill <= (t + 1) * Refill
    BY <1>1, FullNat, ProductGrows
  <1>3. (t + 1) * Refill = t * Refill + Refill BY FullNat, ProductStep
  <1>4. life * Refill = (TimeToLive * Refill) * Second
    BY BucketAssumption, FullNat, ProductSwap
  <1>5. /\ TimeToLive * Refill \in Nat
        /\ Capacity <= TimeToLive * Refill
        /\ Capacity \in Nat /\ Second \in Nat
    BY BucketAssumption, FullNat, ProductNat DEF Refill
  <1>6. Capacity * Second <= (TimeToLive * Refill) * Second
    BY <1>5, ProductGrows
  <1>7. t * Refill \in Nat /\ life * Refill \in Nat
    BY <1>1, FullNat, ProductNat
  <1> HIDE DEF life
  <1> QED BY <1>2, <1>3, <1>4, <1>6, <1>7, FullNat DEF Full

(***************************************************************************)
(* Types.                                                                  *)
(***************************************************************************)
LEMMA TypesInit == BucketInit => BucketTypeOK
  <1> SUFFICES ASSUME BucketInit PROVE BucketTypeOK OBVIOUS
  <1>1. NoCall \in Call BY DEF NoCall, Call, Stage
  <1>2. call \in [Worker -> Call] BY <1>1 DEF BucketInit
  <1>3. tokens \in 0..Full /\ clock \in Nat /\ skew \in Nat /\ stamp \in Int /\ spent \in Nat
    BY FullNat DEF BucketInit
  <1>4. stored \in BOOLEAN BY DEF BucketInit
  <1> QED BY <1>2, <1>3, <1>4 DEF BucketInit, BucketTypeOK

LEMMA TypesSane == BucketTypeOK => Sane
  BY DEF BucketTypeOK, Sane

LEMMA CallCost ==
  ASSUME BucketTypeOK, NEW w \in Worker
  PROVE  /\ call[w] \in Call
         /\ call[w].cost * Second \in Nat
         /\ Missing(w) \in Int
         /\ Answer(w) \in Nat
         /\ Answer(w) = 0 <=> Missing(w) <= 0
  <1>1. call[w] \in Call BY DEF BucketTypeOK
  <1>2. call[w].cost \in Nat BY <1>1 DEF Call
  <1>3. call[w].cost * Second \in Nat BY <1>2, BucketAssumption, ProductNat
  <1>4. Level \in 0..Full BY TypesSane, LevelType
  <1>5. Missing(w) \in Int BY <1>3, <1>4, FullNat DEF Missing
  <1>6. CASE Missing(w) > 0
    <2>1. Wait(Missing(w)) \in Nat \ {0} BY <1>5, <1>6, WaitPositive
    <2> QED BY <1>1, <1>3, <1>5, <1>6, <2>1 DEF Answer
  <1>7. CASE ~(Missing(w) > 0)
    BY <1>1, <1>3, <1>5, <1>7 DEF Answer
  <1> QED BY <1>6, <1>7

\* What Consume writes fits the bucket.
LEMMA ConsumeFits ==
  ASSUME BucketTypeOK, NEW w \in Worker, Consume(w)
  PROVE  /\ stored' = TRUE /\ tokens' = Level - call[w].cost * Second
         /\ tokens' \in 0..Full /\ stamp' = Now /\ stamp' \in Int
  <1>1. Level \in 0..Full BY TypesSane, LevelType
  <1>2. call[w].cost * Second \in Nat BY CallCost
  <1>3. Level - call[w].cost * Second \in 0..Full
    BY <1>1, <1>2, FullNat DEF Consume, Missing
  <1> QED BY <1>3, TypesSane, ReadsSane DEF Consume

LEMMA TypesNext == BucketTypeOK /\ [BucketNext]_bucketVars => BucketTypeOK'
  <1> SUFFICES ASSUME BucketTypeOK, [BucketNext]_bucketVars PROVE BucketTypeOK'
    OBVIOUS
  <1> USE DEF BucketTypeOK
  <1>1. CASE UNCHANGED bucketVars
    BY <1>1 DEF bucketVars, bucket
  <1>2. CASE Tick BY <1>2 DEF Tick, bucket
  <1>3. CASE SetBack
    <2>1. KeyAlive \in BOOLEAN BY DEF KeyAlive
    <2>2. stored' \in BOOLEAN BY <1>3, <2>1 DEF SetBack
    <2>3. skew' \in Nat BY <1>3, BucketAssumption DEF SetBack
    <2> QED BY <1>3, <2>2, <2>3 DEF SetBack
  <1>4. ASSUME NEW w \in Worker, NEW cost \in Nat \ {0},
               NEW patience \in Nat \cup {NoDeadline}, Ask(w, cost, patience)
        PROVE  BucketTypeOK'
    <2> DEFINE asked == [NoCall EXCEPT
                  !.at = IF cost > Capacity THEN "refused" ELSE "asking",
                  !.cost = cost,
                  !.deadline = IF patience = NoDeadline THEN NoDeadline
                               ELSE clock + patience]
    <2>1. (IF patience = NoDeadline THEN NoDeadline ELSE clock + patience)
             \in Nat \cup {NoDeadline}
      OBVIOUS
    <2>2. asked \in Call BY <2>1 DEF NoCall, Call, Stage
    <2>3. call' = [call EXCEPT ![w] = asked] BY <1>4 DEF Ask
    <2> HIDE DEF asked
    <2>4. call' \in [Worker -> Call] BY <2>2, <2>3
    <2> QED BY <1>4, <2>4 DEF Ask, bucket
  <1>5. ASSUME NEW w \in Worker, Script(w) PROVE BucketTypeOK'
    <2>1. [call[w] EXCEPT !.at = "answered", !.wait = Answer(w)] \in Call
      BY CallCost DEF Call, Stage
    <2>2. call' \in [Worker -> Call] BY <1>5, <2>1 DEF Script
    <2>3. spent' \in Nat BY <1>5, CallCost DEF Script
    <2>4. CASE Consume(w)
      BY <1>5, <2>2, <2>3, <2>4, ConsumeFits DEF Script, Consume, Others
    <2>5. CASE TooLow(w)
      BY <1>5, <2>2, <2>3, <2>5 DEF Script, TooLow, bucket
    <2> QED BY <1>5, <2>4, <2>5 DEF Script
  <1>6. ASSUME NEW w \in Worker, Granted(w) \/ GiveUp(w) \/ RedisFails(w)
        PROVE  BucketTypeOK'
    BY <1>6 DEF Granted, GiveUp, RedisFails, Call, Stage, bucket
  <1>7. ASSUME NEW w \in Worker, Sleep(w) PROVE BucketTypeOK'
    <2>1. call[w] \in Call /\ clock + call[w].wait \in Nat BY DEF Call
    <2>2. [call[w] EXCEPT !.at = "sleeping", !.wake = clock + call[w].wait] \in Call
      BY <2>1 DEF Call, Stage
    <2> QED BY <1>7, <2>2 DEF Sleep, bucket
  <1>8. ASSUME NEW w \in Worker, Wake(w) PROVE BucketTypeOK'
    <2>1. [call[w] EXCEPT !.at = "asking", !.slept = TRUE] \in Call
      BY DEF Call, Stage
    <2> QED BY <1>8, <2>1 DEF Wake, bucket
  <1>9. ASSUME NEW w \in Worker, Leave(w) PROVE BucketTypeOK'
    <2>1. NoCall \in Call BY DEF NoCall, Call, Stage
    <2> QED BY <1>9, <2>1 DEF Leave, bucket
  <1> QED BY <1>1, <1>2, <1>3, <1>4, <1>5, <1>6, <1>7, <1>8, <1>9
             DEF BucketNext, BucketStep

\* Every variable of the bucket keeps its type: no amount is ever negative or
\* above what the bucket holds, whatever is asked of it.
THEOREM BucketTypes == BucketSpec => []BucketTypeOK
  BY TypesInit, TypesNext, PTL DEF BucketSpec

(***************************************************************************)
(* The refinement.                                                         *)
(***************************************************************************)
LEMMA MeterInit == BucketInit => M!Init
  <1> SUFFICES ASSUME BucketInit PROVE M!Init OBVIOUS
  <1>1. Now = 0 /\ Tokens = Full /\ Stamp = 0 /\ Elapsed = 0
    BY DEF BucketInit, Now, KeyAlive, Tokens, Stamp, Elapsed
  <1>2. Elapsed * Refill = 0 BY <1>1, FullNat
  <1>3. Level = Full BY <1>1, <1>2, FullNat DEF Level
  <1> QED BY <1>3 DEF M!Init, BucketInit

\* Whoever leaves the bucket and the clocks alone leaves the level alone.
LEMMA LevelFrame ==
  ASSUME UNCHANGED <<clock, skew, bucket>> PROVE Level' = Level
  BY DEF bucket, Level, Tokens, Stamp, Elapsed, Now, KeyAlive

LEMMA TickElapses ==
  ASSUME BucketTypeOK, Tick PROVE M!Elapse
  <1> USE DEF BucketTypeOK
  <1>1. clock' = clock + 1 /\ UNCHANGED <<skew, stored, tokens, stamp, spent>>
    BY DEF Tick, bucket
  <1>2. Sane /\ Sane' BY <1>1 DEF Sane
  <1>3. Level \in 0..Full BY <1>2, LevelType
  <1>4. Level' \in 0..Full
    <2>1. Tokens' \in 0..Full /\ Elapsed' \in Nat
      BY <1>1, <1>2, FullNat DEF Sane, Now, KeyAlive, Tokens, Stamp, Elapsed
    <2>2. Elapsed' * Refill \in Nat BY <2>1, FullNat, ProductNat
    <2>3. Level' = IF Tokens' + Elapsed' * Refill > Full THEN Full
                   ELSE Tokens' + Elapsed' * Refill
      BY DEF Level
    <2> QED BY <2>1, <2>2, <2>3, FullNat, Capped
  <1>5. Now' = Now + 1 /\ Now \in Int BY <1>1 DEF Now
  <1>6. Level' <= Level + Refill
    <2>1. CASE KeyAlive'
      <3>1. KeyAlive BY <1>1, <1>5, <2>1, BucketAssumption, ProductNat DEF KeyAlive
      <3>2. Tokens' = Tokens /\ Tokens \in 0..Full
        BY <1>1, <2>1, <3>1 DEF Tokens
      <3>3. Elapsed \in Nat /\ Elapsed' \in Nat /\ Elapsed' <= Elapsed + 1
        BY <1>1, <1>5, <2>1, <3>1 DEF Elapsed, Stamp
      <3>4. Elapsed' * Refill <= Elapsed * Refill + Refill
        BY <3>3, FullNat, ProductTick
      <3>6. Elapsed * Refill \in Nat /\ Elapsed' * Refill \in Nat
        BY <3>3, FullNat, ProductNat
      <3> QED BY <3>2, <3>4, <3>6, FullNat DEF Level
    <2>2. CASE ~KeyAlive' /\ KeyAlive
      <3>1. Now >= stamp + TimeToLive * Second - 1 /\ stored
        BY <1>1, <1>5, <2>2, BucketAssumption, ProductNat DEF KeyAlive
      <3>2. Stamp = stamp /\ Tokens = tokens BY <2>2 DEF Stamp, Tokens
      <3>3. Elapsed \in Nat /\ Elapsed + 1 >= TimeToLive * Second
        BY <1>5, <3>1, <3>2, BucketAssumption, ProductNat DEF Elapsed
      <3>4. Elapsed * Refill + Refill >= Full BY <3>3, DroppedIsFull
      <3>5. Elapsed * Refill \in Nat BY <3>3, FullNat, ProductNat
      <3> QED BY <1>4, <3>2, <3>4, <3>5, FullNat DEF Level
    <2>3. CASE ~KeyAlive
      <3>1. Tokens = Full /\ Elapsed = 0 BY <1>5, <2>3 DEF Tokens, Elapsed, Stamp
      <3>2. Elapsed * Refill = 0 BY <3>1, FullNat
      <3>3. Level = Full BY <3>1, <3>2, FullNat DEF Level
      <3> QED BY <1>4, <3>3, FullNat
    <2> QED BY <2>1, <2>2, <2>3
  <1> QED BY <1>1, <1>3, <1>4, <1>6 DEF M!Elapse

LEMMA SetBackLoses ==
  ASSUME BucketTypeOK, SetBack PROVE M!Lose
  <1>1. /\ clock' = clock /\ tokens' = tokens /\ stamp' = stamp /\ spent' = spent
        /\ clock \in Nat /\ skew \in Nat /\ skew' \in Nat /\ skew' > skew
        /\ stamp \in Int /\ tokens \in 0..Full
    BY BucketAssumption DEF SetBack, BucketTypeOK
  <1>2. Sane BY DEF Sane, BucketTypeOK
  <1>3. Level \in 0..Full BY <1>2, LevelType
  <1>4. Now \in Int /\ Now' \in Int /\ Now' < Now
    <2>1. Now = clock - skew /\ Now' = clock - skew' BY <1>1 DEF Now
    <2>2. clock \in Int /\ skew \in Int /\ skew' \in Int /\ skew < skew' BY <1>1
    <2> QED BY <2>1, <2>2, SmallerLeft
  <1>5. Level' \in 0..Full
    <2>1. Tokens' \in 0..Full /\ Elapsed' \in Nat
      <3>1. Tokens' \in 0..Full BY <1>1, FullNat DEF Tokens
      <3>2. Stamp' \in Int BY <1>1, <1>4 DEF Stamp
      <3>3. Elapsed' = IF Now' < Stamp' THEN 0 ELSE Now' - Stamp' BY DEF Elapsed
      <3> QED BY <1>4, <3>1, <3>2, <3>3, Since
    <2>2. Elapsed' * Refill \in Nat BY <2>1, FullNat, ProductNat
    <2>3. Level' = IF Tokens' + Elapsed' * Refill > Full THEN Full
                   ELSE Tokens' + Elapsed' * Refill
      BY DEF Level
    <2> QED BY <2>1, <2>2, <2>3, FullNat, Capped
  <1>6. Level' <= Level
    <2>1. CASE KeyAlive
      <3>1. Stamp = stamp /\ Tokens = tokens BY <2>1 DEF Stamp, Tokens
      <3>2. CASE KeyAlive'
        <4>1. Stamp' = stamp /\ Tokens' = tokens
          BY <1>1, <3>2 DEF Stamp, Tokens
        <4>2. Elapsed \in Nat /\ Elapsed' \in Nat /\ Elapsed' <= Elapsed
          <5>1. /\ Elapsed = IF Now < stamp THEN 0 ELSE Now - stamp
                /\ Elapsed' = IF Now' < stamp THEN 0 ELSE Now' - stamp
            BY <3>1, <4>1 DEF Elapsed
          <5> QED BY <1>1, <1>4, <5>1, Since, SinceGrows
        <4>3. Elapsed' * Refill <= Elapsed * Refill
          BY <4>2, FullNat, ProductGrows
        <4>4. Elapsed * Refill \in Nat /\ Elapsed' * Refill \in Nat
          BY <4>2, FullNat, ProductNat
        <4>5. /\ Level = IF tokens + Elapsed * Refill > Full THEN Full
                         ELSE tokens + Elapsed * Refill
              /\ Level' = IF tokens + Elapsed' * Refill > Full THEN Full
                          ELSE tokens + Elapsed' * Refill
          BY <3>1, <4>1 DEF Level
        <4> QED BY <1>1, <4>3, <4>4, <4>5, FullNat, CappedGrows
      <3>3. CASE ~KeyAlive'
        <4>1. stored BY <2>1 DEF KeyAlive
        <4>2. stored' BY <2>1, <4>1 DEF SetBack
        <4>3. Now < stamp + TimeToLive * Second BY <2>1 DEF KeyAlive
        <4>4. Now' < stamp' + TimeToLive * Second
          BY <1>1, <1>4, <4>3, BucketAssumption, ProductNat
        <4> QED BY <3>3, <4>2, <4>4 DEF KeyAlive
      <3> QED BY <3>2, <3>3
    <2>2. CASE ~KeyAlive
      <3>1. Tokens = Full /\ Elapsed = 0 BY <1>4, <2>2 DEF Tokens, Elapsed, Stamp
      <3>2. Elapsed * Refill = 0 BY <3>1, FullNat
      <3>3. Level = Full BY <3>1, <3>2, FullNat DEF Level
      <3> QED BY <1>5, <3>3, FullNat
    <2> QED BY <2>1, <2>2
  <1> QED BY <1>1, <1>3, <1>5, <1>6 DEF M!Lose

\* A grant takes what it costs; the stamp that goes with it leaves nothing to be
\* refilled a second time.
LEMMA ConsumeGrants ==
  ASSUME BucketTypeOK, NEW w \in Worker, Script(w), Consume(w)
  PROVE  [M!Next]_(M!meter)
  <1> DEFINE cost == call[w].cost * Second
  <1>1. cost \in Nat /\ Missing(w) \in Int /\ Missing(w) = cost - Level
        /\ (Answer(w) = 0 <=> Missing(w) <= 0)
    BY CallCost DEF Missing
  <1>2. stored' = TRUE /\ tokens' = Level - cost /\ tokens' \in 0..Full /\ stamp' = Now
    BY ConsumeFits
  <1>3. UNCHANGED <<clock, skew>> BY DEF Script
  <1>4. spent' = spent + cost BY <1>1 DEF Script, Consume
  <1>5. Now' = Now /\ Now \in Int BY <1>3 DEF Now, BucketTypeOK
  <1>6. Level' = Level - cost
    <2>1. Tokens' \in {tokens', Full} /\ Stamp' = Now
      BY <1>2, <1>5 DEF Tokens, Stamp
    <2>2. Elapsed' = 0 BY <1>5, <2>1 DEF Elapsed
    <2>3. Elapsed' * Refill = 0 BY <2>2, FullNat
    <2>4. CASE TimeToLive * Second > 0
      <3>1. KeyAlive'
        BY <1>2, <1>5, <2>4, BucketAssumption, ProductNat DEF KeyAlive
      <3>2. Tokens' = tokens' BY <3>1 DEF Tokens
      <3>3. Tokens' \in 0..Full BY <1>2, <3>2
      <3> QED BY <1>2, <2>3, <3>2, <3>3, FullNat DEF Level
    <2>5. TimeToLive * Second > 0
      <3>1. TimeToLive # 0
        <4> SUFFICES ASSUME TimeToLive = 0 PROVE FALSE OBVIOUS
        <4>1. TimeToLive * RefillPerSecond = 0 BY BucketAssumption
        <4> QED BY <4>1, BucketAssumption
      <3> QED BY <3>1, BucketAssumption
    <2> QED BY <2>4, <2>5
  <1>7. Level \in 0..Full BY TypesSane, LevelType
  <1>8. spent \in Nat BY DEF BucketTypeOK
  <1> HIDE DEF cost
  <1>9. CASE cost = 0
    <2>1. Level' = Level /\ spent' = spent BY <1>1, <1>4, <1>6, <1>7, <1>8, <1>9, FullNat
    <2> QED BY <1>3, <2>1 DEF M!meter
  <1>10. CASE cost > 0
    <2>1. M!Grant
      BY <1>1, <1>2, <1>3, <1>4, <1>6, <1>7, <1>8, <1>10, FullNat DEF M!Grant
    <2> QED BY <2>1 DEF M!Next
  <1> QED BY <1>1, <1>9, <1>10

LEMMA MeterNext ==
  BucketTypeOK /\ [BucketNext]_bucketVars => [M!Next]_(M!meter)
  <1> SUFFICES ASSUME BucketTypeOK, [BucketNext]_bucketVars
               PROVE  [M!Next]_(M!meter)
    OBVIOUS
  <1>1. ASSUME UNCHANGED <<clock, skew, bucket, spent>>
        PROVE  UNCHANGED M!meter
    BY <1>1, LevelFrame DEF M!meter
  <1>2. CASE UNCHANGED bucketVars BY <1>1, <1>2 DEF bucketVars
  <1>3. CASE Tick BY <1>3, TickElapses DEF M!Next
  <1>4. CASE SetBack BY <1>4, SetBackLoses DEF M!Next
  <1>5. ASSUME NEW w \in Worker, Script(w) PROVE [M!Next]_(M!meter)
    <2>1. CASE Consume(w) BY <1>5, <2>1, ConsumeGrants
    <2>2. CASE TooLow(w)
      <3>1. Answer(w) # 0 BY <2>2, CallCost DEF TooLow
      <3>2. UNCHANGED <<clock, skew, bucket, spent>>
        BY <1>5, <2>2, <3>1 DEF Script, TooLow
      <3> QED BY <1>1, <3>2
    <2> QED BY <1>5, <2>1, <2>2 DEF Script
  <1>6. ASSUME NEW w \in Worker,
               \/ \E cost \in Nat \ {0}, patience \in Nat \cup {NoDeadline} :
                    Ask(w, cost, patience)
               \/ Granted(w) \/ GiveUp(w) \/ Sleep(w) \/ Wake(w)
               \/ RedisFails(w) \/ Leave(w)
        PROVE  [M!Next]_(M!meter)
    <2>1. UNCHANGED <<clock, skew, bucket, spent>>
      BY <1>6 DEF Ask, Granted, GiveUp, Sleep, Wake, RedisFails, Leave
    <2> QED BY <1>1, <2>1
  <1> QED BY <1>2, <1>3, <1>4, <1>5, <1>6 DEF BucketNext, BucketStep

\* The bucket implements the meter: whatever the workers ask, however long they
\* sleep, and whether or not Redis drops the bucket or has its clock set back, no
\* more is granted than a full bucket and what the time brought.
THEOREM BucketIsMeter == BucketSpec => KeepsRate
  <1>1. BucketSpec => []BucketTypeOK BY BucketTypes
  <1>2. BucketInit => M!Init BY MeterInit
  <1>3. BucketTypeOK /\ [BucketNext]_bucketVars => [M!Next]_(M!meter) BY MeterNext
  <1> QED BY <1>1, <1>2, <1>3, PTL DEF BucketSpec, KeepsRate, M!Spec

(***************************************************************************)
(* The waits.                                                              *)
(***************************************************************************)
LEMMA Quotient ==
  ASSUME NEW a \in Nat, NEW b \in Nat \ {0}
  PROVE  (a \div b) \in Nat /\ a < ((a \div b) + 1) * b
  BY SMT

\* The wait that is told brings what is missing.
LEMMA WaitBrings ==
  ASSUME NEW n \in Nat \ {0}
  PROVE  n <= Wait(n) * Refill
  <1> DEFINE a == n + Refill - 1
             q == a \div Refill
  <1>1. Refill \in Nat \ {0} /\ a \in Nat BY FullNat
  <1>2. q \in Nat /\ a < (q + 1) * Refill
    <2> HIDE DEF a
    <2> QED BY <1>1, Quotient
  <1>3. (q + 1) * Refill = q * Refill + Refill /\ q * Refill \in Nat
    <2> HIDE DEF q
    <2> QED BY <1>1, <1>2, ProductStep, ProductNat
  <1>4. Wait(n) = q BY DEF Wait
  <1>5. n + Refill - 1 < q * Refill + Refill BY <1>2, <1>3
  <1> HIDE DEF q, a
  <1> QED BY <1>1, <1>3, <1>4, <1>5

\* Time that passes under a clock that is not set back fills the bucket.
LEMMA TickBrings ==
  ASSUME BucketTypeOK, Tick, Now >= Stamp
  PROVE  /\ Now' >= Stamp'
         /\ Level' = Full \/ Level' >= Level + Refill
  <1> USE DEF BucketTypeOK
  <1>1. clock' = clock + 1 /\ UNCHANGED <<skew, stored, tokens, stamp>>
    BY DEF Tick, bucket
  <1>2. Now' = Now + 1 /\ Now \in Int BY <1>1 DEF Now
  <1>3. CASE KeyAlive'
    <2>1. KeyAlive BY <1>1, <1>2, <1>3, BucketAssumption, ProductNat DEF KeyAlive
    <2>2. Tokens' = Tokens /\ Tokens \in 0..Full /\ Stamp = stamp /\ Stamp' = stamp
      BY <1>1, <1>3, <2>1 DEF Tokens, Stamp
    <2>3. Now' >= Stamp' BY <1>2, <2>2
    <2>4. Elapsed \in Nat /\ Elapsed' = Elapsed + 1 BY <1>1, <1>2, <2>2 DEF Elapsed
    <2>5. Elapsed' * Refill = Elapsed * Refill + Refill /\ Elapsed * Refill \in Nat
      BY <2>4, FullNat, ProductStep, ProductNat
    <2> QED BY <2>2, <2>3, <2>5, FullNat DEF Level
  <1>4. CASE ~KeyAlive'
    <2>1. Tokens' = Full /\ Stamp' = Now' BY <1>1, <1>4 DEF Tokens, Stamp, Now
    <2>2. Elapsed' = 0 BY <1>2, <2>1 DEF Elapsed
    <2>3. Elapsed' * Refill = 0 BY <2>2, FullNat
    <2>4. Level' = Full BY <2>1, <2>3, FullNat DEF Level
    <2> QED BY <1>2, <2>1, <2>4
  <1> QED BY <1>3, <1>4

\* Who has been told a wait, what is left of it, and that it is enough.
Waits(w) == \/ call[w].at = "answered" /\ call[w].wait # 0
            \/ call[w].at = "sleeping"
            \/ call[w].at = "asking" /\ call[w].slept
Rest(w)  == IF call[w].at = "answered" THEN call[w].wait
            ELSE IF call[w].at = "sleeping" /\ call[w].wake > clock
            THEN call[w].wake - clock ELSE 0
Enough(w) == /\ Now >= Stamp
             /\ Level + Rest(w) * Refill >= call[w].cost * Second

\* An acquire that goes on can be granted some time.
Affordable ==
  \A w \in Worker : call[w].at \in {"asking", "answered", "sleeping"}
                    => call[w].cost <= Capacity

InTime == /\ BucketTypeOK /\ Affordable
          /\ \A w \in Worker \ disturbed : Waits(w) => Enough(w)

LEMMA RestType ==
  ASSUME BucketTypeOK, NEW w \in Worker
  PROVE  Rest(w) \in Nat /\ Rest(w) * Refill \in Nat /\ Level \in Int
         /\ call[w].cost * Second \in Nat
  <1>1. call[w] \in Call /\ clock \in Nat BY DEF BucketTypeOK
  <1>2. Rest(w) \in Nat BY <1>1 DEF Rest, Call
  <1>3. Level \in 0..Full BY TypesSane, LevelType
  <1> QED BY <1>2, <1>3, CallCost, FullNat, ProductNat

\* What can be granted at all is no more than a full bucket.
LEMMA CostFits ==
  ASSUME InTime, NEW w \in Worker, call[w].at \in {"asking", "answered", "sleeping"}
  PROVE  call[w].cost * Second <= Full
  <1>1. call[w].cost <= Capacity /\ call[w].cost \in Nat
    BY DEF InTime, Affordable, BucketTypeOK, Call
  <1> QED BY <1>1, BucketAssumption, ProductGrows DEF Full

LEMMA InTimeStart == BucketInit => InTime
  <1> SUFFICES ASSUME BucketInit PROVE InTime OBVIOUS
  <1>1. \A w \in Worker : call[w].at = "none" BY DEF BucketInit, NoCall
  <1> QED BY <1>1, TypesInit DEF InTime, Affordable, Waits

\* The costs.
LEMMA AffordableStep == BucketTypeOK /\ Affordable /\ [BucketNext]_bucketVars => Affordable'
  <1> SUFFICES ASSUME BucketTypeOK, Affordable, [BucketNext]_bucketVars PROVE Affordable'
    OBVIOUS
  <1> USE DEF BucketTypeOK, Affordable
  <1>1. ASSUME NEW w \in Worker, NEW cost \in Nat \ {0},
               NEW patience \in Nat \cup {NoDeadline}, Ask(w, cost, patience)
        PROVE  Affordable'
    <2> DEFINE asked == [NoCall EXCEPT
                  !.at = IF cost > Capacity THEN "refused" ELSE "asking",
                  !.cost = cost,
                  !.deadline = IF patience = NoDeadline THEN NoDeadline
                               ELSE clock + patience]
    <2>1. asked.cost = cost /\ (asked.at = "refused" \/ cost <= Capacity)
      BY BucketAssumption DEF NoCall
    <2>2. call' = [call EXCEPT ![w] = asked] BY <1>1 DEF Ask
    <2> HIDE DEF asked
    <2> QED BY <2>1, <2>2
  <1>2. ASSUME NEW w \in Worker, BucketStep(w) \/ RedisFails(w) \/ Leave(w)
        PROVE  Affordable'
    <2>1. /\ \A v \in Worker \ {w} : call'[v] = call[v]
          /\ \/ call'[w].cost = call[w].cost
                /\ call[w].at \in {"asking", "answered", "sleeping"}
             \/ call'[w].at = "none"
      <3>1. CASE BucketStep(w) \/ RedisFails(w)
        BY <3>1 DEF BucketStep, Script, Granted, GiveUp, Sleep, Wake, RedisFails, Call
      <3>2. CASE Leave(w) BY <3>2 DEF Leave, NoCall
      <3> QED BY <1>2, <3>1, <3>2
    <2> QED BY <2>1
  <1>3. CASE call' = call BY <1>3
  <1> QED BY <1>1, <1>2, <1>3 DEF BucketNext, Tick, SetBack, bucketVars

\* A worker whose call rests, and so do the bucket and the clocks.
LEMMA EnoughFrame ==
  ASSUME NEW w \in Worker, call'[w] = call[w], UNCHANGED <<clock, skew, bucket>>,
         Waits(w) => Enough(w)
  PROVE  Waits(w)' => Enough(w)'
  <1>1. Level' = Level BY LevelFrame
  <1>2. Now' = Now /\ Stamp' = Stamp BY DEF bucket, Now, Stamp, KeyAlive
  <1>3. Rest(w)' = Rest(w) /\ (Waits(w)' <=> Waits(w)) BY DEF Rest, Waits
  <1> QED BY <1>1, <1>2, <1>3 DEF Enough

LEMMA EnoughAfterTick ==
  ASSUME InTime, Tick, NEW w \in Worker, Waits(w), Enough(w)
  PROVE  Enough(w)'
  <1>1. BucketTypeOK /\ BucketTypeOK' BY TypesNext DEF InTime, BucketNext
  <1>2. Now' >= Stamp' /\ (Level' = Full \/ Level' >= Level + Refill)
    BY <1>1, TickBrings DEF Enough
  <1>3. call' = call /\ clock' = clock + 1 /\ clock \in Nat /\ call[w] \in Call
    BY <1>1 DEF Tick, BucketTypeOK
  <1>4. call[w].cost * Second <= Full /\ call[w].cost * Second \in Nat
    BY <1>1, CostFits, CallCost DEF Waits
  <1>5. /\ Rest(w) \in Nat /\ Rest(w)' \in Nat
        /\ Rest(w) * Refill \in Nat /\ Rest(w)' * Refill \in Nat
        /\ Level \in Int /\ Level' \in Int
    <2>1. Rest(w) \in Nat /\ Rest(w) * Refill \in Nat /\ Level \in Int BY <1>1, RestType
    <2>2. Rest(w)' \in Nat BY <1>3 DEF Rest, Call
    <2>3. Level' \in 0..Full
      <3>1. Sane' BY <1>1 DEF Sane, BucketTypeOK
      <3> QED BY <3>1, LevelNextType
    <2> QED BY <2>1, <2>2, <2>3, FullNat, ProductNat
  <1>6. Rest(w) <= Rest(w)' + 1 BY <1>3 DEF Rest, Call
  <1>7. Rest(w) * Refill <= Rest(w)' * Refill + Refill
    BY <1>5, <1>6, FullNat, ProductTick
  <1>8. Level + Rest(w) * Refill >= call[w].cost * Second BY DEF Enough
  <1>9. Level' + Rest(w)' * Refill >= call[w].cost * Second
    BY <1>2, <1>4, <1>5, <1>7, <1>8, FullNat
  <1> QED BY <1>2, <1>3, <1>9 DEF Enough

LEMMA EnoughAfterScript ==
  ASSUME InTime, NEW v \in Worker, Script(v), NEW w \in Worker \ disturbed', Waits(w)'
  PROVE  Enough(w)'
  <1>1. BucketTypeOK /\ UNCHANGED <<clock, skew>> BY DEF InTime, Script
  <1> DEFINE answered == [call[v] EXCEPT !.at = "answered", !.wait = Answer(v)]
  <1>2. /\ answered.at = "answered" /\ answered.wait = Answer(v)
        /\ answered.cost = call[v].cost
    BY <1>1 DEF BucketTypeOK, Call
  <1>3. call' = [call EXCEPT ![v] = answered] BY DEF Script
  <1> HIDE DEF answered
  <1>4. call'[v] = answered /\ \A o \in Worker \ {v} : call'[o] = call[o]
    BY <1>1, <1>3 DEF BucketTypeOK
  <1>5. CASE Consume(v)
    <2>1. Answer(v) = 0 BY <1>1, <1>5, CallCost DEF Consume
    <2>2. w # v BY <1>2, <1>4, <2>1 DEF Waits
    <2>3. call'[w] = call[w] BY <1>4, <2>2
    <2>4. call[w].at \in {"asking", "answered", "sleeping"} BY <2>3 DEF Waits
    <2> QED BY <1>5, <2>2, <2>4 DEF Consume, Others
  <1>6. CASE TooLow(v) /\ w = v
    <2>1. ~ (Now < Stamp) BY <1>6 DEF TooLow
    <2>2. Now \in Int /\ Stamp \in Int BY <1>1, TypesSane, ReadsSane
    <2>3. Missing(v) \in Nat \ {0} /\ Level \in Int /\ call[v].cost * Second \in Nat
      BY <1>1, <1>6, CallCost, RestType DEF TooLow
    <2>4. Answer(v) = Wait(Missing(v)) /\ Wait(Missing(v)) \in Nat
      BY <2>3, WaitPositive DEF Answer
    <2>5. Missing(v) <= Answer(v) * Refill BY <2>3, <2>4, WaitBrings
    <2>6. Answer(v) * Refill \in Nat BY <2>4, FullNat, ProductNat
    <2>7. Level + Answer(v) * Refill >= call[v].cost * Second
      BY <2>3, <2>5, <2>6 DEF Missing
    <2>8. Level' = Level /\ Now' = Now /\ Stamp' = Stamp
      <3>1. UNCHANGED <<clock, skew, bucket>> BY <1>1, <1>6 DEF TooLow
      <3> QED BY <3>1, LevelFrame DEF bucket, Now, Stamp, KeyAlive
    <2>9. Rest(w)' = Answer(v) /\ call'[w].cost = call[v].cost
      BY <1>2, <1>4, <1>6 DEF Rest
    <2> QED BY <2>1, <2>2, <2>7, <2>8, <2>9 DEF Enough
  <1>7. CASE TooLow(v) /\ w # v
    <2>1. UNCHANGED <<clock, skew, bucket>> BY <1>1, <1>7 DEF TooLow
    <2>2. w \notin disturbed /\ call'[w] = call[w] BY <1>4, <1>7 DEF TooLow
    <2> QED BY <2>1, <2>2, EnoughFrame DEF InTime
  <1> QED BY <1>5, <1>6, <1>7 DEF Script

LEMMA InTimeStep == InTime /\ [BucketNext]_bucketVars => InTime'
  <1> SUFFICES ASSUME InTime, [BucketNext]_bucketVars,
                      NEW w \in Worker \ disturbed', Waits(w)'
               PROVE  Enough(w)'
    BY TypesNext, AffordableStep DEF InTime
  <1>1. BucketTypeOK BY DEF InTime
  <1>2. ASSUME UNCHANGED <<clock, skew, bucket, disturbed>>, call'[w] = call[w]
        PROVE  Enough(w)'
    BY <1>2, EnoughFrame DEF InTime
  <1>3. CASE Tick
    <2>1. call' = call /\ disturbed' = disturbed BY <1>3 DEF Tick
    <2> QED BY <1>3, <2>1, EnoughAfterTick DEF InTime, Waits
  <1>4. CASE SetBack BY <1>4 DEF SetBack
  <1>5. ASSUME NEW v \in Worker, Script(v) PROVE Enough(w)' BY <1>5, EnoughAfterScript
  <1>6. ASSUME NEW v \in Worker \ {w},
               \/ \E cost \in Nat \ {0}, patience \in Nat \cup {NoDeadline} :
                    Ask(v, cost, patience)
               \/ Granted(v) \/ GiveUp(v) \/ Sleep(v) \/ Wake(v) \/ RedisFails(v) \/ Leave(v)
        PROVE  Enough(w)'
    <2>1. UNCHANGED <<clock, skew, bucket, disturbed>> /\ call'[w] = call[w]
      BY <1>1, <1>6
      DEF Ask, Granted, GiveUp, Sleep, Wake, RedisFails, Leave, BucketTypeOK
    <2> QED BY <1>2, <2>1
  <1>7. CASE \/ \E cost \in Nat \ {0}, patience \in Nat \cup {NoDeadline} :
                  Ask(w, cost, patience)
             \/ Granted(w) \/ GiveUp(w) \/ RedisFails(w) \/ Leave(w)
    <2>1. CASE Granted(w) \/ GiveUp(w) \/ RedisFails(w)
      BY <1>1, <2>1 DEF Granted, GiveUp, RedisFails, BucketTypeOK, Call, Waits
    <2>2. CASE Leave(w) BY <1>1, <2>2 DEF Leave, NoCall, BucketTypeOK, Waits
    <2>3. ASSUME NEW cost \in Nat \ {0}, NEW patience \in Nat \cup {NoDeadline},
                 Ask(w, cost, patience)
          PROVE  FALSE
      <3> DEFINE asked == [NoCall EXCEPT
                    !.at = IF cost > Capacity THEN "refused" ELSE "asking",
                    !.cost = cost,
                    !.deadline = IF patience = NoDeadline THEN NoDeadline
                                 ELSE clock + patience]
      <3>1. asked.at \in {"refused", "asking"} /\ asked.slept = FALSE BY DEF NoCall
      <3>2. call' = [call EXCEPT ![w] = asked] BY <2>3 DEF Ask
      <3> HIDE DEF asked
      <3>3. call'[w] = asked BY <1>1, <3>2 DEF BucketTypeOK
      <3> QED BY <3>1, <3>3 DEF Waits
    <2> QED BY <1>7, <2>1, <2>2, <2>3
  <1>8. CASE Sleep(w) \/ Wake(w)
    <2>1. /\ UNCHANGED <<clock, skew, bucket, disturbed>>
          /\ call[w] \in Call /\ clock \in Nat
      BY <1>1, <1>8 DEF Sleep, Wake, BucketTypeOK
    <2>2. Waits(w) /\ call'[w].cost = call[w].cost /\ Rest(w)' = Rest(w)
      <3>1. CASE Sleep(w)
        <4>1. /\ call[w].at = "answered" /\ call[w].wait # 0
              /\ call'[w].at = "sleeping" /\ call'[w].wake = clock + call[w].wait
              /\ call'[w].cost = call[w].cost
          BY <1>1, <3>1 DEF Sleep, BucketTypeOK, Call
        <4> QED BY <2>1, <4>1 DEF Waits, Rest, Call
      <3>2. CASE Wake(w)
        <4>1. /\ call[w].at = "sleeping" /\ clock >= call[w].wake
              /\ call'[w].at = "asking" /\ call'[w].cost = call[w].cost
          BY <1>1, <3>2 DEF Wake, BucketTypeOK, Call
        <4> QED BY <2>1, <4>1 DEF Waits, Rest, Call
      <3> QED BY <1>8, <3>1, <3>2
    <2>3. Enough(w) BY <2>1, <2>2 DEF InTime
    <2>4. Level' = Level /\ Now' = Now /\ Stamp' = Stamp
      BY <2>1, LevelFrame DEF bucket, Now, Stamp, KeyAlive
    <2> QED BY <2>2, <2>3, <2>4 DEF Enough
  <1>9. CASE UNCHANGED bucketVars BY <1>2, <1>9 DEF bucketVars
  <1> QED BY <1>3, <1>4, <1>5, <1>6, <1>7, <1>8, <1>9 DEF BucketNext, BucketStep

\* A worker that has slept its wait and was not overtaken finds its tokens, for any
\* capacity, rate and length of a second, however late its timer fires: what is
\* missing and what the rest of the wait brings add up to the cost at every moment
\* (rate-limiter.ts 39-42, 111-128).
THEOREM SleepersWakeInTime == BucketSpec => []WakesInTime
  <1>1. ASSUME InTime PROVE WakesInTime
    <2>1. SUFFICES ASSUME NEW w \in Worker \ disturbed, call[w].at = "asking", call[w].slept
                   PROVE  Level >= call[w].cost * Second
      BY DEF WakesInTime
    <2>2. Enough(w) BY <1>1, <2>1 DEF InTime, Waits
    <2>3. Rest(w) = 0 BY <2>1 DEF Rest
    <2>4. Rest(w) * Refill = 0 BY <2>3, FullNat
    <2>5. Level \in Int BY <1>1, RestType DEF InTime
    <2> QED BY <2>2, <2>4, <2>5 DEF Enough
  <1> QED BY <1>1, InTimeStart, InTimeStep, PTL DEF BucketSpec

(***************************************************************************)
(* The pulls and the other callers of acquire() use the bucket as it is    *)
(* meant to be used, so what holds of the bucket holds of them.            *)
(***************************************************************************)
SceneOK == scene \in Scenes

LEMMA SceneStays == [Next]_vars => scene' = scene
<1> SUFFICES ASSUME [Next]_vars PROVE scene' = scene OBVIOUS
<1>1. CASE UNCHANGED vars BY <1>1 DEF vars, pullVars
<1>2. CASE \/ Submit \/ Refused \/ Created \/ Test \/ ListPage \/ ListFails \/ ZoneAdded
           \/ \E a \in Account : LinkAccount(a)
  BY <1>2 DEF Submit, Refused, Created, Test, ListPage, ListFails, ZoneAdded, LinkAccount
<1>3. ASSUME NEW w \in Worker,
             \/ \E j \in Jobs : Deliver(w, j)
             \/ SourceFails(w) \/ StatementFails(w)
             \/ Acquire(w) \/ Return(w) \/ Limit(w) \/ LoseRedis(w)
      PROVE  scene' = scene
  BY <1>3 DEF Deliver, SourceFails, StatementFails, Acquire, Return, Limit, LoseRedis,
              Elsewhere, pullVars
<1>4. ASSUME NEW w \in Worker, Ends(w) PROVE scene' = scene
  BY <1>4 DEF Ends, ReadCredentials, UnknownKey, ListAccounts, NoAccounts, PullAccount,
              BadShape, Request, LimiterFails, Rows, NoRows, Store, OutsideTenant, Activate,
              FinishSuccess, AddRefreshes, FinishFailed, StopConnector, Throw, Elsewhere,
              Private
<1>5. CASE Time BY <1>5 DEF Time, pullVars
<1>6. QED BY <1>1, <1>2, <1>3, <1>4, <1>5 DEF Next

LEMMA SceneStep == SceneOK /\ [Next]_vars => SceneOK'
  BY SceneStays DEF SceneOK

\* What a scene is made of.
LEMMA SceneIs ==
  ASSUME SceneOK
  PROVE  /\ scene.source \in Source /\ scene.now \in Int /\ scene.shape \in BOOLEAN
         /\ scene.accounts \subseteq Account
         /\ \A j \in Jobs : /\ scene.jobs[j].granularity \in Granularity
                            /\ scene.jobs[j].period \in [start: Int, end: Int]
         /\ \A ask \in scene.asks : /\ ask.cost \in Nat \ {0}
                                    /\ ask.patience \in Nat \cup {NoDeadline}
         /\ OthersAsk => Jobs = {}
<1>1. scene \in Scenes BY DEF SceneOK
<1>2. scene.asks # {} => DOMAIN scene.jobs = {} BY <1>1, PullAssumption
<1>3. QED BY <1>1, <1>2, PullAssumption DEF Source, Jobs, OthersAsk

LEMMA BucketMoves == SceneOK /\ [Next]_vars => [BucketNext]_bucketVars
<1> SUFFICES ASSUME SceneOK, [Next]_vars PROVE [BucketNext]_bucketVars OBVIOUS
<1>1. CASE UNCHANGED vars BY <1>1 DEF vars
<1>2. CASE \/ Submit \/ Refused \/ Created \/ Test \/ ListPage \/ ListFails \/ ZoneAdded
           \/ \E a \in Account : LinkAccount(a)
  BY <1>2 DEF Submit, Refused, Created, Test, ListPage, ListFails, ZoneAdded, LinkAccount
<1>3. ASSUME NEW w \in Worker, NEW j \in Jobs, Deliver(w, j) PROVE UNCHANGED bucketVars
  BY <1>3 DEF Deliver
<1>4. ASSUME NEW w \in Worker, Ends(w) PROVE [BucketNext]_bucketVars
  <2>1. ASSUME NEW a \in Account, PullAccount(w, a) PROVE BucketNext
    <3>1. Ask(w, 1, NoDeadline) BY <2>1 DEF PullAccount
    <3>2. 1 \in Nat \ {0} /\ NoDeadline \in Nat \cup {NoDeadline} OBVIOUS
    <3>3. QED BY <3>1, <3>2 DEF BucketNext
  <2>2. CASE Request(w) \/ LimiterFails(w)
    BY <2>2 DEF Request, LimiterFails, BucketNext
  <2>3. CASE \/ ReadCredentials(w) \/ UnknownKey(w) \/ ListAccounts(w) \/ NoAccounts(w)
             \/ BadShape(w) \/ Rows(w) \/ NoRows(w) \/ Store(w) \/ OutsideTenant(w)
             \/ Activate(w) \/ FinishSuccess(w) \/ AddRefreshes(w) \/ FinishFailed(w)
             \/ StopConnector(w) \/ Throw(w)
    BY <2>3 DEF ReadCredentials, UnknownKey, ListAccounts, NoAccounts, BadShape, Rows, NoRows,
                Store, OutsideTenant, Activate, FinishSuccess, AddRefreshes, FinishFailed,
                StopConnector, Throw, Private
  <2>4. QED BY <1>4, <2>1, <2>2, <2>3 DEF Ends
<1>5. ASSUME NEW w \in Worker, SourceFails(w) \/ StatementFails(w)
      PROVE  UNCHANGED bucketVars
  BY <1>5 DEF SourceFails, StatementFails
<1>6. ASSUME NEW w \in Worker, Acquire(w) PROVE BucketNext
  <2>1. PICK ask \in scene.asks : Ask(w, ask.cost, ask.patience) BY <1>6 DEF Acquire
  <2>2. ask.cost \in Nat \ {0} /\ ask.patience \in Nat \cup {NoDeadline} BY SceneIs
  <2>3. QED BY <2>1, <2>2 DEF BucketNext
<1>7. ASSUME NEW w \in Worker, Return(w) \/ Limit(w) \/ LoseRedis(w) PROVE BucketNext
  BY <1>7 DEF Return, Limit, LoseRedis, BucketNext
<1>8. CASE Time BY <1>8 DEF Time, BucketNext
<1>9. QED BY <1>1, <1>2, <1>3, <1>4, <1>5, <1>6, <1>7, <1>8 DEF Next

\* Everything the pull handler and the other callers do to the rate limiter is a
\* use of acquire(): a behaviour of the pulls is one of the bucket
\* (pull.ts 42-51, rate-limiter.ts 99-134).
THEOREM PullsUseBucket == Spec => BucketSpec
<1>1. Init => BucketInit /\ SceneOK BY DEF Init, SceneOK
<1>2. SceneOK /\ [Next]_vars => SceneOK' BY SceneStep
<1>3. SceneOK /\ [Next]_vars => [BucketNext]_bucketVars BY BucketMoves
<1>4. QED BY <1>1, <1>2, <1>3, PTL DEF Spec, BucketSpec

\* What the run of the pulls is about never changes.
LEMMA Scenery == Spec => []SceneOK
<1>1. Init => SceneOK BY DEF Init, SceneOK
<1>2. QED BY <1>1, SceneStep, PTL DEF Spec

\* The pulls' bucket implements the meter.
THEOREM PullsKeepRate == Spec => KeepsRate
  BY PullsUseBucket, BucketIsMeter, PTL

\* A pull that has slept its wait finds its tokens.
THEOREM PullsWakeInTime == Spec => []WakesInTime
  BY PullsUseBucket, SleepersWakeInTime, PTL

(***************************************************************************)
(* The invariant of the pulls: what every worker that is on a job has seen *)
(* of the accounts it was told to pull, and what is true of a job when     *)
(* nobody is on it.                                                        *)
(***************************************************************************)
Place == {"idle", "credentials", "accounts", "loop", "acquire", "request", "store", "success",
          "enqueue", "failing", "throw", "stop"}

Code == {"", "AUTH_INVALID", "CONFIG_INVALID", "RATE_LIMITED", "TRANSIENT",
         "UPSTREAM_UNAVAILABLE", "TENANT_BOUNDARY_VIOLATION"}

RunRecord ==
  [status: {"none", "running", "success", "failed", "skipped"}, period: [start: Int, end: Int]]

WorkRecord ==
  [at: Place, job: Jobs \cup {0}, shape: BOOLEAN, todo: SUBSET Account, on: SUBSET Account,
   days: SUBSET Int, affected: SUBSET (Account \X Int), code: Code, finished: BOOLEAN]

PullTypes ==
  /\ SceneOK
  /\ accounts \subseteq Account
  /\ queue \in [Jobs -> [state: {"waiting", "active", "done", "failed"}, tries: Nat]]
  /\ run \in [Jobs -> RunRecord]
  /\ listed \in [Jobs -> SUBSET Account]
  /\ work \in [Worker -> WorkRecord]

\* The days an account owes a job, and the bucket each of them is added to.
Owed(j)  == WholeDays(run[j].period.start, run[j].period.end)
DayOf(d) == BucketStart(24 * d, "day")

\* A worker has seen an account: it had no rows, or its records are written and
\* the worker has their buckets in mind.
Seen(w, j, a) ==
  \/ <<j, a>> \in blank
  \/ \A d \in Owed(j) : <<j, a, d>> \in records /\ <<a, DayOf(d)>> \in work[w].affected

InHand(w) == IF work[w].at \in {"acquire", "request", "store"} THEN work[w].on ELSE {}

\* A worker on job j, wherever its handler has got to.
OnJob(w, j) ==
  /\ j \in Jobs /\ queue[j].state = "active" /\ run[j].status # "none"
  /\ run[j].status = "success" => work[w].at \in {"enqueue", "failing", "throw"}
  /\ work[w].at \in {"loop", "acquire", "request", "store", "success", "enqueue"} =>
       \A a \in listed[j] \ (work[w].todo \cup InHand(w)) : Seen(w, j, a)
  /\ work[w].at \in {"success", "enqueue"} => work[w].todo = {}
  /\ work[w].at = "enqueue" => work[w].finished
  /\ work[w].at = "store" =>
       \/ work[w].days = {} /\ \A a \in work[w].on : <<j, a>> \in blank
       \/ work[w].days = AskedDays(scene.source, run[j].period.start, run[j].period.end)
  /\ work[w].at = "failing" /\ run[j].status = "success" =>
       work[w].finished /\ work[w].code = "TRANSIENT"

\* Job j, whoever is on it.
JobHolds(j) ==
  /\ run[j].status # "none" /\ scene.jobs[j].period = NoPeriod =>
       IsLastPeriod(run[j].period, scene.now, scene.jobs[j].granularity)
  /\ run[j].status = "success" =>
       \A a \in listed[j] :
         \/ <<j, a>> \in blank
         \/ /\ \A d \in Owed(j) : <<j, a, d>> \in records
            /\ queue[j].state = "done" => \A d \in Owed(j) : <<a, DayOf(d)>> \in refreshes

Busy(w) == work[w].at # "idle"

Pulls ==
  /\ PullTypes
  /\ \A w \in Worker : Busy(w) => OnJob(w, work[w].job)
  /\ \A v, w \in Worker : v # w /\ Busy(v) /\ Busy(w) => work[v].job # work[w].job
  /\ \A j \in Jobs : JobHolds(j)

LEMMA PullsInit == Init => Pulls
<1> SUFFICES ASSUME Init PROVE Pulls OBVIOUS
<1>1. SceneOK BY DEF Init, SceneOK
<1>2. NoPeriod \in [start: Int, end: Int] BY DEF NoPeriod
<1>3. accounts \subseteq Account BY <1>1, SceneIs DEF Init
<1>4. NoWork \in WorkRecord BY DEF NoWork, WorkRecord, Place, Code
<1>5. PullTypes
  <2>1. [status |-> "none", period |-> NoPeriod] \in RunRecord BY <1>2 DEF RunRecord
  <2>2. run \in [Jobs -> RunRecord]
    BY <2>1 DEF Init
  <2>3. queue \in [Jobs -> [state: {"waiting", "active", "done", "failed"}, tries: Nat]]
    BY DEF Init
  <2>4. work \in [Worker -> WorkRecord] BY <1>4 DEF Init
  <2>5. listed \in [Jobs -> SUBSET Account] BY DEF Init
  <2>6. QED BY <1>1, <1>3, <2>2, <2>3, <2>4, <2>5 DEF PullTypes
<1>6. \A w \in Worker : ~Busy(w) BY DEF Init, Busy, NoWork
<1>7. \A j \in Jobs : run[j].status = "none" BY DEF Init
<1>8. QED BY <1>5, <1>6, <1>7 DEF Pulls, JobHolds

\* What a step of worker w on job j leaves alone.
OthersStay(w, j) ==
  /\ scene' = scene
  /\ \A v \in Worker \ {w} : work'[v] = work[v]
  /\ \A i \in Jobs \ {j} : queue'[i] = queue[i] /\ run'[i] = run[i] /\ listed'[i] = listed[i]
  /\ records \subseteq records' /\ blank \subseteq blank' /\ refreshes \subseteq refreshes'

LEMMA OnJobStays ==
  ASSUME NEW v \in Worker, NEW i, OnJob(v, i), scene' = scene, work'[v] = work[v],
         queue'[i] = queue[i], run'[i] = run[i], listed'[i] = listed[i],
         records \subseteq records', blank \subseteq blank'
  PROVE  OnJob(v, i)'
<1>1. Owed(i)' = Owed(i) BY DEF Owed
<1>2. \A a : Seen(v, i, a) => Seen(v, i, a)' BY <1>1 DEF Seen, DayOf
<1>3. InHand(v)' = InHand(v) BY DEF InHand
<1>4. i \in Jobs' BY DEF OnJob, Jobs
<1>5. QED BY <1>2, <1>3, <1>4 DEF OnJob

LEMMA JobStays ==
  ASSUME NEW i, JobHolds(i), scene' = scene,
         queue'[i] = queue[i], run'[i] = run[i], listed'[i] = listed[i],
         records \subseteq records', blank \subseteq blank', refreshes \subseteq refreshes'
  PROVE  JobHolds(i)'
<1>1. Owed(i)' = Owed(i) BY DEF Owed
<1>2. QED BY <1>1 DEF JobHolds, DayOf

LEMMA Frame ==
  ASSUME Pulls, NEW w \in Worker, NEW j \in Jobs, OthersStay(w, j), PullTypes',
         \A v \in Worker \ {w} : Busy(v) => work[v].job # j,
         Busy(w)' => work'[w].job = j /\ OnJob(w, j)',
         JobHolds(j)'
  PROVE  Pulls'
<1>1. ASSUME NEW v \in Worker, Busy(v)' PROVE OnJob(v, work[v].job)'
  <2>1. CASE v = w BY <1>1, <2>1
  <2>2. CASE v # w
    <3>1. Busy(v) /\ work'[v] = work[v] BY <1>1, <2>2 DEF OthersStay, Busy
    <3>2. OnJob(v, work[v].job) BY <3>1 DEF Pulls
    <3>3. PICK i \in Jobs : i = work[v].job BY <3>2 DEF OnJob
    <3>4. i # j BY <2>2, <3>1, <3>3
    <3>5. OnJob(v, i)' BY <3>1, <3>2, <3>3, <3>4, OnJobStays DEF OthersStay
    <3>6. QED BY <3>1, <3>3, <3>5
  <2>3. QED BY <2>1, <2>2
<1>2. ASSUME NEW v \in Worker, NEW u \in Worker, v # u, Busy(v)', Busy(u)'
      PROVE  work'[v].job # work'[u].job
  BY <1>2 DEF OthersStay, Pulls, Busy
<1>3. ASSUME NEW i \in Jobs' PROVE JobHolds(i)'
  <2>1. i \in Jobs BY DEF OthersStay, Jobs
  <2>2. CASE i = j BY <2>2
  <2>3. CASE i # j
    <3>1. JobHolds(i) BY <2>1 DEF Pulls
    <3>2. QED BY <2>1, <2>3, <3>1, JobStays DEF OthersStay
  <2>4. QED BY <2>2, <2>3
<1>4. QED BY <1>1, <1>2, <1>3 DEF Pulls

\* Whatever leaves the jobs and the handlers alone.
LEMMA Bystander ==
  ASSUME Pulls, UNCHANGED <<scene, queue, run, listed, work, records, blank, refreshes>>,
         accounts' \subseteq Account
  PROVE  Pulls'
<1>1. PullTypes' BY DEF Pulls, PullTypes, SceneOK, WorkRecord, Jobs
<1>2. ASSUME NEW v \in Worker, Busy(v)' PROVE OnJob(v, work[v].job)'
  <2>1. Busy(v) /\ OnJob(v, work[v].job) BY <1>2 DEF Busy, Pulls
  <2>2. PICK i : i = work[v].job OBVIOUS
  <2>3. OnJob(v, i)' BY <2>1, <2>2, OnJobStays
  <2>4. QED BY <2>2, <2>3
<1>3. ASSUME NEW i \in Jobs' PROVE JobHolds(i)' BY JobStays DEF Pulls, Jobs
<1>4. QED BY <1>1, <1>2, <1>3 DEF Pulls, Busy

LEMMA AtWork ==
  ASSUME Pulls, NEW w \in Worker, Busy(w), NEW j, j = work[w].job
  PROVE  /\ j \in Jobs /\ OnJob(w, j) /\ JobHolds(j)
         /\ work[w] \in WorkRecord /\ run[j] \in RunRecord /\ listed[j] \subseteq Account
         /\ \A v \in Worker \ {w} : Busy(v) => work[v].job # j
<1>1. OnJob(w, j) /\ j \in Jobs BY DEF Pulls, OnJob
<1>2. \A v \in Worker \ {w} : Busy(v) => work[v].job # j BY DEF Pulls
<1>3. QED BY <1>1, <1>2 DEF Pulls, PullTypes

\* A step of a handler that writes its own state r and perhaps history, and goes on
\* with its job.
LEMMA HandlerStep ==
  ASSUME Pulls, NEW w \in Worker, Busy(w), NEW j, j = work[w].job,
         UNCHANGED <<scene, accounts, queue, run, listed, refreshes>>,
         records \subseteq records', blank \subseteq blank',
         NEW r \in WorkRecord, work' = [work EXCEPT ![w] = r], r.job = j,
         OnJob(w, j)'
  PROVE  Pulls'
<1>1. /\ j \in Jobs /\ OnJob(w, j) /\ JobHolds(j)
      /\ \A v \in Worker \ {w} : Busy(v) => work[v].job # j
  BY AtWork
<1>2. PullTypes /\ WorkRecord' = WorkRecord BY DEF Pulls, WorkRecord, Jobs
<1>3. PullTypes' /\ work'[w] = r BY <1>2 DEF PullTypes, SceneOK, Jobs
<1>4. OthersStay(w, j) BY <1>2 DEF OthersStay, PullTypes
<1>5. JobHolds(j)' BY <1>1, JobStays
<1>6. QED BY <1>1, <1>3, <1>4, <1>5, Frame

\* What a handler has in mind when it has given an account up.
LEMMA GivesUp ==
  ASSUME Pulls, NEW w \in Worker, Busy(w), NEW j, j = work[w].job,
         UNCHANGED <<scene, accounts, queue, run, listed, records, blank, refreshes>>,
         NEW c \in Code, work' = [work EXCEPT ![w] = [work[w] EXCEPT !.at = "failing", !.code = c]],
         run[j].status = "success" => work[w].finished /\ c = "TRANSIENT"
  PROVE  Pulls'
<1> DEFINE r == [work[w] EXCEPT !.at = "failing", !.code = c]
<1>1. /\ j \in Jobs /\ OnJob(w, j) /\ work[w] \in WorkRecord BY AtWork
<1>2. /\ r \in WorkRecord /\ r.job = j /\ r.at = "failing" /\ r.code = c
      /\ r.finished = work[w].finished
  BY <1>1 DEF WorkRecord, Place
<1> HIDE DEF r
<1>3. work' = [work EXCEPT ![w] = r] BY DEF r
<1>4. work'[w] = r BY <1>3 DEF Pulls, PullTypes
<1>5. j \in Jobs' BY <1>1 DEF Jobs
<1>6. OnJob(w, j)' BY <1>1, <1>2, <1>4, <1>5 DEF OnJob
<1>7. PICK q \in WorkRecord : q = r BY <1>2
<1>8. QED BY <1>2, <1>3, <1>6, <1>7, HandlerStep

LEMMA Codes ==
  ASSUME NEW error
  PROVE  Classify(error) \in Code /\ ClassifyNetwork(error) \in Code
  BY DEF Classify, ClassifyGa4, ClassifyCloudflare, ClassifyHttp, ClassifyNetwork, Code

\* The steps that end in the handler's catch.
LEMMA Failures ==
  ASSUME Pulls, NEW w \in Worker,
         \/ UnknownKey(w) \/ BadShape(w) \/ LimiterFails(w) \/ SourceFails(w)
         \/ OutsideTenant(w) \/ StatementFails(w)
  PROVE  Pulls'
<1>1. /\ Busy(w)
      /\ UNCHANGED <<scene, accounts, queue, run, listed, records, blank, refreshes>>
  BY DEF Busy, UnknownKey, BadShape, LimiterFails, SourceFails, OutsideTenant, StatementFails,
         Private, Elsewhere, tables
<1>2. PICK j : j = work[w].job /\ OnJob(w, j) BY <1>1, AtWork
<1>3. CASE UnknownKey(w) \/ StatementFails(w)
  <2>1. work' = [work EXCEPT ![w] = [work[w] EXCEPT !.at = "failing", !.code = "TRANSIENT"]]
    BY <1>3 DEF UnknownKey, StatementFails
  <2>2. run[j].status = "success" => work[w].finished
    BY <1>2, <1>3 DEF OnJob, UnknownKey, StatementFails
  <2>3. QED BY <1>1, <1>2, <2>1, <2>2, GivesUp DEF Code
<1>4. CASE BadShape(w) \/ LimiterFails(w) \/ SourceFails(w) \/ OutsideTenant(w)
  <2>1. PICK c \in Code :
          work' = [work EXCEPT ![w] = [work[w] EXCEPT !.at = "failing", !.code = c]]
    <3>1. CASE BadShape(w) BY <3>1 DEF BadShape, Code
    <3>2. CASE OutsideTenant(w) BY <3>2 DEF OutsideTenant, Code
    <3>3. CASE LimiterFails(w) BY <3>3, Codes DEF LimiterFails
    <3>4. CASE SourceFails(w) BY <3>4, Codes DEF SourceFails
    <3>5. QED BY <1>4, <3>1, <3>2, <3>3, <3>4
  <2>2. run[j].status # "success"
    BY <1>2, <1>4 DEF OnJob, BadShape, LimiterFails, SourceFails, OutsideTenant
  <2>3. QED BY <1>1, <1>2, <2>1, <2>2, GivesUp
<1>5. QED BY <1>3, <1>4

\* The credentials are read: the accounts are next.
LEMMA ReadCredentialsHolds ==
  ASSUME Pulls, NEW w \in Worker, ReadCredentials(w) PROVE Pulls'
<1>1. Busy(w) /\ work[w].at = "credentials" BY DEF ReadCredentials, Busy
<1>2. PICK j : j = work[w].job OBVIOUS
<1>3. j \in Jobs /\ OnJob(w, j) /\ work[w] \in WorkRecord BY <1>1, <1>2, AtWork
<1>4. PICK b \in BOOLEAN : b = (config.sealed # "none" /\ scene.shape) OBVIOUS
<1> DEFINE r == [work[w] EXCEPT !.at = "accounts", !.shape = b]
<1>5. r \in WorkRecord /\ r.job = j /\ r.at = "accounts"
  BY <1>2, <1>3, <1>4 DEF WorkRecord, Place
<1>6. work' = [work EXCEPT ![w] = r] BY <1>4 DEF ReadCredentials
<1>7. UNCHANGED <<scene, accounts, queue, run, listed, records, blank, refreshes>>
  BY DEF ReadCredentials, Private, Elsewhere, tables
<1> HIDE DEF r
<1>8. work'[w] = r BY <1>6 DEF Pulls, PullTypes
<1>9. OnJob(w, j)'
  <2>1. j \in Jobs' BY <1>3, <1>7 DEF Jobs
  <2>2. QED BY <1>1, <1>3, <1>5, <1>7, <1>8, <2>1 DEF OnJob
<1>10. PICK q \in WorkRecord : q = r BY <1>5
<1>11. QED BY <1>1, <1>2, <1>5, <1>6, <1>7, <1>9, <1>10, HandlerStep

\* connector.pull is called: the account is in hand, no longer to do.
LEMMA PullAccountHolds ==
  ASSUME Pulls, NEW w \in Worker, NEW a \in Account, PullAccount(w, a) PROVE Pulls'
<1>1. Busy(w) /\ work[w].at = "loop" /\ a \in work[w].todo BY DEF PullAccount, Busy
<1>2. PICK j : j = work[w].job OBVIOUS
<1>3. j \in Jobs /\ OnJob(w, j) /\ work[w] \in WorkRecord BY <1>1, <1>2, AtWork
<1> DEFINE r == [work[w] EXCEPT !.at = "acquire", !.todo = work[w].todo \ {a}, !.on = {a}]
<1>4. /\ r \in WorkRecord /\ r.job = j /\ r.at = "acquire"
      /\ r.todo = work[w].todo \ {a} /\ r.on = {a} /\ r.affected = work[w].affected
  BY <1>2, <1>3 DEF WorkRecord, Place
<1>5. work' = [work EXCEPT ![w] = r] BY DEF PullAccount
<1>6. UNCHANGED <<scene, accounts, queue, run, listed, records, blank, refreshes>>
  BY DEF PullAccount, Elsewhere, tables
<1> HIDE DEF r
<1>7. work'[w] = r BY <1>5 DEF Pulls, PullTypes
<1>8. OnJob(w, j)'
  <2>1. j \in Jobs' BY <1>3, <1>6 DEF Jobs
  <2>2. InHand(w)' = {a} /\ InHand(w) = {} BY <1>1, <1>4, <1>7 DEF InHand
  <2>3. \A b \in listed[j] \ (r.todo \cup {a}) : Seen(w, j, b)
    BY <1>1, <1>3, <1>4, <2>2 DEF OnJob
  <2>4. \A b : Seen(w, j, b) => Seen(w, j, b)'
    BY <1>4, <1>6, <1>7 DEF Seen, Owed, DayOf
  <2>5. QED BY <1>1, <1>3, <1>4, <1>6, <1>7, <2>1, <2>2, <2>3, <2>4 DEF OnJob
<1>9. PICK q \in WorkRecord : q = r BY <1>4
<1>10. QED BY <1>1, <1>2, <1>4, <1>5, <1>6, <1>8, <1>9, HandlerStep

\* The report is asked for.
LEMMA RequestHolds ==
  ASSUME Pulls, NEW w \in Worker, Request(w) PROVE Pulls'
<1>1. Busy(w) /\ work[w].at = "acquire" BY DEF Request, Busy
<1>2. PICK j : j = work[w].job OBVIOUS
<1>3. j \in Jobs /\ OnJob(w, j) /\ work[w] \in WorkRecord BY <1>1, <1>2, AtWork
<1> DEFINE r == [work[w] EXCEPT !.at = "request"]
<1>4. /\ r \in WorkRecord /\ r.job = j /\ r.at = "request"
      /\ r.todo = work[w].todo /\ r.on = work[w].on /\ r.affected = work[w].affected
  BY <1>2, <1>3 DEF WorkRecord, Place
<1>5. work' = [work EXCEPT ![w] = r] BY DEF Request
<1>6. UNCHANGED <<scene, accounts, queue, run, listed, records, blank, refreshes>>
  BY DEF Request, Elsewhere, tables
<1> HIDE DEF r
<1>7. work'[w] = r BY <1>5 DEF Pulls, PullTypes
<1>8. OnJob(w, j)'
  <2>1. j \in Jobs' BY <1>3, <1>6 DEF Jobs
  <2>2. InHand(w)' = InHand(w) BY <1>1, <1>4, <1>7 DEF InHand
  <2>3. \A b : Seen(w, j, b) => Seen(w, j, b)'
    BY <1>4, <1>6, <1>7 DEF Seen, Owed, DayOf
  <2>4. QED BY <1>1, <1>3, <1>4, <1>6, <1>7, <2>1, <2>2, <2>3 DEF OnJob
<1>9. PICK q \in WorkRecord : q = r BY <1>4
<1>10. QED BY <1>1, <1>2, <1>4, <1>5, <1>6, <1>8, <1>9, HandlerStep

\* The source answers, with a row for each day asked for or with none.
LEMMA AnswerHolds ==
  ASSUME Pulls, NEW w \in Worker, Rows(w) \/ NoRows(w) PROVE Pulls'
<1>1. Busy(w) /\ work[w].at = "request" BY DEF Rows, NoRows, Busy
<1>2. PICK j : j = work[w].job OBVIOUS
<1>3. j \in Jobs /\ OnJob(w, j) /\ work[w] \in WorkRecord /\ run[j] \in RunRecord
  BY <1>1, <1>2, AtWork
<1>4. PICK days \in SUBSET Int :
        /\ work' = [work EXCEPT ![w] = [work[w] EXCEPT !.at = "store", !.days = days]]
        /\ \/ days = {} /\ \A a \in work[w].on : <<j, a>> \in blank'
           \/ days = AskedDays(scene.source, run[j].period.start, run[j].period.end)
  <2>1. CASE Rows(w)
    <3>1. scene.source \in Source /\ run[j].period.start \in Int /\ run[j].period.end \in Int
      BY <1>3, SceneIs DEF RunRecord, Pulls, PullTypes
    <3>2. PICK days \in SUBSET Int :
            days = AskedDays(scene.source, run[j].period.start, run[j].period.end)
      BY <3>1, AskedType
    <3>3. QED BY <1>2, <2>1, <3>2 DEF Rows, PeriodStart, PeriodEnd
  <2>2. CASE NoRows(w) BY <1>2, <2>2 DEF NoRows
  <2>3. QED BY <2>1, <2>2
<1> DEFINE r == [work[w] EXCEPT !.at = "store", !.days = days]
<1>5. /\ r \in WorkRecord /\ r.job = j /\ r.at = "store" /\ r.days = days
      /\ r.todo = work[w].todo /\ r.on = work[w].on /\ r.affected = work[w].affected
  BY <1>2, <1>3, <1>4 DEF WorkRecord, Place
<1>6. work' = [work EXCEPT ![w] = r] BY <1>4
<1>7. /\ UNCHANGED <<scene, accounts, queue, run, listed, records, refreshes>>
      /\ blank \subseteq blank'
  BY DEF Rows, NoRows, Private, Elsewhere, tables
<1> HIDE DEF r
<1>8. work'[w] = r BY <1>6 DEF Pulls, PullTypes
<1>9. OnJob(w, j)'
  <2>1. j \in Jobs' BY <1>3, <1>7 DEF Jobs
  <2>2. InHand(w)' = InHand(w) BY <1>1, <1>5, <1>8 DEF InHand
  <2>3. \A b : Seen(w, j, b) => Seen(w, j, b)'
    BY <1>5, <1>7, <1>8 DEF Seen, Owed, DayOf
  <2>4. QED BY <1>1, <1>3, <1>4, <1>5, <1>7, <1>8, <2>1, <2>2, <2>3 DEF OnJob
<1>10. PICK q \in WorkRecord : q = r BY <1>5
<1>11. QED BY <1>1, <1>2, <1>5, <1>6, <1>7, <1>9, <1>10, HandlerStep

\* upsertMany: what the account owes is written, and the buckets are kept in mind.
LEMMA StoreHolds ==
  ASSUME Pulls, NEW w \in Worker, Store(w) PROVE Pulls'
<1>1. Busy(w) /\ work[w].at = "store" BY DEF Store, Busy
<1>2. PICK j : j = work[w].job OBVIOUS
<1>3. j \in Jobs /\ OnJob(w, j) /\ work[w] \in WorkRecord /\ run[j] \in RunRecord
  BY <1>1, <1>2, AtWork
<1>4. PICK on \in SUBSET Account, days \in SUBSET Int :
        on = work[w].on /\ days = work[w].days
  BY <1>3 DEF WorkRecord
<1>5. Buckets(w) = on \X {DayOf(d) : d \in days}
  BY <1>4 DEF Buckets, MapToRollup, DayOf
<1>6. \A d \in days : DayOf(d) \in Int BY DayBucket DEF DayOf
<1>7. Buckets(w) \subseteq Account \X Int
  <2>1. {DayOf(d) : d \in days} \subseteq Int BY <1>6
  <2>2. QED BY <1>5, <2>1
<1> DEFINE r == [work[w] EXCEPT !.at = "loop", !.affected = work[w].affected \cup Buckets(w)]
<1>8. /\ r \in WorkRecord /\ r.job = j /\ r.at = "loop" /\ r.todo = work[w].todo
      /\ r.affected = work[w].affected \cup Buckets(w)
  <2>1. work[w].affected \cup Buckets(w) \in SUBSET (Account \X Int)
    BY <1>3, <1>7 DEF WorkRecord
  <2>2. PICK more \in SUBSET (Account \X Int) : more = work[w].affected \cup Buckets(w)
    BY <2>1
  <2>3. r = [work[w] EXCEPT !.at = "loop", !.affected = more] BY <2>2
  <2> HIDE DEF r
  <2>4. QED BY <1>2, <1>3, <2>2, <2>3 DEF WorkRecord, Place
<1>9. work' = [work EXCEPT ![w] = r] BY DEF Store
<1>10. /\ UNCHANGED <<scene, accounts, queue, run, listed, blank, refreshes>>
       /\ records' = records \cup ({j} \X on \X days)
  BY <1>2, <1>4 DEF Store, Elsewhere
<1> HIDE DEF r
<1>11. work'[w] = r BY <1>9 DEF Pulls, PullTypes
<1>12. Owed(j) \subseteq AskedDays(scene.source, run[j].period.start, run[j].period.end)
  <2>1. scene.source \in Source /\ run[j].period.start \in Int /\ run[j].period.end \in Int
    BY <1>3, SceneIs DEF RunRecord, Pulls, PullTypes
  <2>2. QED BY <2>1, AskedCover DEF Owed
<1>13. \A b : Seen(w, j, b) => Seen(w, j, b)'
  BY <1>8, <1>10, <1>11 DEF Seen, Owed, DayOf
<1>14. ASSUME NEW b \in on PROVE Seen(w, j, b)'
  <2>1. CASE days = {} /\ \A a \in on : <<j, a>> \in blank
    BY <1>10, <1>14, <2>1 DEF Seen
  <2>2. CASE Owed(j) \subseteq days
    <3>1. ASSUME NEW d \in Owed(j)
          PROVE  <<j, b, d>> \in records' /\ <<b, DayOf(d)>> \in r.affected
      <4>1. <<j, b, d>> \in records' BY <1>10, <1>14, <2>2, <3>1
      <4>2. <<b, DayOf(d)>> \in Buckets(w) BY <1>5, <1>14, <2>2, <3>1
      <4>3. QED BY <1>8, <4>1, <4>2
    <3>2. Owed(j)' = Owed(j) BY <1>10 DEF Owed
    <3>3. QED BY <1>11, <3>1, <3>2 DEF Seen, DayOf
  <2>3. \/ days = {} /\ \A a \in on : <<j, a>> \in blank
        \/ Owed(j) \subseteq days
    BY <1>1, <1>3, <1>4, <1>12 DEF OnJob
  <2>4. QED BY <2>1, <2>2, <2>3
<1>15. OnJob(w, j)'
  <2>1. j \in Jobs' BY <1>3, <1>10 DEF Jobs
  <2>2. InHand(w) = on /\ InHand(w)' = {} BY <1>1, <1>4, <1>8, <1>11 DEF InHand
  <2>3. \A b \in listed[j] \ r.todo : Seen(w, j, b)'
    BY <1>1, <1>3, <1>8, <1>13, <1>14, <2>2 DEF OnJob
  <2>4. QED BY <1>1, <1>3, <1>8, <1>10, <1>11, <2>1, <2>2, <2>3 DEF OnJob
<1>16. PICK q \in WorkRecord : q = r BY <1>8
<1>17. records \subseteq records' /\ blank \subseteq blank' BY <1>10
<1>18. QED BY <1>1, <1>2, <1>8, <1>9, <1>10, <1>15, <1>16, <1>17, HandlerStep

\* Every account has been seen: the connector is active.
LEMMA ActivateHolds ==
  ASSUME Pulls, NEW w \in Worker, Activate(w) PROVE Pulls'
<1>1. Busy(w) /\ work[w].at = "loop" /\ work[w].todo = {} BY DEF Activate, Busy
<1>2. PICK j : j = work[w].job OBVIOUS
<1>3. j \in Jobs /\ OnJob(w, j) /\ work[w] \in WorkRecord BY <1>1, <1>2, AtWork
<1> DEFINE r == [work[w] EXCEPT !.at = "success"]
<1>4. /\ r \in WorkRecord /\ r.job = j /\ r.at = "success"
      /\ r.todo = work[w].todo /\ r.affected = work[w].affected
  BY <1>2, <1>3 DEF WorkRecord, Place
<1>5. work' = [work EXCEPT ![w] = r] BY DEF Activate
<1>6. UNCHANGED <<scene, accounts, queue, run, listed, records, blank, refreshes>>
  BY DEF Activate, Elsewhere
<1> HIDE DEF r
<1>7. work'[w] = r BY <1>5 DEF Pulls, PullTypes
<1>8. OnJob(w, j)'
  <2>1. j \in Jobs' BY <1>3, <1>6 DEF Jobs
  <2>2. InHand(w)' = {} /\ InHand(w) = {} BY <1>1, <1>4, <1>7 DEF InHand
  <2>3. \A b : Seen(w, j, b) => Seen(w, j, b)'
    BY <1>4, <1>6, <1>7 DEF Seen, Owed, DayOf
  <2>4. QED BY <1>1, <1>3, <1>4, <1>6, <1>7, <2>1, <2>2, <2>3 DEF OnJob
<1>9. PICK q \in WorkRecord : q = r BY <1>4
<1>10. QED BY <1>1, <1>2, <1>4, <1>5, <1>6, <1>8, <1>9, HandlerStep

QueueRecord == [state: {"waiting", "active", "done", "failed"}, tries: Nat]

\* A step of worker w that writes job j's entry, run and accounts as well.
LEMMA JobStep ==
  ASSUME Pulls, NEW w \in Worker, NEW j \in Jobs,
         \A v \in Worker \ {w} : Busy(v) => work[v].job # j,
         UNCHANGED <<scene, accounts, records, blank>>, refreshes \subseteq refreshes',
         NEW r \in WorkRecord, work' = [work EXCEPT ![w] = r],
         NEW q \in QueueRecord, queue' = [queue EXCEPT ![j] = q],
         NEW u \in RunRecord, run' = [run EXCEPT ![j] = u],
         NEW l \in SUBSET Account, listed' = [listed EXCEPT ![j] = l],
         r.at # "idle" => r.job = j /\ OnJob(w, j)',
         JobHolds(j)'
  PROVE  Pulls'
<1>1. PullTypes /\ WorkRecord' = WorkRecord BY DEF Pulls, WorkRecord, Jobs
<1>2. PullTypes'
  <2>1. work' \in [Worker -> WorkRecord'] BY <1>1 DEF PullTypes
  <2>2. queue' \in [Jobs' -> QueueRecord] BY <1>1 DEF PullTypes, Jobs, QueueRecord
  <2>3. run' \in [Jobs' -> RunRecord] BY <1>1 DEF PullTypes, Jobs
  <2>4. listed' \in [Jobs' -> SUBSET Account] BY <1>1 DEF PullTypes, Jobs
  <2>5. QED BY <1>1, <2>1, <2>2, <2>3, <2>4 DEF PullTypes, SceneOK, QueueRecord
<1>3. work'[w] = r BY <1>1 DEF PullTypes
<1>4. OthersStay(w, j) BY <1>1 DEF OthersStay, PullTypes
<1>5. QED BY <1>2, <1>3, <1>4, Frame DEF Busy

\* The entries of a job that a step leaves alone, written out.
LEMMA Rewritten ==
  ASSUME PullTypes, NEW j \in Jobs
  PROVE  /\ queue[j] \in QueueRecord /\ queue = [queue EXCEPT ![j] = queue[j]]
         /\ run[j] \in RunRecord /\ run = [run EXCEPT ![j] = run[j]]
         /\ listed[j] \in SUBSET Account /\ listed = [listed EXCEPT ![j] = listed[j]]
  BY DEF PullTypes, QueueRecord

LEMMA WindowTable ==
  ASSUME SceneOK, NEW j \in Jobs
  PROVE  /\ PeriodOf(j) \in [start: Int, end: Int]
         /\ scene.jobs[j].period = NoPeriod =>
              IsLastPeriod(PeriodOf(j), scene.now, scene.jobs[j].granularity)
<1>1. PICK g \in Granularity, t \in Int : g = scene.jobs[j].granularity /\ t = scene.now
  BY SceneIs
<1>2. scene.jobs[j].period \in [start: Int, end: Int] BY SceneIs
<1>3. t \in {s.now : s \in Scenes} BY <1>1 DEF SceneOK
<1>4. WindowAt[t][g] = Window(t, g) BY <1>3 DEF WindowAt
<1>5. Window(t, g) \in [start: Int, end: Int] /\ IsLastPeriod(Window(t, g), t, g)
  BY WindowType, WindowsAreLastPeriods
<1>6. CASE scene.jobs[j].period = NoPeriod
  <2>1. PeriodOf(j) = Window(t, g) BY <1>1, <1>4, <1>6 DEF PeriodOf
  <2>2. QED BY <1>1, <1>5, <2>1
<1>7. CASE scene.jobs[j].period # NoPeriod
  BY <1>2, <1>7 DEF PeriodOf
<1>8. QED BY <1>6, <1>7

\* A delivery begins a run over the period the job has or works out.
LEMMA DeliverHolds ==
  ASSUME Pulls, NEW w \in Worker, NEW j \in Jobs, Deliver(w, j) PROVE Pulls'
<1>1. PullTypes /\ SceneOK BY DEF Pulls, PullTypes
<1>2. ASSUME NEW v \in Worker \ {w}, Busy(v) PROVE work[v].job # j
  BY <1>2 DEF Pulls, OnJob, Deliver
<1> DEFINE r == [NoWork EXCEPT !.at = "credentials", !.job = j]
           q == [queue[j] EXCEPT !.state = "active"]
           u == [status |-> "running", period |-> PeriodOf(j)]
<1>3. r \in WorkRecord /\ r.at = "credentials" /\ r.job = j
  BY DEF NoWork, WorkRecord, Place, Code
<1>4. q \in QueueRecord /\ q.state = "active" BY <1>1, Rewritten DEF QueueRecord
<1>5. u \in RunRecord /\ u.status = "running" /\ u.period = PeriodOf(j)
  BY <1>1, WindowTable DEF RunRecord
<1>6. work' = [work EXCEPT ![w] = r] /\ queue' = [queue EXCEPT ![j] = q]
      /\ run' = [run EXCEPT ![j] = u]
  BY DEF Deliver
<1>7. UNCHANGED <<scene, accounts, records, blank, refreshes, listed>>
  BY DEF Deliver, Elsewhere, tables
<1> HIDE DEF r, q, u
<1>8. work'[w] = r /\ queue'[j] = q /\ run'[j] = u
  BY <1>1, <1>6 DEF PullTypes
<1>9. OnJob(w, j)'
  <2>1. j \in Jobs' BY <1>7 DEF Jobs
  <2>2. QED BY <1>3, <1>4, <1>5, <1>8, <2>1 DEF OnJob
<1>10. JobHolds(j)'
  <2>1. run'[j].status # "success" /\ run'[j].period = PeriodOf(j) /\ scene' = scene
    BY <1>5, <1>7, <1>8
  <2>2. scene.jobs[j].period = NoPeriod =>
          IsLastPeriod(PeriodOf(j), scene.now, scene.jobs[j].granularity)
    BY <1>1, WindowTable
  <2>3. QED BY <2>1, <2>2 DEF JobHolds
<1>11. listed[j] \in SUBSET Account /\ listed' = [listed EXCEPT ![j] = listed[j]]
  BY <1>1, <1>7, Rewritten
<1>12. PICK x \in WorkRecord, y \in QueueRecord, z \in RunRecord, l \in SUBSET Account :
         x = r /\ y = q /\ z = u /\ l = listed[j]
  BY <1>3, <1>4, <1>5, <1>11
<1>13. QED BY <1>2, <1>3, <1>6, <1>7, <1>9, <1>10, <1>11, <1>12, JobStep

\* The accounts are listed, and all of them are to do.
LEMMA ListAccountsHolds ==
  ASSUME Pulls, NEW w \in Worker, ListAccounts(w) PROVE Pulls'
<1>1. Busy(w) /\ work[w].at = "accounts" BY DEF ListAccounts, Busy
<1>2. PICK j : j = work[w].job OBVIOUS
<1>3. /\ j \in Jobs /\ OnJob(w, j) /\ JobHolds(j) /\ work[w] \in WorkRecord
      /\ \A v \in Worker \ {w} : Busy(v) => work[v].job # j
  BY <1>1, <1>2, AtWork
<1>4. PullTypes BY DEF Pulls
<1>5. PICK l \in SUBSET Account : l = accounts BY <1>4 DEF PullTypes
<1> DEFINE r == [work[w] EXCEPT !.at = "loop", !.todo = l]
<1>6. r \in WorkRecord /\ r.at = "loop" /\ r.job = j /\ r.todo = l
  BY <1>2, <1>3 DEF WorkRecord, Place
<1>7. work' = [work EXCEPT ![w] = r] /\ listed' = [listed EXCEPT ![j] = l]
  BY <1>2, <1>5 DEF ListAccounts
<1>8. UNCHANGED <<scene, accounts, records, blank, refreshes, queue, run>>
  BY DEF ListAccounts, tables
<1> HIDE DEF r
<1>9. work'[w] = r /\ listed'[j] = l BY <1>3, <1>4, <1>7 DEF PullTypes
<1>10. OnJob(w, j)'
  <2>1. j \in Jobs' BY <1>3, <1>8 DEF Jobs
  <2>2. QED BY <1>1, <1>3, <1>6, <1>8, <1>9, <2>1 DEF OnJob
<1>11. JobHolds(j)'
  <2>1. run'[j].status # "success" /\ run' = run /\ scene' = scene
    BY <1>1, <1>3, <1>8 DEF OnJob
  <2>2. QED BY <1>3, <2>1 DEF JobHolds
<1>12. /\ queue[j] \in QueueRecord /\ queue' = [queue EXCEPT ![j] = queue[j]]
       /\ run[j] \in RunRecord /\ run' = [run EXCEPT ![j] = run[j]]
  BY <1>3, <1>4, <1>8, Rewritten
<1>13. PICK x \in WorkRecord, y \in QueueRecord, z \in RunRecord :
         x = r /\ y = queue[j] /\ z = run[j]
  BY <1>6, <1>12
<1>14. QED BY <1>3, <1>6, <1>7, <1>8, <1>10, <1>11, <1>12, <1>13, JobStep

\* runs.finish("success"): every account has been seen.
LEMMA FinishSuccessHolds ==
  ASSUME Pulls, NEW w \in Worker, FinishSuccess(w) PROVE Pulls'
<1>1. Busy(w) /\ work[w].at = "success" BY DEF FinishSuccess, Busy
<1>2. PICK j : j = work[w].job OBVIOUS
<1>3. /\ j \in Jobs /\ OnJob(w, j) /\ JobHolds(j) /\ work[w] \in WorkRecord
      /\ \A v \in Worker \ {w} : Busy(v) => work[v].job # j
  BY <1>1, <1>2, AtWork
<1>4. PullTypes BY DEF Pulls
<1> DEFINE r == [work[w] EXCEPT !.at = "enqueue", !.finished = TRUE]
           u == [run[j] EXCEPT !.status = "success"]
<1>5. /\ r \in WorkRecord /\ r.at = "enqueue" /\ r.job = j /\ r.finished
      /\ r.todo = work[w].todo /\ r.affected = work[w].affected
  BY <1>2, <1>3 DEF WorkRecord, Place
<1>6. u \in RunRecord /\ u.status = "success" /\ u.period = run[j].period
  BY <1>3, <1>4, Rewritten DEF RunRecord
<1>7. work' = [work EXCEPT ![w] = r] /\ run' = [run EXCEPT ![j] = u]
  BY <1>2 DEF FinishSuccess
<1>8. UNCHANGED <<scene, accounts, records, blank, refreshes, queue, listed>>
  BY DEF FinishSuccess, Elsewhere, tables
<1> HIDE DEF r, u
<1>9. work'[w] = r /\ run'[j] = u BY <1>3, <1>4, <1>7 DEF PullTypes
<1>10. Owed(j)' = Owed(j) /\ j \in Jobs' BY <1>3, <1>6, <1>8, <1>9 DEF Owed, Jobs
<1>11. InHand(w)' = {} /\ InHand(w) = {} BY <1>1, <1>5, <1>9 DEF InHand
<1>12. \A a \in listed[j] : Seen(w, j, a)
  BY <1>1, <1>3, <1>11 DEF OnJob
<1>13. OnJob(w, j)'
  <2>1. \A b : Seen(w, j, b) => Seen(w, j, b)'
    BY <1>5, <1>8, <1>9, <1>10 DEF Seen, DayOf
  <2>2. QED BY <1>1, <1>3, <1>5, <1>6, <1>8, <1>9, <1>10, <1>11, <1>12, <2>1 DEF OnJob
<1>14. JobHolds(j)'
  <2>1. queue'[j].state = "active" /\ run[j].status # "none" BY <1>3, <1>8 DEF OnJob
  <2>2. \A a \in listed[j] : <<j, a>> \in blank \/ \A d \in Owed(j) : <<j, a, d>> \in records
    BY <1>12 DEF Seen
  <2>3. QED BY <1>3, <1>6, <1>8, <1>9, <1>10, <2>1, <2>2 DEF JobHolds
<1>15. /\ queue[j] \in QueueRecord /\ queue' = [queue EXCEPT ![j] = queue[j]]
       /\ listed[j] \in SUBSET Account /\ listed' = [listed EXCEPT ![j] = listed[j]]
  BY <1>3, <1>4, <1>8, Rewritten
<1>16. PICK x \in WorkRecord, y \in QueueRecord, z \in RunRecord, l \in SUBSET Account :
         x = r /\ y = queue[j] /\ z = u /\ l = listed[j]
  BY <1>5, <1>6, <1>15
<1>17. QED BY <1>3, <1>5, <1>7, <1>8, <1>13, <1>14, <1>15, <1>16, JobStep

\* A handler that is done with its delivery leaves the job in a state q, and the run
\* with a status of its own or as it was.
LEMMA Leaves ==
  ASSUME Pulls, NEW w \in Worker, Busy(w), NEW j, j = work[w].job,
         UNCHANGED <<scene, accounts, records, blank, listed>>, refreshes \subseteq refreshes',
         work' = [work EXCEPT ![w] = NoWork],
         NEW q \in QueueRecord, queue' = [queue EXCEPT ![j] = q],
         \/ run' = run /\ run[j].status # "success"
         \/ run' = run /\ q.state # "done"
         \/ run' = run /\ work[w].affected \subseteq refreshes'
              /\ \A a \in listed[j] : Seen(w, j, a)
         \/ run' = [run EXCEPT ![j].status = "skipped"]
  PROVE  Pulls'
<1>1. /\ j \in Jobs /\ OnJob(w, j) /\ JobHolds(j)
      /\ \A v \in Worker \ {w} : Busy(v) => work[v].job # j
  BY AtWork
<1>2. PullTypes BY DEF Pulls
<1>3. NoWork \in WorkRecord /\ NoWork.at = "idle" BY DEF NoWork, WorkRecord, Place, Code
<1>4. queue'[j] = q BY <1>1, <1>2 DEF PullTypes
<1>5. PICK u \in RunRecord :
        /\ run' = [run EXCEPT ![j] = u] /\ u.period = run[j].period
        /\ u.status = "skipped" \/ (run' = run /\ u = run[j])
  <2>1. CASE run' = run BY <1>1, <1>2, <2>1, Rewritten
  <2>2. CASE run' = [run EXCEPT ![j].status = "skipped"]
    <3>1. PICK u \in RunRecord : u = [run[j] EXCEPT !.status = "skipped"]
      BY <1>1, <1>2, Rewritten DEF RunRecord
    <3>2. u.status = "skipped" /\ u.period = run[j].period
      BY <1>1, <1>2, <3>1, Rewritten DEF RunRecord
    <3>3. run' = [run EXCEPT ![j] = u] BY <2>2, <3>1
    <3>4. QED BY <3>1, <3>2, <3>3
  <2>3. QED BY <2>1, <2>2
<1>6. run'[j] = u BY <1>1, <1>2, <1>5 DEF PullTypes
<1>7. Owed(j)' = Owed(j) BY <1>5, <1>6 DEF Owed
<1>8. JobHolds(j)'
  <2>1. run[j].status # "none" BY <1>1 DEF OnJob
  <2>2. scene.jobs[j].period = NoPeriod =>
          IsLastPeriod(run'[j].period, scene'.now, scene'.jobs[j].granularity)
    BY <1>1, <1>5, <1>6, <2>1 DEF JobHolds
  <2>3. CASE u.status = "skipped" BY <1>6, <2>2, <2>3 DEF JobHolds
  <2>4. CASE run' = run /\ run[j].status # "success" BY <2>2, <2>4 DEF JobHolds
  <2>5. CASE run' = run /\ q.state # "done"
    BY <1>1, <1>4, <1>7, <2>2, <2>5 DEF JobHolds
  <2>6. CASE run' = run /\ work[w].affected \subseteq refreshes'
               /\ \A a \in listed[j] : Seen(w, j, a)
    <3>1. \A a \in listed[j] :
            \/ <<j, a>> \in blank
            \/ \A d \in Owed(j) : <<j, a, d>> \in records /\ <<a, DayOf(d)>> \in refreshes'
      BY <2>6 DEF Seen
    <3>2. ASSUME NEW a \in listed'[j]
          PROVE  \/ <<j, a>> \in blank'
                 \/ /\ \A d \in Owed(j)' : <<j, a, d>> \in records'
                    /\ \A d \in Owed(j)' : <<a, DayOf(d)>> \in refreshes'
      <4>1. listed' = listed /\ blank' = blank /\ records' = records OBVIOUS
      <4>2. CASE <<j, a>> \in blank BY <4>1, <4>2
      <4>3. CASE \A d \in Owed(j) : <<j, a, d>> \in records /\ <<a, DayOf(d)>> \in refreshes'
        BY <1>7, <4>1, <4>3
      <4>4. QED BY <3>1, <4>1, <4>2, <4>3
    <3>3. QED BY <2>2, <3>2 DEF JobHolds, DayOf
  <2>7. run' = [run EXCEPT ![j].status = "skipped"] => u.status = "skipped"
    <3>1. SUFFICES ASSUME run' = [run EXCEPT ![j].status = "skipped"]
                   PROVE  u.status = "skipped"
      OBVIOUS
    <3>2. run[j] \in RunRecord BY <1>1, <1>2, Rewritten
    <3>3. run'[j] = [run[j] EXCEPT !.status = "skipped"] BY <1>1, <1>2, <3>1 DEF PullTypes
    <3>4. QED BY <1>6, <3>2, <3>3 DEF RunRecord
  <2>8. QED BY <2>3, <2>4, <2>5, <2>6, <2>7
<1>9. listed[j] \in SUBSET Account /\ listed' = [listed EXCEPT ![j] = listed[j]]
  BY <1>1, <1>2, Rewritten
<1>10. PICK x \in WorkRecord, l \in SUBSET Account : x = NoWork /\ l = listed[j]
  BY <1>3, <1>9
<1>11. QED BY <1>1, <1>3, <1>5, <1>8, <1>9, <1>10, JobStep

\* The four ways out of a delivery.
LEMMA LeavingHolds ==
  ASSUME Pulls, NEW w \in Worker,
         NoAccounts(w) \/ AddRefreshes(w) \/ StopConnector(w) \/ Throw(w)
  PROVE  Pulls'
<1>1. Busy(w) BY DEF NoAccounts, AddRefreshes, StopConnector, Throw, Busy
<1>2. PICK j : j = work[w].job OBVIOUS
<1>3. j \in Jobs /\ OnJob(w, j) /\ work[w] \in WorkRecord BY <1>1, <1>2, AtWork
<1>4. PullTypes BY DEF Pulls
<1>5. /\ UNCHANGED <<scene, accounts, records, blank, listed>>
      /\ refreshes \subseteq refreshes' /\ work' = [work EXCEPT ![w] = NoWork]
  BY DEF NoAccounts, AddRefreshes, StopConnector, Throw, Elsewhere, tables
<1>6. PICK q \in QueueRecord :
        /\ queue' = [queue EXCEPT ![j] = q]
        /\ Throw(w) => q.state # "done"
  <2>1. queue[j] \in QueueRecord BY <1>3, <1>4, Rewritten
  <2>2. CASE NoAccounts(w) \/ AddRefreshes(w) \/ StopConnector(w)
    <3>1. PICK q \in QueueRecord : q = [queue[j] EXCEPT !.state = "done"]
      BY <2>1 DEF QueueRecord
    <3>2. ~Throw(w) BY <2>2 DEF NoAccounts, AddRefreshes, StopConnector, Throw
    <3>3. QED BY <1>2, <2>2, <3>1, <3>2 DEF NoAccounts, AddRefreshes, StopConnector
  <2>3. CASE Throw(w)
    <3>1. queue[j].tries + 1 \in Nat BY <2>1 DEF QueueRecord
    <3>2. PICK s \in {"waiting", "failed"} :
            s = IF queue[j].tries + 1 < scene.attempts THEN "waiting" ELSE "failed"
      OBVIOUS
    <3>3. PICK q \in QueueRecord : q = [state |-> s, tries |-> queue[j].tries + 1]
      BY <3>1 DEF QueueRecord
    <3>4. q.state # "done" BY <3>3
    <3>5. queue' = [queue EXCEPT ![j] = q] BY <1>2, <2>3, <3>2, <3>3 DEF Throw
    <3>6. QED BY <3>4, <3>5
  <2>4. QED BY <2>2, <2>3
<1>7. CASE NoAccounts(w)
  <2>1. run' = [run EXCEPT ![j].status = "skipped"] BY <1>2, <1>7 DEF NoAccounts
  <2>2. QED BY <1>1, <1>2, <1>5, <1>6, <2>1, Leaves
<1>8. CASE AddRefreshes(w)
  <2>1. run' = run /\ work[w].affected \subseteq refreshes' /\ work[w].at = "enqueue"
    BY <1>8 DEF AddRefreshes
  <2>2. \A a \in listed[j] : Seen(w, j, a) BY <1>3, <2>1 DEF OnJob, InHand
  <2>3. QED BY <1>1, <1>2, <1>5, <1>6, <2>1, <2>2, Leaves
<1>9. CASE StopConnector(w)
  <2>1. run' = run /\ run[j].status # "success" BY <1>3, <1>9 DEF StopConnector, OnJob
  <2>2. QED BY <1>1, <1>2, <1>5, <1>6, <2>1, Leaves
<1>10. CASE Throw(w)
  <2>1. run' = run BY <1>10 DEF Throw
  <2>2. QED BY <1>1, <1>2, <1>5, <1>6, <1>10, <2>1, Leaves
<1>11. QED BY <1>7, <1>8, <1>9, <1>10

\* finishRun("failed"), which does nothing once the run has ended with success.
LEMMA FinishFailedHolds ==
  ASSUME Pulls, NEW w \in Worker, FinishFailed(w) PROVE Pulls'
<1>1. Busy(w) /\ work[w].at = "failing" BY DEF FinishFailed, Busy
<1>2. PICK j : j = work[w].job OBVIOUS
<1>3. /\ j \in Jobs /\ OnJob(w, j) /\ JobHolds(j) /\ work[w] \in WorkRecord
      /\ \A v \in Worker \ {w} : Busy(v) => work[v].job # j
  BY <1>1, <1>2, AtWork
<1>4. PullTypes BY DEF Pulls
<1>5. PICK at \in {"throw", "stop"} :
        at = IF Retryable(work[w].code) THEN "throw" ELSE "stop"
  OBVIOUS
<1> DEFINE r == [work[w] EXCEPT !.at = at, !.finished = TRUE]
<1>6. r \in WorkRecord /\ r.at = at /\ r.job = j
  BY <1>2, <1>3 DEF WorkRecord, Place
<1>7. work' = [work EXCEPT ![w] = r] BY <1>5 DEF FinishFailed
<1>8. PICK u \in RunRecord :
        /\ run' = [run EXCEPT ![j] = u] /\ u.period = run[j].period
        /\ u.status = "failed" \/ (work[w].finished /\ u = run[j])
  <2>1. run[j] \in RunRecord /\ run = [run EXCEPT ![j] = run[j]] BY <1>3, <1>4, Rewritten
  <2>2. CASE work[w].finished
    <3>1. run' = run BY <2>2 DEF FinishFailed
    <3>2. run' = [run EXCEPT ![j] = run[j]] BY <2>1, <3>1
    <3>3. QED BY <2>1, <2>2, <3>2
  <2>3. CASE ~work[w].finished
    <3>1. PICK u \in RunRecord : u = [run[j] EXCEPT !.status = "failed"]
      BY <2>1 DEF RunRecord
    <3>2. u.period = run[j].period /\ u.status = "failed" BY <2>1, <3>1 DEF RunRecord
    <3>3. run' = [run EXCEPT ![j] = u] BY <1>2, <2>3, <3>1 DEF FinishFailed
    <3>4. QED BY <3>1, <3>2, <3>3
  <2>4. QED BY <2>2, <2>3
<1>9. UNCHANGED <<scene, accounts, records, blank, refreshes, queue, listed>>
  BY DEF FinishFailed, Elsewhere, tables
<1> HIDE DEF r
<1>10. work'[w] = r /\ run'[j] = u BY <1>3, <1>4, <1>7, <1>8 DEF PullTypes
<1>11. u.status = "success" => at = "throw"
  <2>1. SUFFICES ASSUME u.status = "success" PROVE at = "throw" OBVIOUS
  <2>2. run[j].status = "success" BY <1>8, <2>1
  <2>3. work[w].code = "TRANSIENT" BY <1>1, <1>3, <2>2 DEF OnJob
  <2>4. QED BY <1>5, <2>3 DEF Retryable
<1>12. u.status # "none" BY <1>3, <1>8 DEF OnJob
<1>13. OnJob(w, j)'
  <2>1. j \in Jobs' BY <1>3, <1>9 DEF Jobs
  <2>2. queue'[j].state = "active" BY <1>3, <1>9 DEF OnJob
  <2>3. QED BY <1>5, <1>6, <1>10, <1>11, <1>12, <2>1, <2>2 DEF OnJob
<1>14. JobHolds(j)'
  <2>1. Owed(j)' = Owed(j) BY <1>8, <1>10 DEF Owed
  <2>2. run[j].status # "none" BY <1>3 DEF OnJob
  <2>3. scene.jobs[j].period = NoPeriod =>
          IsLastPeriod(run'[j].period, scene'.now, scene'.jobs[j].granularity)
    BY <1>3, <1>8, <1>9, <1>10, <2>2 DEF JobHolds
  <2>4. CASE u.status = "failed" BY <1>9, <1>10, <2>3, <2>4 DEF JobHolds
  <2>5. CASE u = run[j] BY <1>3, <1>9, <1>10, <2>1, <2>5 DEF JobHolds, DayOf
  <2>6. QED BY <1>8, <2>4, <2>5
<1>15. /\ queue[j] \in QueueRecord /\ queue' = [queue EXCEPT ![j] = queue[j]]
       /\ listed[j] \in SUBSET Account /\ listed' = [listed EXCEPT ![j] = listed[j]]
  BY <1>3, <1>4, <1>9, Rewritten
<1>16. PICK x \in WorkRecord, y \in QueueRecord, l \in SUBSET Account :
         x = r /\ y = queue[j] /\ l = listed[j]
  BY <1>6, <1>15
<1>17. QED BY <1>3, <1>6, <1>7, <1>8, <1>9, <1>13, <1>14, <1>15, <1>16, JobStep

LEMMA PullsStep == Pulls /\ [Next]_vars => Pulls'
<1> SUFFICES ASSUME Pulls, [Next]_vars PROVE Pulls' OBVIOUS
<1>1. SceneOK /\ accounts \subseteq Account BY DEF Pulls, PullTypes
<1>2. CASE UNCHANGED vars BY <1>1, <1>2, Bystander DEF vars, pullVars, tables
<1>3. CASE \/ Submit \/ Refused \/ Created \/ Test \/ ListPage \/ ListFails \/ ZoneAdded
  <2>1. UNCHANGED <<scene, queue, run, listed, work, accounts, records, blank, refreshes>>
    BY <1>3 DEF Submit, Refused, Created, Test, ListPage, ListFails, ZoneAdded, tables
  <2>2. QED BY <1>1, <2>1, Bystander
<1>4. ASSUME NEW a \in Account, LinkAccount(a) PROVE Pulls'
  <2>1. /\ UNCHANGED <<scene, queue, run, listed, work, records, blank, refreshes>>
        /\ accounts' \subseteq Account
    BY <1>1, <1>4 DEF LinkAccount
  <2>2. QED BY <2>1, Bystander
<1>5. ASSUME NEW w \in Worker, Ends(w) PROVE Pulls'
  <2>1. CASE UnknownKey(w) \/ BadShape(w) \/ LimiterFails(w) \/ OutsideTenant(w)
    BY <2>1, Failures
  <2>2. CASE NoAccounts(w) \/ AddRefreshes(w) \/ StopConnector(w) \/ Throw(w)
    BY <2>2, LeavingHolds
  <2>3. CASE ReadCredentials(w) BY <2>3, ReadCredentialsHolds
  <2>4. CASE ListAccounts(w) BY <2>4, ListAccountsHolds
  <2>5. CASE \E a \in Account : PullAccount(w, a) BY <2>5, PullAccountHolds
  <2>6. CASE Request(w) BY <2>6, RequestHolds
  <2>7. CASE Rows(w) \/ NoRows(w) BY <2>7, AnswerHolds
  <2>8. CASE Store(w) BY <2>8, StoreHolds
  <2>9. CASE Activate(w) BY <2>9, ActivateHolds
  <2>10. CASE FinishSuccess(w) BY <2>10, FinishSuccessHolds
  <2>11. CASE FinishFailed(w) BY <2>11, FinishFailedHolds
  <2>12. QED
    BY <1>5, <2>1, <2>2, <2>3, <2>4, <2>5, <2>6, <2>7, <2>8, <2>9, <2>10, <2>11 DEF Ends
<1>6. ASSUME NEW w \in Worker, SourceFails(w) \/ StatementFails(w) PROVE Pulls'
  BY <1>6, Failures
<1>7. ASSUME NEW w \in Worker, NEW j \in Jobs, Deliver(w, j) PROVE Pulls'
  BY <1>7, DeliverHolds
<1>8. ASSUME NEW w \in Worker, Acquire(w) \/ Return(w) \/ Limit(w) \/ LoseRedis(w)
      PROVE  Pulls'
  <2>1. UNCHANGED <<scene, queue, run, listed, work, accounts, records, blank, refreshes>>
    BY <1>8 DEF Acquire, Return, Limit, LoseRedis, pullVars, tables
  <2>2. QED BY <1>1, <2>1, Bystander
<1>9. CASE Time
  <2>1. UNCHANGED <<scene, queue, run, listed, work, accounts, records, blank, refreshes>>
    BY <1>9 DEF Time, pullVars, tables
  <2>2. QED BY <1>1, <2>1, Bystander
<1>10. QED BY <1>2, <1>3, <1>4, <1>5, <1>6, <1>7, <1>8, <1>9 DEF Next

LEMMA PullsAlways == Spec => []Pulls
  BY PullsInit, PullsStep, PTL DEF Spec

\* A run that ended with success has everything it owes, for any number of workers,
\* jobs, attempts and failures, wherever they fall: the catch that follows a failed
\* add does not undo the success, and a repeated delivery begins a run of its own
\* (pull.ts 111-284).
THEOREM SuccessIsStored == Spec => []SuccessMeansStored
<1>1. Pulls => SuccessMeansStored
  BY DEF Pulls, JobHolds, SuccessMeansStored, Owed, DayOf
<1>2. QED BY <1>1, PullsAlways, PTL

\* A scheduled pull covers the last period that is over when it is delivered, at
\* any moment and for any granularity, and the run keeps it (pull.ts 298-358).
THEOREM ScheduledWindows == Spec => []WindowIsLastPeriod
<1>1. Pulls => WindowIsLastPeriod BY DEF Pulls, JobHolds, WindowIsLastPeriod
<1>2. QED BY <1>1, PullsAlways, PTL

(***************************************************************************)
(* The pages of a list of zones.                                           *)
(***************************************************************************)
ApiRecord ==
  [at: {"none", "validating", "refused", "created", "listing", "listed", "not listed"},
   code: Code, page: Nat, found: SUBSET Nat, known: SUBSET Nat]

\* The zones there were at the beginning that lie on a page read by now are found.
Pages ==
  /\ zones \in Nat
  /\ api \in ApiRecord
  /\ api.at = "listing" =>
       /\ api.page >= 1 /\ api.known \subseteq 1..zones
       /\ \A z \in api.known : (z - 1) \div ZonesPerPage < api.page - 1 => z \in api.found
  /\ AccountsListed

LEMMA PagesInit == Init => Pages
<1> SUFFICES ASSUME Init PROVE Pages OBVIOUS
<1>1. PICK at \in {"none", "created"} :
        api = [at |-> at, code |-> "", page |-> 0, found |-> {}, known |-> {}]
  BY DEF Init
<1>2. api \in ApiRecord /\ api.at = at BY <1>1 DEF ApiRecord, Code
<1>3. QED BY <1>2 DEF Init, Pages, AccountsListed

LEMMA PageNumbers ==
  ASSUME NEW n \in Nat, NEW z \in 1..n
  PROVE  /\ (z - 1) \div ZonesPerPage \in Nat
         /\ (z - 1) \div ZonesPerPage < (n + ZonesPerPage - 1) \div ZonesPerPage
<1>1. z \in Int /\ n \in Int /\ 1 <= z /\ z <= n OBVIOUS
<1>2. (z - 1) \div 2 \in Int /\ (n + 2 - 1) \div 2 \in Int /\ 0 <= (z - 1) \div 2
  BY <1>1, SMTT(10)
<1>3. (z - 1) \div 2 < (n + 2 - 1) \div 2 BY <1>1, SMTT(10)
<1>4. QED BY <1>2, <1>3 DEF ZonesPerPage

\* After a page is read, so is everything on it.
LEMMA PageRead ==
  ASSUME Pages, api.at = "listing", NEW z \in api.known,
         (z - 1) \div ZonesPerPage < api.page
  PROVE  z \in api.found \cup ZonePage(api.page)
<1>1. z \in 1..zones /\ zones \in Nat /\ api.page \in Nat BY DEF Pages, ApiRecord
<1>2. PICK p \in Nat : p = (z - 1) \div ZonesPerPage BY <1>1, PageNumbers
<1>3. CASE p < api.page - 1 BY <1>2, <1>3 DEF Pages
<1>4. CASE p = api.page - 1 BY <1>1, <1>2, <1>4 DEF ZonePage
<1>5. QED BY <1>1, <1>2, <1>3, <1>4

LEMMA TokenCodes ==
  ASSUME NEW error PROVE ClassifyToken(error) \in Code
<1>1. Classify(error) \in Code BY Codes
<1>2. QED BY <1>1 DEF ClassifyToken, Code

LEMMA PagesStep == Pages /\ [Next]_vars => Pages'
<1> SUFFICES ASSUME Pages, [Next]_vars PROVE Pages' OBVIOUS
<1>1. scene' = scene BY SceneStays
<1>2. zones \in Nat /\ api \in ApiRecord BY DEF Pages
<1>3. ASSUME UNCHANGED <<api, zones>> PROVE Pages'
  BY <1>1, <1>3 DEF Pages, AccountsListed
<1>4. ASSUME zones' = zones, api' \in ApiRecord, api'.at \notin {"listing", "listed"}
      PROVE  Pages'
  BY <1>2, <1>4 DEF Pages, AccountsListed
<1>5. CASE Submit
  <2>1. PICK at \in {"validating", "refused"}, c \in Code :
          api' = [api EXCEPT !.at = at, !.code = c]
    <3>1. PICK at \in {"validating", "refused"} :
            at = IF scene.shape THEN "validating" ELSE "refused"
      OBVIOUS
    <3>2. PICK c \in Code : c = IF scene.shape THEN "" ELSE "AUTH_INVALID"
      BY DEF Code
    <3>3. QED BY <1>5, <3>1, <3>2 DEF Submit
  <2>2. api' \in ApiRecord /\ api'.at = at BY <1>2, <2>1 DEF ApiRecord
  <2>3. QED BY <1>4, <1>5, <2>2 DEF Submit
<1>6. CASE Refused
  <2>1. PICK c \in Code : api' = [api EXCEPT !.at = "refused", !.code = c]
    BY <1>6, TokenCodes DEF Refused
  <2>2. api' \in ApiRecord /\ api'.at = "refused" BY <1>2, <2>1 DEF ApiRecord
  <2>3. QED BY <1>4, <1>6, <2>2 DEF Refused
<1>7. CASE Created \/ ListFails
  <2>1. PICK at \in {"created", "not listed"} : api' = [api EXCEPT !.at = at]
    BY <1>7 DEF Created, ListFails
  <2>2. api' \in ApiRecord /\ api'.at = at BY <1>2, <2>1 DEF ApiRecord
  <2>3. QED BY <1>4, <1>7, <2>2 DEF Created, ListFails
<1>8. CASE Test
  <2>1. PICK at \in {"listed", "listing"} :
          at = IF scene.source = "ga4" THEN "listed" ELSE "listing"
    OBVIOUS
  <2>2. PICK known \in SUBSET Nat : known = 1..zones BY <1>2
  <2>3. api' = [api EXCEPT !.at = at, !.page = 1, !.known = known]
    BY <1>8, <2>1, <2>2 DEF Test
  <2>4. api' \in ApiRecord /\ api'.at = at /\ api'.page = 1 /\ api'.known = known
    BY <1>2, <2>3 DEF ApiRecord
  <2>5. zones' = zones BY <1>8 DEF Test
  <2>6. ASSUME NEW z \in api'.known PROVE ~((z - 1) \div ZonesPerPage < api'.page - 1)
    <3>1. z \in 1..zones BY <2>2, <2>4, <2>6
    <3>2. (z - 1) \div ZonesPerPage \in Nat BY <1>2, <3>1, PageNumbers
    <3>3. QED BY <2>4, <3>2
  <2>7. AccountsListed' BY <1>1, <2>1, <2>4 DEF AccountsListed
  <2>8. QED BY <1>2, <2>2, <2>4, <2>5, <2>6, <2>7 DEF Pages
<1>9. CASE ListPage
  <2>1. api.at = "listing" /\ zones' = zones /\ api.page \in Nat /\ api.page >= 1
    BY <1>2, <1>9 DEF ListPage, Pages, ApiRecord
  <2>2. PICK at \in {"listed", "listing"} :
          at = IF api.page + 1 > ZonePages THEN "listed" ELSE "listing"
    OBVIOUS
  <2>3. PICK found \in SUBSET Nat : found = api.found \cup ZonePage(api.page)
    <3>1. 1..zones \subseteq Nat BY <1>2
    <3>2. ZonePage(api.page) \subseteq 1..zones BY DEF ZonePage
    <3>3. api.found \subseteq Nat BY <1>2 DEF ApiRecord
    <3>4. QED BY <3>1, <3>2, <3>3
  <2>4. PICK page \in Nat : page = api.page + 1 BY <2>1
  <2>5. api' = [api EXCEPT !.at = at, !.page = page, !.found = found]
    BY <1>9, <2>2, <2>3, <2>4 DEF ListPage
  <2>6. /\ api' \in ApiRecord /\ api'.at = at /\ api'.page = page
        /\ api'.found = found /\ api'.known = api.known
    BY <1>2, <2>5 DEF ApiRecord
  <2>7. ASSUME NEW z \in api.known, (z - 1) \div ZonesPerPage < page - 1
        PROVE  z \in found
    <3>1. (z - 1) \div ZonesPerPage < api.page BY <2>1, <2>4, <2>7
    <3>2. QED BY <2>1, <2>3, <3>1, PageRead
  <2>8. at = "listed" => api.known \subseteq found
    <3>1. SUFFICES ASSUME at = "listed", NEW z \in api.known PROVE z \in found OBVIOUS
    <3>2. api.page + 1 > ZonePages BY <2>2, <3>1
    <3>3. z \in 1..zones BY <2>1, <3>1 DEF Pages
    <3>4. PICK p \in Nat : p = (z - 1) \div ZonesPerPage BY <1>2, <3>3, PageNumbers
    <3>5. p < ZonePages BY <1>2, <3>3, <3>4, PageNumbers DEF ZonePages
    <3>6. ZonePages \in Int BY <1>2, SMTT(10) DEF ZonePages, ZonesPerPage
    <3>7. p < api.page BY <2>1, <3>2, <3>5, <3>6
    <3>8. QED BY <2>1, <2>3, <3>4, <3>7, PageRead
  <2>9. AccountsListed' BY <2>6, <2>8 DEF AccountsListed
  <2>10. api.known \subseteq 1..zones BY <2>1 DEF Pages
  <2>11. page >= 1 BY <2>1, <2>4
  <2>12. QED BY <1>2, <2>1, <2>6, <2>7, <2>9, <2>10, <2>11 DEF Pages
<1>10. CASE ZoneAdded
  <2>1. api' = api /\ zones' = zones + 1 BY <1>10 DEF ZoneAdded
  <2>2. 1..zones \subseteq 1..zones' BY <1>2, <2>1
  <2>3. QED BY <1>1, <1>2, <2>1, <2>2 DEF Pages, AccountsListed
<1>11. ASSUME NEW a \in Account, LinkAccount(a) PROVE UNCHANGED <<api, zones>>
  BY <1>11 DEF LinkAccount
<1>12. ASSUME NEW w \in Worker,
              \/ \E j \in Jobs : Deliver(w, j)
              \/ SourceFails(w) \/ StatementFails(w)
              \/ Acquire(w) \/ Return(w) \/ Limit(w) \/ LoseRedis(w)
       PROVE  UNCHANGED <<api, zones>>
  BY <1>12 DEF Deliver, SourceFails, StatementFails, Acquire, Return, Limit, LoseRedis,
               Elsewhere, pullVars
<1>13. ASSUME NEW w \in Worker, Ends(w) PROVE UNCHANGED <<api, zones>>
  BY <1>13 DEF Ends, ReadCredentials, UnknownKey, ListAccounts, NoAccounts, PullAccount,
               BadShape, Request, LimiterFails, Rows, NoRows, Store, OutsideTenant, Activate,
               FinishSuccess, AddRefreshes, FinishFailed, StopConnector, Throw, Elsewhere,
               Private
<1>14. CASE Time \/ UNCHANGED vars BY <1>3, <1>14 DEF Time, vars, pullVars
<1>15. QED BY <1>3, <1>5, <1>6, <1>7, <1>8, <1>9, <1>10, <1>11, <1>12, <1>13, <1>14 DEF Next

\* An answered list has every zone there was when it was asked for, for any number
\* of zones and however many are added meanwhile (cloudflare-analytics.ts 76-99).
THEOREM ZonesAreListed == Spec => []AccountsListed
<1>1. Pages => AccountsListed BY DEF Pages
<1>2. QED BY <1>1, PagesInit, PagesStep, PTL DEF Spec

(***************************************************************************)
(* The pace: every report that was asked for, or may be by now, was paid   *)
(* for with a token.                                                       *)
(***************************************************************************)
\* A pull and its acquire() go together.
Paired(w) ==
  IF work[w].at = "acquire" THEN call[w].at # "none" /\ call[w].cost = 1
  ELSE call[w].at = "none"

Together == IF OthersAsk THEN \A w \in Worker : ~Busy(w) ELSE \A w \in Worker : Paired(w)

\* Who has been granted a token for a report and has not asked for it yet.
Holds(w) ==
  /\ work[w].at = "acquire"
  /\ call[w].at = "granted" \/ (call[w].at = "answered" /\ call[w].wait = 0)

Held == {w \in Worker : Holds(w)}

Metered == spent + Level <= Full + (Refill * clock)
Counted == requests \in Nat /\ (requests + Cardinality(Held)) * Second <= spent

\* What a step does to the tokens that are held.
KeepsHeld  == requests' = requests /\ spent' >= spent /\ Held' = Held
TakesToken == /\ requests' = requests /\ spent' = spent + Second
              /\ \E w \in Worker \ Held : Held' = Held \cup {w}
UsesToken  == /\ requests' = requests + 1 /\ spent' = spent
              /\ \E w \in Held : Held' = Held \ {w}

LEMMA HeldFinite == IsFiniteSet(Held) /\ Cardinality(Held) \in Nat
<1>1. Held \subseteq Worker BY DEF Held
<1>2. QED BY <1>1, PullAssumption, FS_Subset, FS_CardinalityType

LEMMA CountedStep ==
  ASSUME Counted, BucketTypeOK, BucketTypeOK', KeepsHeld \/ TakesToken \/ UsesToken
  PROVE  Counted'
<1>1. PICK n \in Nat, k \in Nat : n = requests /\ k = Cardinality(Held)
  BY HeldFinite DEF Counted
<1>2. PICK s \in Nat, t \in Nat : s = spent /\ t = spent' BY DEF BucketTypeOK
<1>3. (n + k) * Second <= s /\ Second \in Nat BY <1>1, <1>2, BucketAssumption DEF Counted
<1>4. CASE KeepsHeld
  <2>1. requests' = n /\ Cardinality(Held') = k /\ t >= s BY <1>1, <1>2, <1>4 DEF KeepsHeld
  <2>2. PICK m \in Nat : m = (n + k) * Second BY <1>3, ProductNat
  <2>3. m <= t BY <1>3, <2>1, <2>2
  <2>4. QED BY <1>2, <2>1, <2>2, <2>3 DEF Counted
<1>5. CASE TakesToken
  <2>1. PICK w \in Worker \ Held : Held' = Held \cup {w} BY <1>5 DEF TakesToken
  <2>2. Cardinality(Held') = k + 1 BY <1>1, <2>1, HeldFinite, FS_AddElement
  <2>3. requests' = n /\ t = s + Second BY <1>1, <1>2, <1>5 DEF TakesToken
  <2>4. PICK a \in Nat : a = n + k OBVIOUS
  <2>5. (a + 1) * Second = (a * Second) + Second BY <1>3, ProductStep
  <2>6. n + (k + 1) = a + 1 BY <2>4
  <2>7. a * Second \in Nat /\ a * Second <= s BY <1>3, <2>4, ProductNat
  <2>8. (n + (k + 1)) * Second <= t BY <1>3, <2>3, <2>5, <2>6, <2>7
  <2>9. QED BY <1>2, <2>2, <2>3, <2>8 DEF Counted
<1>6. CASE UsesToken
  <2>1. PICK w \in Held : Held' = Held \ {w} BY <1>6 DEF UsesToken
  <2>2. Cardinality(Held') = k - 1
    <3>1. IsFiniteSet(Held) BY HeldFinite
    <3>2. QED BY <1>1, <2>1, <3>1, FS_RemoveElement
  <2>3. requests' = n + 1 /\ t = s BY <1>1, <1>2, <1>6 DEF UsesToken
  <2>4. (n + 1) + (k - 1) = n + k BY <1>1
  <2>5. QED BY <1>2, <1>3, <2>2, <2>3, <2>4 DEF Counted
<1>7. QED BY <1>4, <1>5, <1>6

LEMMA MeteredStep ==
  ASSUME BucketTypeOK, BucketTypeOK', Metered, [BucketNext]_bucketVars
  PROVE  Metered'
<1>1. [M!Next]_(M!meter) BY MeterNext
<1>2. Sane /\ Sane' BY TypesSane DEF BucketTypeOK, Sane
<1>3. PICK l \in Int, k \in Int : l = Level /\ k = Level' BY <1>2, LevelType, LevelNextType
<1>4. PICK s \in Nat, t \in Nat, c \in Nat, d \in Nat :
        s = spent /\ t = spent' /\ c = clock /\ d = clock'
  BY DEF BucketTypeOK
<1>5. PICK f \in Nat, r \in Nat : f = Full /\ r = Refill /\ Full' = f /\ Refill' = r
  BY FullNat DEF Full, Refill
<1>6. PICK x \in Nat, y \in Nat : x = r * c /\ y = r * d BY ProductNat
<1>7. s + l <= f + x BY <1>3, <1>4, <1>5, <1>6 DEF Metered
<1>8. t + k <= f + y
  <2>1. CASE UNCHANGED M!meter
    <3>1. d = c /\ t = s /\ k = l BY <1>3, <1>4, <2>1 DEF M!meter
    <3>2. QED BY <1>6, <1>7, <3>1
  <2>2. CASE M!Elapse
    <3>1. d = c + 1 /\ t = s /\ k <= l + r BY <1>3, <1>4, <1>5, <2>2 DEF M!Elapse
    <3>2. y = x + r
      <4>1. (c + 1) * r = (c * r) + r BY ProductStep
      <4>2. r * d = (c + 1) * r /\ r * c = c * r BY <3>1
      <4>3. QED BY <1>6, <4>1, <4>2
    <3>3. QED BY <1>7, <3>1, <3>2
  <2>3. CASE M!Grant
    <3>1. d = c /\ k + (t - s) <= l BY <1>3, <1>4, <2>3 DEF M!Grant
    <3>2. QED BY <1>6, <1>7, <3>1
  <2>4. CASE M!Lose
    <3>1. d = c /\ t = s /\ k <= l BY <1>3, <1>4, <2>4 DEF M!Lose
    <3>2. QED BY <1>6, <1>7, <3>1
  <2>5. QED BY <1>1, <2>1, <2>2, <2>3, <2>4 DEF M!Next
<1>9. QED BY <1>3, <1>4, <1>5, <1>6, <1>8 DEF Metered

\* Where others ask for tokens nobody pulls.
LEMMA OthersStep ==
  ASSUME Pulls, BucketTypeOK, OthersAsk, Together, Next
  PROVE  work' = work /\ requests' = requests /\ spent' >= spent
<1>1. \A w \in Worker : work[w].at = "idle" BY DEF Together, Busy
<1>2. Jobs = {} BY SceneIs DEF Pulls, PullTypes
<1>3. spent \in Nat BY DEF BucketTypeOK
<1>4. ASSUME NEW w \in Worker, Ends(w) \/ SourceFails(w) \/ StatementFails(w) PROVE FALSE
  <2>1. ~Ends(w)
    BY <1>1 DEF Ends, ReadCredentials, UnknownKey, ListAccounts, NoAccounts, PullAccount,
                BadShape, Request, LimiterFails, Rows, NoRows, Store, OutsideTenant, Activate,
                FinishSuccess, AddRefreshes, FinishFailed, StopConnector, Throw
  <2>2. ~SourceFails(w) /\ ~StatementFails(w) BY <1>1 DEF SourceFails, StatementFails
  <2>3. QED BY <1>4, <2>1, <2>2
<1>5. CASE \/ Submit \/ Refused \/ Created \/ Test \/ ListPage \/ ListFails \/ ZoneAdded
           \/ \E a \in Account : LinkAccount(a)
  <2>1. work' = work /\ requests' = requests /\ spent' = spent
    BY <1>5 DEF Submit, Refused, Created, Test, ListPage, ListFails, ZoneAdded, LinkAccount,
                bucketVars
  <2>2. QED BY <1>3, <2>1
<1>6. ASSUME NEW w \in Worker, Acquire(w) \/ Return(w) \/ LoseRedis(w)
      PROVE  work' = work /\ requests' = requests /\ spent' = spent
  BY <1>6 DEF Acquire, Return, LoseRedis, pullVars, Ask, Leave, RedisFails
<1>7. ASSUME NEW w \in Worker, Limit(w)
      PROVE  work' = work /\ requests' = requests /\ spent' >= spent
  <2>1. work' = work /\ requests' = requests BY <1>7 DEF Limit, pullVars
  <2>2. call[w].cost * Second \in Nat BY CallCost
  <2>3. spent' = spent \/ spent' = spent + (call[w].cost * Second)
    BY <1>7 DEF Limit, BucketStep, Script, Granted, GiveUp, Sleep, Wake
  <2>4. QED BY <1>3, <2>1, <2>2, <2>3
<1>8. CASE Time
  <2>1. work' = work /\ requests' = requests /\ spent' = spent
    BY <1>8 DEF Time, pullVars, Tick, SetBack
  <2>2. QED BY <1>3, <2>1
<1>9. QED BY <1>2, <1>3, <1>4, <1>5, <1>6, <1>7, <1>8 DEF Next

\* What w does to the tokens when nobody else's work or call changes.
OthersPaired(w) ==
  \A v \in Worker \ {w} : work'[v] = work[v] /\ call'[v] = call[v]

LEMMA OthersKeep ==
  ASSUME NEW w \in Worker, OthersPaired(w), \A v \in Worker : Paired(v), Paired(w)'
  PROVE  /\ \A v \in Worker : Paired(v)'
         /\ Holds(w)' = Holds(w) => Held' = Held
         /\ Holds(w)' /\ ~Holds(w) => w \notin Held /\ Held' = Held \cup {w}
         /\ Holds(w) /\ ~Holds(w)' => w \in Held /\ Held' = Held \ {w}
<1>1. ASSUME NEW v \in Worker \ {w} PROVE Paired(v)' /\ Holds(v)' = Holds(v)
  BY <1>1 DEF OthersPaired, Paired, Holds
<1>2. \A v \in Worker : Paired(v)' BY <1>1
<1>3. Holds(w) \in BOOLEAN /\ Holds(w)' \in BOOLEAN BY DEF Holds
<1>4. Held = {v \in Worker : Holds(v)} /\ Held' = {v \in Worker : Holds(v)'} BY DEF Held
<1>5. Holds(w)' = Holds(w) => Held' = Held BY <1>1, <1>4
<1>6. Holds(w)' /\ ~Holds(w) => w \notin Held /\ Held' = Held \cup {w} BY <1>1, <1>4
<1>7. Holds(w) /\ ~Holds(w)' => w \in Held /\ Held' = Held \ {w} BY <1>1, <1>4
<1>8. QED BY <1>2, <1>5, <1>6, <1>7

\* A step of w that leaves the calls alone and neither begins nor ends an acquire().
LEMMA ElsewherePaced ==
  ASSUME \A v \in Worker : Paired(v), UNCHANGED <<call, requests, spent>>, spent \in Nat,
         NEW w \in Worker, \A v \in Worker \ {w} : work'[v] = work[v],
         work[w].at # "acquire", work'[w].at # "acquire"
  PROVE  (\A v \in Worker : Paired(v)') /\ KeepsHeld
<1>1. OthersPaired(w) /\ Paired(w)' BY DEF OthersPaired, Paired
<1>2. Holds(w)' = Holds(w) BY DEF Holds
<1>3. QED BY <1>1, <1>2, OthersKeep DEF KeepsHeld

LEMMA HandlerPaced ==
  ASSUME Pulls, BucketTypeOK, \A v \in Worker : Paired(v), NEW w \in Worker,
         \/ \E j \in Jobs : Deliver(w, j)
         \/ ReadCredentials(w) \/ UnknownKey(w) \/ ListAccounts(w) \/ NoAccounts(w)
         \/ BadShape(w) \/ Rows(w) \/ NoRows(w) \/ Store(w) \/ OutsideTenant(w)
         \/ Activate(w) \/ FinishSuccess(w) \/ AddRefreshes(w) \/ FinishFailed(w)
         \/ StopConnector(w) \/ Throw(w) \/ SourceFails(w) \/ StatementFails(w)
  PROVE  (\A v \in Worker : Paired(v)') /\ KeepsHeld
<1>1. UNCHANGED <<call, requests, spent>>
  BY DEF Deliver, ReadCredentials, UnknownKey, ListAccounts, NoAccounts, BadShape, Rows,
         NoRows, Store, OutsideTenant, Activate, FinishSuccess, AddRefreshes, FinishFailed,
         StopConnector, Throw, SourceFails, StatementFails, Private, bucketVars
<1>2. work[w].at # "acquire"
  BY DEF Deliver, ReadCredentials, UnknownKey, ListAccounts, NoAccounts, BadShape, Rows,
         NoRows, Store, OutsideTenant, Activate, FinishSuccess, AddRefreshes, FinishFailed,
         StopConnector, Throw, SourceFails, StatementFails
<1>3. work \in [Worker -> WorkRecord] /\ work[w] \in WorkRecord BY DEF Pulls, PullTypes
<1>4. PICK r : work' = [work EXCEPT ![w] = r] /\ r.at # "acquire"
  <2>1. ASSUME NEW j \in Jobs, Deliver(w, j)
        PROVE  \E r : work' = [work EXCEPT ![w] = r] /\ r.at # "acquire"
    <3>1. [NoWork EXCEPT !.at = "credentials", !.job = j].at # "acquire" BY DEF NoWork
    <3>2. QED BY <2>1, <3>1 DEF Deliver
  <2>2. CASE NoAccounts(w) \/ AddRefreshes(w) \/ StopConnector(w) \/ Throw(w)
    <3>1. NoWork.at # "acquire" BY DEF NoWork
    <3>2. QED BY <2>2, <3>1 DEF NoAccounts, AddRefreshes, StopConnector, Throw
  <2>3. CASE UnknownKey(w) \/ BadShape(w) \/ OutsideTenant(w) \/ SourceFails(w)
             \/ StatementFails(w)
    <3>1. PICK c : work' = [work EXCEPT ![w] = [work[w] EXCEPT !.at = "failing", !.code = c]]
      BY <2>3 DEF UnknownKey, BadShape, OutsideTenant, SourceFails, StatementFails
    <3>2. [work[w] EXCEPT !.at = "failing", !.code = c].at # "acquire"
      BY <1>3 DEF WorkRecord
    <3>3. QED BY <3>1, <3>2
  <2>4. CASE ReadCredentials(w)
    <3>1. PICK b : work' = [work EXCEPT ![w] = [work[w] EXCEPT !.at = "accounts", !.shape = b]]
      BY <2>4 DEF ReadCredentials
    <3>2. [work[w] EXCEPT !.at = "accounts", !.shape = b].at # "acquire"
      BY <1>3 DEF WorkRecord
    <3>3. QED BY <3>1, <3>2
  <2>5. CASE ListAccounts(w)
    <3>1. work' = [work EXCEPT ![w] = [work[w] EXCEPT !.at = "loop", !.todo = accounts]]
      BY <2>5 DEF ListAccounts
    <3>2. [work[w] EXCEPT !.at = "loop", !.todo = accounts].at # "acquire"
      BY <1>3 DEF WorkRecord
    <3>3. QED BY <3>1, <3>2
  <2>6. CASE Rows(w) \/ NoRows(w)
    <3>1. PICK d : work' = [work EXCEPT ![w] = [work[w] EXCEPT !.at = "store", !.days = d]]
      BY <2>6 DEF Rows, NoRows
    <3>2. [work[w] EXCEPT !.at = "store", !.days = d].at # "acquire"
      BY <1>3 DEF WorkRecord
    <3>3. QED BY <3>1, <3>2
  <2>7. CASE Store(w)
    <3>1. PICK d : work' = [work EXCEPT ![w] = [work[w] EXCEPT !.at = "loop", !.affected = d]]
      BY <2>7 DEF Store
    <3>2. [work[w] EXCEPT !.at = "loop", !.affected = d].at # "acquire"
      BY <1>3 DEF WorkRecord
    <3>3. QED BY <3>1, <3>2
  <2>8. CASE Activate(w)
    <3>1. work' = [work EXCEPT ![w] = [work[w] EXCEPT !.at = "success"]]
      BY <2>8 DEF Activate
    <3>2. [work[w] EXCEPT !.at = "success"].at # "acquire" BY <1>3 DEF WorkRecord
    <3>3. QED BY <3>1, <3>2
  <2>9. CASE FinishSuccess(w) \/ FinishFailed(w)
    <3>1. PICK at \in {"enqueue", "throw", "stop"} :
            work' = [work EXCEPT ![w] = [work[w] EXCEPT !.at = at, !.finished = TRUE]]
      BY <2>9 DEF FinishSuccess, FinishFailed
    <3>2. [work[w] EXCEPT !.at = at, !.finished = TRUE].at # "acquire"
      BY <1>3 DEF WorkRecord
    <3>3. QED BY <3>1, <3>2
  <2>10. QED BY <2>1, <2>2, <2>3, <2>4, <2>5, <2>6, <2>7, <2>8, <2>9
<1>5. work'[w].at # "acquire" /\ \A v \in Worker \ {w} : work'[v] = work[v]
  BY <1>3, <1>4
<1>6. spent \in Nat BY DEF BucketTypeOK
<1>7. QED BY <1>1, <1>2, <1>5, <1>6, ElsewherePaced

\* An acquire() begins with connector.pull and ends with the report or an error.
LEMMA AcquirePaced ==
  ASSUME Pulls, BucketTypeOK, \A v \in Worker : Paired(v), NEW w \in Worker,
         (\E a \in Account : PullAccount(w, a)) \/ Request(w) \/ LimiterFails(w)
  PROVE  (\A v \in Worker : Paired(v)') /\ (KeepsHeld \/ UsesToken)
<1>1. /\ work \in [Worker -> WorkRecord] /\ work[w] \in WorkRecord
      /\ call \in [Worker -> Call] /\ spent \in Nat
  BY DEF Pulls, PullTypes, BucketTypeOK
<1>2. ASSUME NEW a \in Account, PullAccount(w, a)
      PROVE  (\A v \in Worker : Paired(v)') /\ KeepsHeld
  <2>1. work' = [work EXCEPT ![w] = [work[w] EXCEPT !.at = "acquire",
                    !.todo = work[w].todo \ {a}, !.on = {a}]]
    BY <1>2 DEF PullAccount
  <2>2. [work[w] EXCEPT !.at = "acquire", !.todo = work[w].todo \ {a}, !.on = {a}].at = "acquire"
    BY <1>1 DEF WorkRecord
  <2>3. work'[w].at = "acquire" BY <1>1, <2>1, <2>2
  <2>4. ~(1 > Capacity) BY BucketAssumption
  <2>5. PICK k : /\ call' = [call EXCEPT ![w] = k]
                 /\ k.at = "asking" /\ k.cost = 1
    <3> DEFINE asked == [NoCall EXCEPT !.at = IF 1 > Capacity THEN "refused" ELSE "asking",
                                       !.cost = 1, !.deadline = NoDeadline]
    <3>1. call' = [call EXCEPT ![w] = asked] BY <1>2 DEF PullAccount, Ask
    <3>2. asked.at = "asking" /\ asked.cost = 1 BY <2>4 DEF NoCall
    <3> HIDE DEF asked
    <3>3. QED BY <3>1, <3>2
  <2>6. call'[w] = k BY <1>1, <2>5
  <2>7. OthersPaired(w) BY <1>1, <2>1, <2>5 DEF OthersPaired
  <2>8. Paired(w)' BY <2>3, <2>5, <2>6 DEF Paired
  <2>9. ~Holds(w) /\ ~Holds(w)'
    BY <1>2, <2>3, <2>5, <2>6 DEF Holds, PullAccount
  <2>10. Holds(w)' = Holds(w) BY <2>9 DEF Holds
  <2>11. requests' = requests /\ spent' = spent BY <1>2 DEF PullAccount, Ask
  <2>12. QED BY <1>1, <2>7, <2>8, <2>10, <2>11, OthersKeep DEF KeepsHeld
<1>3. CASE Request(w) \/ LimiterFails(w)
  <2>1. PICK r : work' = [work EXCEPT ![w] = r] /\ r.at # "acquire"
    <3>1. CASE Request(w)
      <4>1. work' = [work EXCEPT ![w] = [work[w] EXCEPT !.at = "request"]]
        BY <3>1 DEF Request
      <4>2. [work[w] EXCEPT !.at = "request"].at # "acquire" BY <1>1 DEF WorkRecord
      <4>3. QED BY <4>1, <4>2
    <3>2. CASE LimiterFails(w)
      <4>1. PICK c : work' = [work EXCEPT ![w] = [work[w] EXCEPT !.at = "failing", !.code = c]]
        BY <3>2 DEF LimiterFails
      <4>2. [work[w] EXCEPT !.at = "failing", !.code = c].at # "acquire"
        BY <1>1 DEF WorkRecord
      <4>3. QED BY <4>1, <4>2
    <3>3. QED BY <1>3, <3>1, <3>2
  <2>2. call' = [call EXCEPT ![w] = NoCall] /\ spent' = spent
    BY <1>3 DEF Request, LimiterFails, Leave
  <2>3. NoCall.at = "none" BY DEF NoCall
  <2>4. work'[w].at # "acquire" /\ call'[w].at = "none" BY <1>1, <2>1, <2>2, <2>3
  <2>5. OthersPaired(w) BY <1>1, <2>1, <2>2 DEF OthersPaired
  <2>6. Paired(w)' /\ ~Holds(w)' BY <2>4 DEF Paired, Holds
  <2>7. CASE Request(w)
    <3>1. Holds(w) BY <2>7 DEF Request, Holds
    <3>2. requests' = requests + 1 BY <2>7 DEF Request
    <3>3. QED BY <2>2, <2>5, <2>6, <3>1, <3>2, OthersKeep DEF UsesToken
  <2>8. CASE LimiterFails(w)
    <3>1. ~Holds(w) BY <2>8 DEF LimiterFails, Holds
    <3>2. Holds(w)' = Holds(w) BY <2>6, <3>1 DEF Holds
    <3>3. requests' = requests BY <2>8 DEF LimiterFails
    <3>4. QED BY <1>1, <2>2, <2>5, <2>6, <3>2, <3>3, OthersKeep DEF KeepsHeld
  <2>9. QED BY <1>3, <2>7, <2>8
<1>4. QED BY <1>2, <1>3

\* A token is held from the script that grants it on.
LEMMA LimiterPaced ==
  ASSUME BucketTypeOK, \A v \in Worker : Paired(v), NEW w \in Worker, Limit(w) \/ LoseRedis(w)
  PROVE  (\A v \in Worker : Paired(v)') /\ (KeepsHeld \/ TakesToken)
<1>1. /\ call \in [Worker -> Call] /\ call[w] \in Call /\ spent \in Nat
      /\ work' = work /\ requests' = requests
  BY DEF BucketTypeOK, Limit, LoseRedis, pullVars
<1>2. /\ call[w].at \in {"asking", "answered", "sleeping"}
      /\ \E k : /\ call' = [call EXCEPT ![w] = k] /\ k.cost = call[w].cost
                /\ k.at # "none"
                /\ k.at = "granted" => call[w].at = "answered" /\ call[w].wait = 0
                /\ k.at = "answered" => Script(w) /\ k.wait = Answer(w)
                /\ Granted(w) => k.at = "granted"
  <2>1. CASE Script(w)
    <3>1. PICK k : k = [call[w] EXCEPT !.at = "answered", !.wait = Answer(w)] OBVIOUS
    <3>2. k.at = "answered" /\ k.wait = Answer(w) /\ k.cost = call[w].cost
      BY <1>1, <3>1 DEF Call
    <3>3. call' = [call EXCEPT ![w] = k] /\ call[w].at = "asking" BY <2>1, <3>1 DEF Script
    <3>4. ~Granted(w) BY <3>3 DEF Granted
    <3>5. QED BY <2>1, <3>2, <3>3, <3>4
  <2>2. CASE Granted(w)
    <3>1. PICK k : k = [call[w] EXCEPT !.at = "granted"] OBVIOUS
    <3>2. k.at = "granted" /\ k.cost = call[w].cost BY <1>1, <3>1 DEF Call
    <3>3. /\ call' = [call EXCEPT ![w] = k]
          /\ call[w].at = "answered" /\ call[w].wait = 0
      BY <2>2, <3>1 DEF Granted
    <3>4. QED BY <3>2, <3>3
  <2>3. CASE GiveUp(w) \/ RedisFails(w)
    <3>1. PICK k : k = [call[w] EXCEPT !.at = "refused"] OBVIOUS
    <3>2. k.at = "refused" /\ k.cost = call[w].cost BY <1>1, <3>1 DEF Call
    <3>3. call' = [call EXCEPT ![w] = k] /\ call[w].at \in {"asking", "answered"}
      BY <2>3, <3>1 DEF GiveUp, RedisFails
    <3>4. ~Granted(w) BY <2>3 DEF GiveUp, RedisFails, Granted
    <3>5. QED BY <3>2, <3>3, <3>4
  <2>4. CASE Sleep(w)
    <3>1. PICK k : k = [call[w] EXCEPT !.at = "sleeping", !.wake = clock + call[w].wait]
      OBVIOUS
    <3>2. k.at = "sleeping" /\ k.cost = call[w].cost BY <1>1, <3>1 DEF Call
    <3>3. call' = [call EXCEPT ![w] = k] /\ call[w].at = "answered" /\ ~Granted(w)
      BY <2>4, <3>1 DEF Sleep, Granted
    <3>4. QED BY <3>2, <3>3
  <2>5. CASE Wake(w)
    <3>1. PICK k : k = [call[w] EXCEPT !.at = "asking", !.slept = TRUE] OBVIOUS
    <3>2. k.at = "asking" /\ k.cost = call[w].cost BY <1>1, <3>1 DEF Call
    <3>3. call' = [call EXCEPT ![w] = k] /\ call[w].at = "sleeping" /\ ~Granted(w)
      BY <2>5, <3>1 DEF Wake, Granted
    <3>4. QED BY <3>2, <3>3
  <2>6. QED BY <2>1, <2>2, <2>3, <2>4, <2>5 DEF Limit, LoseRedis, BucketStep
<1>3. PICK k : /\ call' = [call EXCEPT ![w] = k] /\ k.cost = call[w].cost
               /\ k.at # "none"
               /\ k.at = "granted" => call[w].at = "answered" /\ call[w].wait = 0
               /\ k.at = "answered" => Script(w) /\ k.wait = Answer(w)
               /\ Granted(w) => k.at = "granted"
  BY <1>2
<1>4. call'[w] = k BY <1>1, <1>3
<1>5. work[w].at = "acquire" /\ call[w].cost = 1 BY <1>2 DEF Paired
<1>6. OthersPaired(w) BY <1>1, <1>3 DEF OthersPaired
<1>7. Paired(w)' BY <1>1, <1>3, <1>4, <1>5 DEF Paired
<1>8. Second \in Nat BY BucketAssumption
<1>9. CASE Script(w) /\ Answer(w) = 0
  <2>1. spent' = spent + Second BY <1>5, <1>8, <1>9 DEF Script
  <2>2. call[w].at = "asking" BY <1>9 DEF Script
  <2>3. ~Holds(w) BY <2>2 DEF Holds
  <2>4. call'[w].at = "answered" /\ call'[w].wait = 0
    <3>1. call' = [call EXCEPT ![w] = [call[w] EXCEPT !.at = "answered", !.wait = Answer(w)]]
      BY <1>9 DEF Script
    <3>2. QED BY <1>1, <1>9, <3>1 DEF Call
  <2>5. Holds(w)' BY <1>1, <1>5, <2>4 DEF Holds
  <2>6. w \in Worker \ Held /\ Held' = Held \cup {w}
    BY <1>6, <1>7, <2>3, <2>5, OthersKeep
  <2>7. QED BY <1>1, <1>6, <1>7, <2>1, <2>6, OthersKeep DEF TakesToken
<1>10. CASE ~(Script(w) /\ Answer(w) = 0)
  <2>1. spent' = spent
    BY <1>10 DEF Limit, LoseRedis, BucketStep, Script, Granted, GiveUp, Sleep, Wake, RedisFails
  <2>2. Holds(w)' = Holds(w)
    <3>1. CASE Granted(w)
      BY <1>1, <1>3, <1>4, <1>5, <3>1 DEF Holds, Granted
    <3>2. CASE ~Granted(w)
      <4>1. ~Holds(w)
        BY <1>1, <1>2, <3>2
        DEF Holds, Limit, LoseRedis, BucketStep, Script, GiveUp, Sleep, Wake, RedisFails
      <4>2. k.at # "granted"
        <5>1. SUFFICES ASSUME k.at = "granted" PROVE FALSE OBVIOUS
        <5>2. Holds(w) BY <1>3, <1>5, <5>1 DEF Holds
        <5>3. QED BY <4>1, <5>2
      <4>3. ~(k.at = "answered" /\ k.wait = 0) BY <1>3, <1>10
      <4>4. ~Holds(w)' BY <1>4, <4>2, <4>3 DEF Holds
      <4>5. QED BY <4>1, <4>4 DEF Holds
    <3>3. QED BY <3>1, <3>2
  <2>3. QED BY <1>1, <1>6, <1>7, <2>1, <2>2, OthersKeep DEF KeepsHeld
<1>11. QED BY <1>9, <1>10

LEMMA PaceStep ==
  ASSUME Pulls, BucketTypeOK, Together, [Next]_vars
  PROVE  Together' /\ (KeepsHeld \/ TakesToken \/ UsesToken)
<1>1. scene' = scene /\ (OthersAsk' <=> OthersAsk) BY SceneStays DEF OthersAsk
<1>2. spent \in Nat BY DEF BucketTypeOK
<1>3. ASSUME UNCHANGED <<work, call, requests, spent>> PROVE Together' /\ KeepsHeld
  <2>1. Held' = Held BY <1>3 DEF Held, Holds
  <2>2. Together' BY <1>1, <1>3 DEF Together, Paired, Busy
  <2>3. QED BY <1>2, <1>3, <2>1, <2>2 DEF KeepsHeld
<1>4. CASE UNCHANGED vars BY <1>3, <1>4 DEF vars, pullVars, bucketVars
<1>5. CASE Next /\ OthersAsk
  <2>1. work' = work /\ requests' = requests /\ spent' >= spent BY <1>5, OthersStep
  <2>2. \A w \in Worker : work[w].at = "idle" BY <1>5 DEF Together, Busy
  <2>3. Held = {} /\ Held' = {} BY <2>1, <2>2 DEF Held, Holds
  <2>4. Together' BY <1>1, <1>5, <2>1, <2>2 DEF Together, Busy
  <2>5. QED BY <2>1, <2>3, <2>4 DEF KeepsHeld
<1>6. CASE Next /\ ~OthersAsk
  <2>1. \A v \in Worker : Paired(v) BY <1>6 DEF Together
  <2>2. (\A v \in Worker : Paired(v)') => Together' BY <1>1, <1>6 DEF Together
  <2>3. CASE \/ Submit \/ Refused \/ Created \/ Test \/ ListPage \/ ListFails \/ ZoneAdded
             \/ \E a \in Account : LinkAccount(a)
    <3>1. UNCHANGED <<work, call, requests, spent>>
      BY <2>3 DEF Submit, Refused, Created, Test, ListPage, ListFails, ZoneAdded, LinkAccount,
                  bucketVars
    <3>2. QED BY <1>3, <3>1
  <2>4. ASSUME NEW w \in Worker, Ends(w)
        PROVE  (\A v \in Worker : Paired(v)') /\ (KeepsHeld \/ UsesToken)
    <3>1. CASE (\E a \in Account : PullAccount(w, a)) \/ Request(w) \/ LimiterFails(w)
      BY <2>1, <3>1, AcquirePaced
    <3>2. CASE \/ ReadCredentials(w) \/ UnknownKey(w) \/ ListAccounts(w) \/ NoAccounts(w)
               \/ BadShape(w) \/ Rows(w) \/ NoRows(w) \/ Store(w) \/ OutsideTenant(w)
               \/ Activate(w) \/ FinishSuccess(w) \/ AddRefreshes(w) \/ FinishFailed(w)
               \/ StopConnector(w) \/ Throw(w)
      BY <2>1, <3>2, HandlerPaced
    <3>3. QED BY <2>4, <3>1, <3>2 DEF Ends
  <2>5. ASSUME NEW w \in Worker,
               \/ \E j \in Jobs : Deliver(w, j)
               \/ SourceFails(w) \/ StatementFails(w)
        PROVE  (\A v \in Worker : Paired(v)') /\ KeepsHeld
    BY <2>1, <2>5, HandlerPaced
  <2>6. ASSUME NEW w \in Worker, Acquire(w) \/ Return(w) PROVE FALSE
    BY <1>6, <2>6 DEF Acquire, Return, OthersAsk
  <2>7. ASSUME NEW w \in Worker, Limit(w) \/ LoseRedis(w)
        PROVE  (\A v \in Worker : Paired(v)') /\ (KeepsHeld \/ TakesToken)
    BY <2>1, <2>7, LimiterPaced
  <2>8. CASE Time
    <3>1. Tick /\ UNCHANGED pullVars BY <1>6, <2>8 DEF Time
    <3>2. UNCHANGED <<work, call, requests, spent>> BY <3>1 DEF Tick, pullVars
    <3>3. QED BY <1>3, <3>2
  <2>9. QED BY <1>6, <2>2, <2>3, <2>4, <2>5, <2>6, <2>7, <2>8 DEF Next
<1>7. QED BY <1>4, <1>5, <1>6

\* The invariant of the pace.
Pacing == Pulls /\ BucketTypeOK /\ Together /\ Metered /\ Counted

LEMMA PacingInit == Init => Pacing
<1> SUFFICES ASSUME Init PROVE Pacing OBVIOUS
<1>1. Pulls /\ BucketInit /\ BucketTypeOK BY PullsInit, TypesInit DEF Init
<1>2. \A w \in Worker : work[w].at = "idle" /\ call[w].at = "none"
  BY DEF Init, BucketInit, NoWork, NoCall
<1>3. Together BY <1>2 DEF Together, Paired, Busy
<1>4. Held = {} BY <1>2 DEF Held, Holds
<1>5. Counted
  <2>1. requests = 0 /\ spent = 0 /\ Second \in Nat BY BucketAssumption DEF Init, BucketInit
  <2>2. Cardinality(Held) = 0 BY <1>4, FS_EmptySet
  <2>3. QED BY <2>1, <2>2 DEF Counted
<1>6. Metered
  <2>1. M!Init BY <1>1, MeterInit
  <2>2. Level = Full /\ spent = 0 /\ clock = 0 BY <2>1 DEF M!Init
  <2>3. Refill * clock = 0 BY <2>2, FullNat
  <2>4. QED BY <2>2, <2>3, FullNat DEF Metered
<1>7. QED BY <1>1, <1>3, <1>5, <1>6 DEF Pacing

LEMMA PacingStep == Pacing /\ [Next]_vars => Pacing'
<1> SUFFICES ASSUME Pacing, [Next]_vars PROVE Pacing' OBVIOUS
<1>1. Pulls /\ BucketTypeOK /\ Together /\ Metered /\ Counted BY DEF Pacing
<1>2. [BucketNext]_bucketVars BY <1>1, BucketMoves DEF Pulls, PullTypes
<1>3. Pulls' /\ BucketTypeOK' BY <1>1, <1>2, PullsStep, TypesNext
<1>4. Together' /\ (KeepsHeld \/ TakesToken \/ UsesToken) BY <1>1, PaceStep
<1>5. Counted' BY <1>1, <1>3, <1>4, CountedStep
<1>6. Metered' BY <1>1, <1>2, <1>3, MeteredStep
<1>7. QED BY <1>3, <1>4, <1>5, <1>6 DEF Pacing

\* However many workers pull and whatever fails, no more reports are asked of the
\* source than a full bucket and the time gone by allow (pull.ts 42-51, ga4.ts 97).
THEOREM PullsArePaced == Spec => []Paced
<1>1. ASSUME Pacing PROVE Paced
  <2>1. BucketTypeOK /\ Metered /\ Counted BY <1>1 DEF Pacing
  <2>2. PICK n \in Nat, k \in Nat, s \in Nat :
          n = requests /\ k = Cardinality(Held) /\ s = spent
    BY <2>1, HeldFinite DEF Counted, BucketTypeOK
  <2>3. (n + k) * Second <= s BY <2>1, <2>2 DEF Counted
  <2>4. Second \in Nat BY BucketAssumption
  <2>5. PICK m \in Nat : m = n + k /\ n <= m BY <2>2
  <2>6. n * Second <= m * Second BY <2>4, <2>5, ProductGrows
  <2>7. n * Second \in Nat /\ m * Second \in Nat BY <2>4, ProductNat
  <2>8. Level \in 0..Full BY <2>1, TypesSane, LevelType
  <2>9. Refill * clock \in Nat BY <2>1, FullNat, ProductNat DEF BucketTypeOK
  <2>10. s <= Full + (Refill * clock) BY <2>1, <2>2, <2>8, <2>9, FullNat DEF Metered
  <2>11. m * Second <= s BY <2>3, <2>5
  <2>12. n * Second <= Full + (Refill * clock) BY <2>6, <2>7, <2>9, <2>10, <2>11, FullNat
  <2>13. QED BY <2>2, <2>12 DEF Paced
<1>2. QED BY <1>1, PacingInit, PacingStep, PTL DEF Spec

(***************************************************************************)
(* The calendar, at the moment a behaviour of the pulls looks at.          *)
(***************************************************************************)
\* A record's bucket contains it, both services name the same one, and an entry is
\* taken for a week or a month exactly if it is one, at any moment
\* (rollup-debounce.ts 3-47, entries.ts 168-231, period.ts 66-71).
THEOREM BucketsAgree == Spec => []BucketsHold
<1>1. ASSUME SceneOK PROVE BucketsHold
  <2>1. PICK t \in Int : t = scene.now BY <1>1, SceneIs
  <2>2. ASSUME NEW g \in RollupGranularity
        PROVE  LET start == BucketStart(scene.now, g)
                   end   == BucketEnd(start, g)
               IN  /\ IsPeriod(start, end, g) /\ start <= scene.now /\ scene.now < end
                   /\ EntryBucketStart(scene.now, g) = start
                   /\ EntryBucketEnd(start, g) = end
    BY <2>1, BucketsContain
  <2>3. ASSUME NEW days \in {6, 7, 8, 28, 29, 30, 31}, NEW g \in {"week", "month"}
        PROVE  LET start == Midnight(scene.now)
                   end   == start + 24 * days
               IN  InferGranularity(start, end) = g <=>
                     start = BucketStart(start, g) /\ end = BucketEnd(start, g)
    <3>1. PICK b \in Int : b = Day(t) BY DayAndHours
    <3>2. PICK n \in Int : n = days OBVIOUS
    <3>3. Midnight(t) = 24 * b BY <3>1 DEF Midnight, SetHours
    <3>4. PICK start \in Int : start = 24 * b OBVIOUS
    <3>5. PICK end \in Int : end = start + (24 * n) OBVIOUS
    <3>6. InferGranularity(start, end) = g
            <=> start = BucketStart(start, g) /\ end = BucketEnd(start, g)
      BY <3>4, <3>5, InferredIsBucket
    <3>7. Midnight(scene.now) = start /\ end = start + 24 * days
      BY <2>1, <3>2, <3>3, <3>4, <3>5
    <3>8. QED BY <3>6, <3>7
  <2>4. QED BY <2>2, <2>3 DEF BucketsHold
<1>2. QED BY <1>1, Scenery, PTL

\* The board compares each period with an earlier one of much the same length, on
\* any day (metrics.ts 107-139).
THEOREM BoardComparesAlike == Spec => []BoardWindowsMatch
<1>1. ASSUME SceneOK PROVE BoardWindowsMatch
  <2>1. scene.now \in Int BY <1>1, SceneIs
  <2>2. QED BY <2>1, BoardCompares DEF BoardWindowsMatch
<1>2. QED BY <1>1, Scenery, PTL

\* The chunks of a backfill ask for every day once (backfill.ts 159-172, ga4.ts
\* 215-235, cloudflare-analytics.ts 214-227).
THEOREM DaysAskedOnce == Spec => []EachDayOnce
<1>1. ASSUME SceneOK PROVE EachDayOnce
  <2>1. PICK t \in Int, source \in Source : t = scene.now /\ source = scene.source
    BY <1>1, SceneIs
  <2>2. ASSUME NEW hours \in {1, 5, 24, 30, 48, 151}, NEW size \in {1, 2, 7}
        PROVE  LET start    == scene.now
                   end      == start + hours
                   cut      == Chunks(start, end, size)
                   asked(i) == AskedDays(scene.source, cut[i].start, cut[i].end)
                   all      == UNION {asked(i) : i \in DOMAIN cut}
               IN  /\ \A i, j \in DOMAIN cut : i # j => asked(i) \cap asked(j) = {}
                   /\ WholeDays(start, end) \subseteq all
                   /\ all \subseteq TouchedDays(start, end)
    <3>1. PICK end \in Int : end = t + hours OBVIOUS
    <3>2. t < end /\ size \in Nat \ {0} BY <3>1
    <3>3. AskedOnce(source, t, end, size) BY <3>2, AskedOnceHolds
    <3>4. AskedOnce(scene.source, scene.now, scene.now + hours, size) BY <2>1, <3>1, <3>3
    <3>5. QED BY <3>4, Zenon DEF AskedOnce
  <2>3. QED BY <2>2 DEF EachDayOnce
<1>2. QED BY <1>1, Scenery, PTL
=============================================================================
