----------------------- MODULE AdaptiveBitrateProofs -----------------------
(***************************************************************************)
(* For every floor, setting, redundancy and loss report: the bitrate that  *)
(* the controller keeps and the one it asks the encoder for stay within    *)
(* their bounds, and the packets carry the redundancy decided on. And what *)
(* controller and users are told of a session, losses, send times and the  *)
(* lines of the session log, is what happened in it.                       *)
(*                                                                         *)
(* The argument follows the code: Sound(s) is what an AdaptiveState keeps  *)
(* between any two calls, one lemma per operation shows that it keeps it,  *)
(* and the handlers are compositions of the operations.                    *)
(***************************************************************************)
EXTENDS AdaptiveBitrate, Figures, FiniteSetTheorems, SequenceTheorems, WellFoundedInduction, TLAPS

Adaptive ==
  [current : Nat, setting : Settings, ceiling : Nat \cup {None}, settled : BOOLEAN,
   pending : LossReports \cup {None}, loss : 0..100 \cup {None},
   pattern : {"None", "Burst", "Sustained"},
   fec : MinFec..MaxFec, boost : BOOLEAN, sent : MinFec..MaxFec,
   asleep : BOOLEAN, tells : Nat]

Governor == [multiplier : 50..100, ramp : {0} \cup 50..99]

Encoder ==
  {e \in [rate : Nat \ {0}, pending : Nat, told : Nat \ {0}] : e.pending \in {0, e.told}}

InBounds(s) ==
  /\ MinRate <= s.current /\ s.current <= s.setting
  /\ s.ceiling # None => s.current <= Larger(MinRate, s.ceiling)

Sound(s) ==
  /\ s \in Adaptive
  /\ InBounds(s)
  /\ s.sent = Effective(s)
  /\ s.tells <= Larger(s.setting, SleepRate)

AdaptiveInv ==
  /\ Sound(ab) /\ ab.tells = 0
  /\ governor \in Governor /\ encoder \in Encoder /\ calm \in BOOLEAN
  /\ NeverAboveSetting

-----------------------------------------------------------------------------
(* The bitrate.                                                            *)

\* The clamp keeps any rate between the floor and the setting, and under the
\* ceiling if the floor allows.
LEMMA ClampBounds ==
  ASSUME NEW s \in Adaptive, NEW rate \in Nat
  PROVE  /\ Clamp(s, rate) \in Nat
         /\ InBounds([s EXCEPT !.current = Clamp(s, rate)])
PROOF
<1>1. s.setting \in Nat /\ MinRate <= s.setting /\ MinRate \in Nat
  BY RateAssumption DEF Adaptive
<1>2. CASE s.ceiling = None
  BY <1>1, <1>2 DEF Clamp, InBounds, Larger, Smaller, Adaptive, None
<1>3. CASE s.ceiling # None
  BY <1>1, <1>3 DEF Clamp, InBounds, Larger, Smaller, Adaptive, None
<1> QED BY <1>2, <1>3

\* A bitrate within its bounds is left alone by the clamp.
LEMMA ClampKeeps ==
  ASSUME NEW s \in Adaptive, InBounds(s)
  PROVE  Clamp(s, s.current) = s.current
PROOF
<1>1. s.setting \in Nat /\ MinRate \in Nat /\ s.current \in Nat /\ s.ceiling \in Nat \cup {None}
  BY RateAssumption DEF Adaptive
<1> QED BY <1>1 DEF Clamp, InBounds, Larger, Smaller, None

\* Every arm of arbitrate() multiplies by one of five factors.
LEMMA MultiplierValues ==
  ASSUME NEW s \in Adaptive, s.loss # None, NEW overuse \in BOOLEAN
  PROVE  Multiplier(s, overuse) \in {80, 90, 95, 100, 105}
PROOF
<1>1. s.loss \in 0..100 /\ s.pattern \in {"None", "Burst", "Sustained"}
  BY DEF Adaptive
<1>2. CASE s.pattern = "Burst"
  BY <1>2 DEF Multiplier
<1>3. CASE s.pattern = "Sustained"
  BY <1>3 DEF Multiplier
<1>4. CASE s.pattern = "None" /\ s.loss > 5
  BY <1>1, <1>4 DEF Multiplier
<1>5. CASE s.pattern = "None" /\ s.loss <= 5 /\ overuse
  BY <1>1, <1>5 DEF Multiplier
<1>6. CASE s.pattern = "None" /\ s.loss \in 3..5 /\ ~overuse
  BY <1>1, <1>6 DEF Multiplier
<1>7. CASE s.pattern = "None" /\ s.loss <= 2 /\ ~overuse
  BY <1>1, <1>7 DEF Multiplier
<1> QED BY <1>1, <1>2, <1>3, <1>4, <1>5, <1>6, <1>7

\* The rate a factor leads to is a rate.
LEMMA ScaledIsNat ==
  ASSUME NEW rate \in Nat, NEW factor \in {80, 90, 95, 100, 105}
  PROVE  (rate * factor) \div 100 \in Nat
PROOF
<1>1. CASE factor = 80 BY <1>1
<1>2. CASE factor = 90 BY <1>2
<1>3. CASE factor = 95 BY <1>3
<1>4. CASE factor = 100 BY <1>4
<1>5. CASE factor = 105 BY <1>5
<1> QED BY <1>1, <1>2, <1>3, <1>4, <1>5

\* An adjustment keeps the state sound and touches nothing but the bitrate.
LEMMA AdjustSound ==
  ASSUME NEW s, Sound(s), s.loss # None, NEW overuse \in BOOLEAN
  PROVE  /\ Sound(Adjust(s, overuse))
         /\ Adjust(s, overuse).loss = s.loss
         /\ Adjust(s, overuse).pattern = s.pattern
         /\ Adjust(s, overuse).current = Clamp(s, (s.current * Multiplier(s, overuse)) \div 100)
PROOF
<1> DEFINE rate == (s.current * Multiplier(s, overuse)) \div 100
<1> DEFINE t == Clamp(s, rate)
<1>0. s \in Adaptive /\ s.current \in Nat
  BY DEF Sound, Adaptive
<1>1. rate \in Nat
  BY <1>0, MultiplierValues, ScaledIsNat
<1>2. t \in Nat /\ InBounds([s EXCEPT !.current = t])
  BY <1>0, <1>1, ClampBounds
<1>3. CASE t = s.current
  BY <1>3 DEF Adjust
<1>4. CASE t # s.current
  <2> DEFINE u == [s EXCEPT !.current = t, !.settled = FALSE, !.tells = t]
  <2>1. Adjust(s, overuse) = u
    BY <1>0, <1>4 DEF Adjust, Tell, Adaptive
  <2>2. u \in Adaptive /\ u.current = t /\ u.loss = s.loss /\ u.pattern = s.pattern
         /\ u.tells = t /\ u.setting = s.setting /\ u.ceiling = s.ceiling
         /\ u.fec = s.fec /\ u.boost = s.boost /\ u.sent = s.sent
    BY <1>0, <1>2, ZenonT(60) DEF Adaptive
  <2> HIDE DEF u
  <2>3. MinRate <= t /\ t <= s.setting /\ (s.ceiling # None => t <= Larger(MinRate, s.ceiling))
    BY <1>0, <1>2 DEF InBounds, Adaptive
  <2>4. InBounds(u)
    BY <2>2, <2>3 DEF InBounds
  <2>5. u.tells <= Larger(u.setting, SleepRate)
    BY <2>2, <2>3, <1>2, RateAssumption DEF Larger, Adaptive
  <2>6. u.sent = Effective(u)
    BY <2>2 DEF Sound, Effective
  <2> QED BY <2>1, <2>2, <2>4, <2>5, <2>6 DEF Sound
<1> QED BY <1>3, <1>4

\* A new setting is where the stream goes, as far as floor and ceiling allow.
LEMMA ChooseSound ==
  ASSUME NEW s, Sound(s), NEW rate \in Settings
  PROVE  /\ Sound(Tell(ChooseSetting(s, rate)))
         /\ Tell(ChooseSetting(s, rate)).tells \in Nat \ {0}
         /\ Tell(ChooseSetting(s, rate)).setting = rate
PROOF
<1> DEFINE chosen == [s EXCEPT !.setting = rate]
<1> DEFINE t == Clamp(chosen, rate)
<1> DEFINE u == [s EXCEPT !.setting = rate, !.current = t, !.settled = FALSE, !.tells = t]
<1>0. s \in Adaptive
  BY DEF Sound
<1>1. chosen \in Adaptive /\ chosen.setting = rate /\ chosen.ceiling = s.ceiling
  BY <1>0 DEF Adaptive
<1>2. rate \in Nat
  BY RateAssumption
<1>3. t \in Nat /\ InBounds([chosen EXCEPT !.current = t])
  BY <1>1, <1>2, ClampBounds
<1>4. MinRate <= t /\ t <= rate /\ (s.ceiling # None => t <= Larger(MinRate, s.ceiling))
  BY <1>0, <1>3 DEF InBounds, Adaptive
<1>5. Tell(ChooseSetting(s, rate)) = u
  BY <1>0 DEF Tell, ChooseSetting, Adaptive
<1>6. u \in Adaptive /\ u.current = t /\ u.tells = t /\ u.setting = rate
       /\ u.ceiling = s.ceiling /\ u.fec = s.fec /\ u.boost = s.boost /\ u.sent = s.sent
  BY <1>0, <1>3 DEF Adaptive
<1> HIDE DEF u, t
<1>7. InBounds(u)
  BY <1>6, <1>4 DEF InBounds
<1>8. u.tells <= Larger(u.setting, SleepRate) /\ u.tells \in Nat \ {0}
  BY <1>6, <1>4, <1>3, <1>2, RateAssumption DEF Larger
<1>9. u.sent = Effective(u)
  BY <1>6 DEF Sound, Effective
<1> QED BY <1>5, <1>6, <1>7, <1>8, <1>9 DEF Sound

\* A thermal ceiling takes effect on the controller's bitrate at once; it does
\* not raise it, and asks the encoder for nothing.
LEMMA CeilingSound ==
  ASSUME NEW s, Sound(s), NEW multiplier \in 50..100
  PROVE  /\ Sound(SetCeiling(s, multiplier))
         /\ SetCeiling(s, multiplier).tells = s.tells
         /\ SetCeiling(s, multiplier).setting = s.setting
         /\ SetCeiling(s, multiplier).pattern = s.pattern
         /\ SetCeiling(s, multiplier).sent = s.sent
         /\ SetCeiling(s, multiplier).current = Clamp(SetCeiling(s, multiplier), s.current)
PROOF
<1> DEFINE cap == (s.setting * multiplier) \div 100
<1> DEFINE capped == [s EXCEPT !.ceiling = cap]
<1> DEFINE t == Clamp(capped, s.current)
<1> DEFINE u == [s EXCEPT !.ceiling = cap, !.current = t]
<1>0. s \in Adaptive /\ s.setting \in Nat /\ s.current \in Nat
  BY RateAssumption DEF Sound, Adaptive
<1>1. s.setting * multiplier \in Nat
  BY <1>0
<1>2. cap \in Nat
  BY <1>1
<1>3. capped \in Adaptive /\ capped.setting = s.setting /\ capped.ceiling = cap
  BY <1>0, <1>2 DEF Adaptive
<1>4. t \in Nat /\ InBounds([capped EXCEPT !.current = t])
  BY <1>0, <1>3, ClampBounds
<1>5. MinRate <= t /\ t <= s.setting /\ (cap # None => t <= Larger(MinRate, cap))
  BY <1>0, <1>3, <1>4 DEF InBounds, Adaptive
<1>6. SetCeiling(s, multiplier) = u
  BY <1>0 DEF SetCeiling, Adaptive
<1>8. t = Clamp(u, s.current)
  BY <1>0, <1>3 DEF Clamp, Adaptive
<1> HIDE DEF t, capped, cap
<1>7. u \in Adaptive /\ u.current = t /\ u.tells = s.tells /\ u.setting = s.setting
       /\ u.ceiling = cap /\ u.fec = s.fec /\ u.boost = s.boost /\ u.sent = s.sent
       /\ u.pattern = s.pattern
  BY <1>0, <1>2, <1>4 DEF Adaptive
<1> HIDE DEF u
<1>9. InBounds(u)
  BY <1>5, <1>7 DEF InBounds
<1>10. u.sent = Effective(u) /\ u.tells <= Larger(u.setting, SleepRate)
  BY <1>7 DEF Sound, Effective
<1> QED BY <1>6, <1>7, <1>8, <1>9, <1>10 DEF Sound

-----------------------------------------------------------------------------
(* The redundancy.                                                         *)

\* What changes neither the bitrate nor the redundancy keeps a state sound.
LEMMA AverageSound ==
  ASSUME NEW s, Sound(s), NEW loss \in LossReports
  PROVE  LET a == [Average(s, loss) EXCEPT !.pending = None]
         IN Sound(a) /\ a.loss # None /\ a.tells = s.tells /\ a.current = s.current
            /\ a.setting = s.setting /\ a.pattern = s.pattern
PROOF
<1> DEFINE l == IF s.loss = None THEN loss ELSE (3 * loss + 7 * s.loss) \div 10
<1> DEFINE a == [s EXCEPT !.loss = l, !.pending = None]
<1>0. s \in Adaptive /\ loss \in 0..100 /\ s.loss \in 0..100 \cup {None}
  BY ReportAssumption DEF Sound, Adaptive
<1>1. l \in 0..100
  <2>1. CASE s.loss = None BY <1>0, <2>1
  <2>2. CASE s.loss # None
    <3> DEFINE sum == 3 * loss + 7 * s.loss
    <3>1. sum \in 0..1000 BY <1>0, <2>2, SMTT(60)
    <3> HIDE DEF sum
    <3>2. sum \div 10 \in 0..100 BY <3>1
    <3> QED BY <3>2, <2>2 DEF sum
  <2> QED BY <2>1, <2>2
<1>2. [Average(s, loss) EXCEPT !.pending = None] = a
  BY <1>0 DEF Average, Adaptive
<1>3. a \in Adaptive /\ a.loss = l /\ a.tells = s.tells /\ a.current = s.current
       /\ a.setting = s.setting /\ a.pattern = s.pattern /\ a.ceiling = s.ceiling
       /\ a.fec = s.fec /\ a.boost = s.boost /\ a.sent = s.sent
  BY <1>0, <1>1 DEF Adaptive
<1> HIDE DEF a, l
<1>4. Sound(a)
  BY <1>3 DEF Sound, InBounds, Effective
<1>5. a.loss # None
  BY <1>1, <1>3 DEF None
<1> QED BY <1>2, <1>3, <1>4, <1>5

\* A verdict of the burst detector keeps a state sound.
LEMMA RecordSound ==
  ASSUME NEW s, Sound(s), NEW loss \in LossReports, NEW long \in BOOLEAN
  PROVE  LET r == Record(s, loss, long)
         IN Sound(r) /\ r.loss = s.loss /\ r.tells = s.tells /\ r.current = s.current
            /\ r.setting = s.setting /\ r.ceiling = s.ceiling
PROOF
<1> DEFINE verdict == CASE loss < 5 -> "None"
                        [] loss >= 5 /\ s.pattern = "None" -> "Burst"
                        [] loss >= 5 /\ s.pattern # "None" -> IF long THEN "Sustained" ELSE s.pattern
<1> DEFINE r == [s EXCEPT !.pattern = verdict]
<1>0. s \in Adaptive /\ loss \in 0..100 /\ s.pattern \in {"None", "Burst", "Sustained"}
  BY ReportAssumption DEF Sound, Adaptive
<1>1. verdict \in {"None", "Burst", "Sustained"}
  <2>1. CASE loss < 5 BY <1>0, <2>1
  <2>2. CASE loss >= 5 /\ s.pattern = "None" BY <1>0, <2>2
  <2>3. CASE loss >= 5 /\ s.pattern # "None" BY <1>0, <2>3
  <2> QED BY <1>0, <2>1, <2>2, <2>3
<1>2. Record(s, loss, long) = r
  BY DEF Record
<1> HIDE DEF verdict
<1>3. r \in Adaptive /\ r.loss = s.loss /\ r.tells = s.tells /\ r.current = s.current
       /\ r.setting = s.setting /\ r.ceiling = s.ceiling
       /\ r.fec = s.fec /\ r.boost = s.boost /\ r.sent = s.sent
  BY <1>0, <1>1 DEF Adaptive
<1> HIDE DEF r
<1>4. Sound(r)
  BY <1>3 DEF Sound, InBounds, Effective
<1> QED BY <1>2, <1>3, <1>4

\* The configured redundancies, as numbers.
LEMMA FecBounds ==
  /\ MinFec \in Nat /\ MaxFec \in Nat /\ ConfiguredFec \in Nat
  /\ MinFec <= MaxFec /\ ConfiguredFec \in MinFec..MaxFec
PROOF
<1>1. MinFec \in 0..100 /\ MaxFec \in 0..100 /\ ConfiguredFec \in 0..100
  BY FecAssumption
<1>2. MinFec <= ConfiguredFec /\ ConfiguredFec <= MaxFec
  BY FecAssumption
<1> QED BY <1>1, <1>2

\* The target lies within the configured bounds.
LEMMA TargetWithin ==
  ASSUME NEW loss \in 0..100
  PROVE  FecTarget(loss) \in MinFec..MaxFec
PROOF
<1> DEFINE aim == CASE loss < 1 -> 5 [] loss \in 1..2 -> 15
                    [] loss \in 3..4 -> 25 [] loss >= 5 -> 40
<1>1. aim \in Nat
  <2>1. CASE loss < 1 BY <2>1
  <2>2. CASE loss \in 1..2 BY <2>2
  <2>3. CASE loss \in 3..4 BY <2>3
  <2>4. CASE loss >= 5 BY <2>4
  <2> QED BY <2>1, <2>2, <2>3, <2>4
<1>2. FecTarget(loss) = Within(aim, MinFec, MaxFec)
  BY DEF FecTarget
<1> HIDE DEF aim
<1> QED BY <1>1, <1>2, FecAssumption DEF Within, Larger, Smaller

\* A step of the controller towards its target.
LEMMA AdjustFecSound ==
  ASSUME NEW s, Sound(s), s.loss # None, NEW due \in BOOLEAN
  PROVE  LET a == AdjustFec(s, due)
         IN Sound(a) /\ a.tells = s.tells /\ a.setting = s.setting
            /\ a.current = s.current /\ a.pattern = s.pattern
PROOF
<1> DEFINE f == s.fec + Within(FecTarget(s.loss) - s.fec, -5, 5)
<1> DEFINE moved == [s EXCEPT !.fec = f]
<1> DEFINE u == [s EXCEPT !.fec = f, !.sent = Effective(moved)]
<1>0. s \in Adaptive /\ s.loss \in 0..100 /\ s.fec \in MinFec..MaxFec
       /\ MinFec \in Nat /\ MaxFec \in Nat
  BY FecAssumption DEF Sound, Adaptive
<1>1. f \in MinFec..MaxFec
  <2>1. FecTarget(s.loss) \in MinFec..MaxFec
    BY <1>0, TargetWithin
  <2> QED BY <1>0, <2>1 DEF Within, Larger, Smaller
<1> HIDE DEF f
<1>2. moved \in Adaptive /\ moved.fec = f /\ moved.boost = s.boost
  BY <1>0, <1>1 DEF Adaptive
<1>3. Effective(moved) \in MinFec..MaxFec
  BY <1>0, <1>1, <1>2 DEF Effective, Larger
<1>4. u \in Adaptive /\ u.fec = f /\ u.boost = s.boost /\ u.sent = Effective(moved)
       /\ u.tells = s.tells /\ u.setting = s.setting /\ u.current = s.current
       /\ u.ceiling = s.ceiling /\ u.pattern = s.pattern
  BY <1>0, <1>1, <1>3 DEF Adaptive
<1>5. Effective(moved) = Effective(u)
  BY <1>2, <1>4 DEF Effective
<1>6. AdjustFec(s, due) = IF due /\ f # s.fec THEN u ELSE s
  BY <1>0 DEF AdjustFec, Send, f, Adaptive
<1> HIDE DEF u, moved
<1>7. Sound(u)
  BY <1>4, <1>5 DEF Sound, InBounds
<1> QED BY <1>4, <1>6, <1>7

\* The end of a burst takes the boost back if it made a difference.
LEMMA EndBoostSound ==
  ASSUME NEW s, Sound(s)
  PROVE  LET e == EndBoost(s)
         IN Sound(e) /\ e.tells = s.tells /\ e.setting = s.setting /\ e.loss = s.loss
            /\ e.current = s.current /\ e.pattern = s.pattern
PROOF
<1> DEFINE u == [s EXCEPT !.boost = FALSE, !.sent = s.fec]
<1>0. s \in Adaptive
  BY DEF Sound
<1>1. Send([s EXCEPT !.boost = FALSE]) = u
  BY <1>0 DEF Send, Effective, Adaptive
<1>2. u \in Adaptive /\ u.fec = s.fec /\ u.boost = FALSE /\ u.sent = s.fec
       /\ u.tells = s.tells /\ u.setting = s.setting /\ u.current = s.current
       /\ u.ceiling = s.ceiling /\ u.pattern = s.pattern /\ u.loss = s.loss
  BY <1>0 DEF Adaptive
<1>3. EndBoost(s) = u \/ EndBoost(s) = s
  BY <1>1 DEF EndBoost
<1> HIDE DEF u
<1>4. Sound(u)
  BY <1>2 DEF Sound, InBounds, Effective
<1> QED BY <1>2, <1>3, <1>4

\* A boost sends the most parity.
LEMMA BoostSound ==
  ASSUME NEW s, Sound(s)
  PROVE  LET b == Boost(s)
         IN Sound(b) /\ b.tells = s.tells /\ b.setting = s.setting
            /\ b.current = s.current /\ b.pattern = s.pattern /\ b.sent = MaxFec
PROOF
<1> DEFINE u == [s EXCEPT !.boost = TRUE, !.sent = MaxFec]
<1>b. MinFec \in Nat /\ MaxFec \in Nat /\ MinFec <= MaxFec
  BY FecBounds
<1>0. s \in Adaptive /\ s.fec \in MinFec..MaxFec
  BY DEF Sound, Adaptive
<1>1. Larger(MaxFec, s.fec) = MaxFec
  BY <1>0, <1>b DEF Larger
<1>2. Boost(s) = u
  BY <1>0, <1>1 DEF Boost, Send, Effective, Adaptive
<1>c. MaxFec \in MinFec..MaxFec
  BY <1>b
<1>3. u \in Adaptive /\ u.fec = s.fec /\ u.boost = TRUE /\ u.sent = MaxFec
       /\ u.tells = s.tells /\ u.setting = s.setting /\ u.current = s.current
       /\ u.ceiling = s.ceiling /\ u.pattern = s.pattern
  BY <1>0, <1>c DEF Adaptive
<1> HIDE DEF u
<1>4. Sound(u)
  BY <1>1, <1>3 DEF Sound, InBounds, Effective
<1> QED BY <1>2, <1>3, <1>4

-----------------------------------------------------------------------------
(* The handlers.                                                           *)

\* A tick keeps the state sound and the user's setting, and when it first sees
\* a burst it leaves the bitrate and sends the most parity.
LEMMA TickSound ==
  ASSUME NEW s, Sound(s), NEW overuse \in BOOLEAN, NEW long \in BOOLEAN, NEW due \in BOOLEAN
  PROVE  LET t == Tick(s, overuse, long, due)
         IN /\ Sound(t) /\ t.setting = s.setting
            /\ s.pattern = "None" /\ t.pattern = "Burst" =>
                 t.current = s.current /\ (FecEnabled => t.sent = MaxFec)
PROOF
<1> DEFINE averaged == [Average(s, s.pending) EXCEPT !.pending = None]
<1> DEFINE judged == IF GccEnabled THEN Record(averaged, s.pending, long) ELSE averaged
<1> DEFINE adjusted == Adjust(judged, GccEnabled /\ overuse)
<1> DEFINE ended == EndBoost(adjusted)
<1> DEFINE t == Tick(s, overuse, long, due)
<1>0. s.pending \in LossReports \cup {None} /\ s \in Adaptive
  BY DEF Sound, Adaptive
<1>1. CASE s.pending = None
  BY <1>1 DEF Tick
<1>2. CASE s.pending # None
  <2>1. s.pending \in LossReports
    BY <1>0, <1>2
  <2>2. Sound(averaged) /\ averaged.loss # None /\ averaged.current = s.current
         /\ averaged.setting = s.setting /\ averaged.pattern = s.pattern
    BY <2>1, AverageSound
  <2> HIDE DEF averaged
  <2>3. Sound(judged) /\ judged.loss # None /\ judged.current = s.current
         /\ judged.setting = s.setting
    BY <2>1, <2>2, RecordSound
  <2> HIDE DEF judged
  <2>4. (GccEnabled /\ overuse) \in BOOLEAN
    BY ReportAssumption
  <2>5. Sound(adjusted) /\ adjusted.loss # None /\ adjusted.pattern = judged.pattern
         /\ adjusted.current = Clamp(judged, (judged.current * Multiplier(judged, GccEnabled /\ overuse)) \div 100)
    BY <2>3, <2>4, AdjustSound
  <2>6. adjusted.setting = s.setting
    BY <2>3 DEF Adjust, Tell, adjusted, Sound, Adaptive
  <2>7. judged.pattern = "Burst" => adjusted.current = s.current
    <3>1. SUFFICES ASSUME judged.pattern = "Burst" PROVE adjusted.current = s.current
      OBVIOUS
    <3>2. Multiplier(judged, GccEnabled /\ overuse) = 100
      BY <3>1 DEF Multiplier
    <3>3. judged \in Adaptive /\ InBounds(judged) /\ judged.current \in Nat
      BY <2>3 DEF Sound, Adaptive
    <3>4. (judged.current * 100) \div 100 = judged.current
      BY <3>3
    <3> QED BY <2>3, <2>5, <3>2, <3>3, <3>4, ClampKeeps
  <2> HIDE DEF adjusted
  <2>8. t = IF ~FecEnabled THEN adjusted
            ELSE IF adjusted.pattern = "Burst" THEN Boost(adjusted)
            ELSE AdjustFec(ended, due)
    BY <1>2 DEF Tick, averaged, judged, adjusted
  <2> HIDE DEF t
  <2>9. CASE ~FecEnabled
    BY <2>5, <2>6, <2>7, <2>8, <2>9 DEF t
  <2>10. CASE FecEnabled /\ adjusted.pattern = "Burst"
    BY <2>5, <2>6, <2>7, <2>8, <2>10, BoostSound DEF t
  <2>11. CASE FecEnabled /\ adjusted.pattern # "Burst"
    <3>1. Sound(ended) /\ ended.loss # None /\ ended.setting = s.setting
           /\ ended.pattern = adjusted.pattern
      BY <2>5, <2>6, EndBoostSound
    <3> HIDE DEF ended
    <3>2. Sound(t) /\ t.setting = s.setting /\ t.pattern = adjusted.pattern
      BY <2>8, <2>11, <3>1, AdjustFecSound
    <3> QED BY <2>11, <3>2 DEF t
  <2> QED BY <2>9, <2>10, <2>11, ReportAssumption
<1> QED BY <1>1, <1>2

\* Falling asleep and waking up ask the encoder for a bitrate within bounds and
\* touch nothing that the controller decides on.
LEMMA SleepSound ==
  ASSUME NEW s, Sound(s), NEW c \in CheckSleep(s)
  PROVE  /\ Sound(c)
         /\ c.current = s.current /\ c.setting = s.setting /\ c.ceiling = s.ceiling
         /\ c.pattern = s.pattern /\ c.sent = s.sent
PROOF
<1> DEFINE woken == [s EXCEPT !.asleep = FALSE, !.tells = s.setting]
<1> DEFINE slept == [s EXCEPT !.asleep = TRUE, !.tells = SleepRate]
<1>0. s \in Adaptive /\ s.setting \in Nat /\ SleepRate \in Nat
  BY RateAssumption DEF Sound, Adaptive
<1>1. c \in {s, woken, slept}
  <2>1. SUFFICES ASSUME NEW asleep \in Transitions(s),
                        c = [s EXCEPT !.asleep = asleep, !.tells = IF asleep THEN SleepRate ELSE s.setting]
                 PROVE  c \in {woken, slept}
    BY DEF CheckSleep
  <2>2. asleep \in BOOLEAN
    BY DEF Transitions
  <2>3. CASE asleep = TRUE
    BY <2>1, <2>3
  <2>4. CASE asleep = FALSE
    BY <2>1, <2>4
  <2> QED
    BY <2>2, <2>3, <2>4
<1>2. woken \in Adaptive /\ woken.tells = s.setting /\ woken.setting = s.setting
       /\ woken.current = s.current /\ woken.ceiling = s.ceiling /\ woken.pattern = s.pattern
       /\ woken.fec = s.fec /\ woken.boost = s.boost /\ woken.sent = s.sent
  BY <1>0 DEF Adaptive
<1>3. slept \in Adaptive /\ slept.tells = SleepRate /\ slept.setting = s.setting
       /\ slept.current = s.current /\ slept.ceiling = s.ceiling /\ slept.pattern = s.pattern
       /\ slept.fec = s.fec /\ slept.boost = s.boost /\ slept.sent = s.sent
  BY <1>0 DEF Adaptive
<1> HIDE DEF woken, slept
<1>4. Sound(woken)
  <2>1. woken.tells <= Larger(woken.setting, SleepRate)
    BY <1>0, <1>2 DEF Larger
  <2> QED BY <1>2, <2>1 DEF Sound, InBounds, Effective
<1>5. Sound(slept)
  <2>1. slept.tells <= Larger(slept.setting, SleepRate)
    BY <1>0, <1>3 DEF Larger
  <2> QED BY <1>3, <2>1 DEF Sound, InBounds, Effective
<1> QED BY <1>1, <1>2, <1>3, <1>4, <1>5

\* A handler that ends in a sound state leaves the encoder asked for no more
\* than the setting, if it kept the setting or tells a bitrate.
LEMMA ReturnsInv ==
  ASSUME AdaptiveInv, NEW s, Sound(s), Becomes(s),
         s.setting = ab.setting \/ s.tells # 0
  PROVE  /\ Sound(ab') /\ ab'.tells = 0 /\ encoder' \in Encoder /\ NeverAboveSetting'
         /\ ab'.current = s.current /\ ab'.setting = s.setting /\ ab'.ceiling = s.ceiling
         /\ ab'.pattern = s.pattern /\ ab'.sent = s.sent
PROOF
<1>0. s \in Adaptive /\ encoder \in Encoder /\ s.tells \in Nat
  BY DEF AdaptiveInv, Sound, Adaptive
<1>1. ab' = [s EXCEPT !.tells = 0]
  BY DEF Becomes
<1>2. ab' \in Adaptive /\ ab'.tells = 0 /\ ab'.current = s.current /\ ab'.setting = s.setting
       /\ ab'.ceiling = s.ceiling /\ ab'.pattern = s.pattern /\ ab'.sent = s.sent
       /\ ab'.fec = s.fec /\ ab'.boost = s.boost
  BY <1>0, <1>1 DEF Adaptive
<1>3. s.setting \in Nat /\ SleepRate \in Nat
  BY <1>0, RateAssumption DEF Adaptive
<1>4. Sound(ab')
  BY <1>2, <1>3 DEF Sound, InBounds, Effective, Larger
<1>5. encoder' = IF s.tells = 0 THEN encoder ELSE [encoder EXCEPT !.pending = s.tells, !.told = s.tells]
  BY DEF Becomes
<1>6. encoder' \in Encoder
  BY <1>0, <1>5 DEF Encoder
<1>7. NeverAboveSetting'
  <2>1. CASE s.tells = 0
    BY <1>2, <1>5, <2>1 DEF NeverAboveSetting, AdaptiveInv
  <2>2. CASE s.tells # 0
    <3>1. encoder'.told = s.tells
      BY <1>0, <1>5, <2>2 DEF Encoder
    <3> QED BY <1>2, <2>2, <3>1 DEF NeverAboveSetting, Sound
  <2> QED BY <2>1, <2>2
<1> QED BY <1>2, <1>4, <1>6, <1>7

\* A new session's state is sound.
LEMMA NewSound ==
  /\ Sound(NewAdaptive) /\ Sound(Tell(NewAdaptive))
  /\ NewAdaptive.tells = 0 /\ Tell(NewAdaptive).tells \in Nat \ {0}
  /\ Tell(NewAdaptive).pattern = "None"
PROOF
<1>1. Configured \in Nat \ {0} /\ MinRate \in Nat /\ MinRate <= Configured /\ Configured \in Settings
       /\ SleepRate \in Nat
  BY RateAssumption
<1>2. NewAdaptive \in Adaptive
  BY <1>1, FecBounds DEF NewAdaptive, Adaptive
<1>3. Sound(NewAdaptive)
  BY <1>1, <1>2 DEF NewAdaptive, Sound, InBounds, Effective, Larger
<1>4. Tell(NewAdaptive) \in Adaptive
  BY <1>1, FecBounds DEF Tell, NewAdaptive, Adaptive
<1>5. Sound(Tell(NewAdaptive))
  BY <1>1, <1>4 DEF Tell, NewAdaptive, Sound, InBounds, Effective, Larger
<1> QED BY <1>1, <1>3, <1>5 DEF Tell, NewAdaptive

\* A ramp stays a multiplier.
LEMMA RampValues ==
  ASSUME NEW from \in 50..99, NEW done \in {0, 50, 100}
  PROVE  Ramp(from, done) \in 50..100
PROOF
<1>1. CASE done = 0
  BY <1>1 DEF Ramp
<1>2. CASE done = 50
  BY <1>2 DEF Ramp
<1>3. CASE done = 100
  BY <1>3 DEF Ramp
<1> QED BY <1>1, <1>2, <1>3

\* A poll leaves the governor well formed.
LEMMA PollsType ==
  ASSUME NEW g \in Governor, NEW p \in Polls(g)
  PROVE  p \in Governor
PROOF
<1>1. CASE p \in {[multiplier |-> 50, ramp |-> 0], [multiplier |-> 70, ramp |-> 0],
                  [g EXCEPT !.ramp = 0], [g EXCEPT !.multiplier = 100]}
  BY <1>1 DEF Governor
<1>2. CASE p \in Cooling(g)
  <2> DEFINE from == IF g.ramp = 0 THEN g.multiplier ELSE g.ramp
  <2>1. CASE g.ramp = 0 /\ g.multiplier = 100
    BY <1>2, <2>1 DEF Cooling
  <2>2. CASE ~(g.ramp = 0 /\ g.multiplier = 100)
    <3>1. from \in 50..99
      BY <2>2 DEF Governor
    <3> HIDE DEF from
    <3>2. PICK d \in {0, 50, 100} : p = [multiplier |-> Ramp(from, d), ramp |-> IF d = 100 THEN 0 ELSE from]
      BY <1>2, <2>2 DEF Cooling, from
    <3>3. Ramp(from, d) \in 50..100
      BY <3>1, RampValues
    <3> QED BY <3>1, <3>2, <3>3 DEF Governor
  <2> QED BY <2>1, <2>2
<1> QED BY <1>1, <1>2 DEF Polls

-----------------------------------------------------------------------------
(* The inductive invariant.                                                *)

\* What a frame does to a state: a tick or none, a poll or none, the sleep
\* detector.  It is sound, keeps the setting, and meets a burst as it should.
LEMMA FrameStep ==
  ASSUME AdaptiveInv, NEW ticks \in BOOLEAN, Frame(ticks)
  PROVE  /\ AdaptiveInv'
         /\ ab.pattern = "None" /\ ab'.pattern = "Burst" =>
              ab'.current = Clamp(ab', ab.current) /\ (FecEnabled => ab'.sent = MaxFec)
PROOF
<1>1. PICK overuse \in BOOLEAN, long \in BOOLEAN, due \in BOOLEAN :
        LET ticked == IF ticks THEN Tick(ab, overuse, long, due) ELSE ab
        IN \/ /\ \E s \in CheckSleep(ticked) : Becomes(s)
              /\ UNCHANGED governor
           \/ /\ Governed
              /\ \E g \in Polls(governor) :
                   /\ governor' = g
                   /\ \E s \in CheckSleep(SetCeiling(ticked, g.multiplier)) : Becomes(s)
  BY ReportAssumption, ZenonT(60) DEF Frame
<1> DEFINE ticked == IF ticks THEN Tick(ab, overuse, long, due) ELSE ab
<1>2. /\ Sound(ticked) /\ ticked.setting = ab.setting
      /\ ab.pattern = "None" /\ ticked.pattern = "Burst" =>
           ticked.current = ab.current /\ (FecEnabled => ticked.sent = MaxFec)
  <2>1. CASE ticks
    BY <2>1, TickSound DEF AdaptiveInv
  <2>2. CASE ~ticks
    BY <2>2 DEF AdaptiveInv
  <2> QED BY <2>1, <2>2
<1> HIDE DEF ticked
<1>3. calm' = calm
  BY DEF Frame
<1>4. CASE (\E s \in CheckSleep(ticked) : Becomes(s)) /\ governor' = governor
  <2>1. PICK s \in CheckSleep(ticked) : Becomes(s)
    BY <1>4
  <2>2. /\ Sound(s) /\ s.current = ticked.current /\ s.setting = ticked.setting
        /\ s.ceiling = ticked.ceiling /\ s.pattern = ticked.pattern /\ s.sent = ticked.sent
    BY <1>2, SleepSound
  <2>3. /\ Sound(ab') /\ ab'.tells = 0 /\ encoder' \in Encoder /\ NeverAboveSetting'
        /\ ab'.current = s.current /\ ab'.setting = s.setting /\ ab'.ceiling = s.ceiling
        /\ ab'.pattern = s.pattern /\ ab'.sent = s.sent
    BY <1>2, <2>1, <2>2, ReturnsInv
  <2>4. AdaptiveInv'
    BY <1>3, <1>4, <2>3 DEF AdaptiveInv
  <2>5. Clamp(ab', ab'.current) = ab'.current
    BY <2>3, ClampKeeps DEF Sound
  <2> QED BY <1>2, <2>2, <2>3, <2>4, <2>5
<1>5. CASE \E g \in Polls(governor) :
             /\ governor' = g
             /\ \E s \in CheckSleep(SetCeiling(ticked, g.multiplier)) : Becomes(s)
  <2>1. PICK g \in Polls(governor) :
          /\ governor' = g
          /\ \E s \in CheckSleep(SetCeiling(ticked, g.multiplier)) : Becomes(s)
    BY <1>5
  <2> DEFINE capped == SetCeiling(ticked, g.multiplier)
  <2>2. g \in Governor /\ g.multiplier \in 50..100
    BY <2>1, PollsType DEF AdaptiveInv, Governor
  <2>3. /\ Sound(capped) /\ capped.setting = ticked.setting
        /\ capped.pattern = ticked.pattern /\ capped.sent = ticked.sent
        /\ capped.current = Clamp(capped, ticked.current)
    BY <1>2, <2>2, CeilingSound
  <2>4. PICK s \in CheckSleep(capped) : Becomes(s)
    BY <2>1
  <2> HIDE DEF capped
  <2>5. /\ Sound(s) /\ s.current = capped.current /\ s.setting = capped.setting
        /\ s.ceiling = capped.ceiling /\ s.pattern = capped.pattern /\ s.sent = capped.sent
    BY <2>3, <2>4, SleepSound
  <2>6. /\ Sound(ab') /\ ab'.tells = 0 /\ encoder' \in Encoder /\ NeverAboveSetting'
        /\ ab'.current = s.current /\ ab'.setting = s.setting /\ ab'.ceiling = s.ceiling
        /\ ab'.pattern = s.pattern /\ ab'.sent = s.sent
    BY <1>2, <2>3, <2>4, <2>5, ReturnsInv
  <2>7. AdaptiveInv'
    BY <1>3, <2>1, <2>2, <2>6 DEF AdaptiveInv
  <2>8. Clamp(ab', ticked.current) = Clamp(capped, ticked.current)
    BY <2>5, <2>6 DEF Clamp
  <2> QED BY <1>2, <2>3, <2>5, <2>6, <2>7, <2>8
<1> QED BY <1>1, <1>4, <1>5 DEF ticked

LEMMA InitInv == Init => AdaptiveInv
PROOF
<1>1. SUFFICES ASSUME Init PROVE AdaptiveInv
  OBVIOUS
<1>2. Configured \in Nat \ {0} /\ SleepRate \in Nat
  BY RateAssumption
<1>3. Sound(ab) /\ ab.tells = 0 /\ ab.setting = Configured
  BY <1>1, NewSound DEF Init, NewAdaptive
<1>4. governor \in Governor /\ encoder \in Encoder /\ calm \in BOOLEAN
  BY <1>1, <1>2 DEF Init, Governor, Encoder
<1>5. NeverAboveSetting
  BY <1>1, <1>2, <1>3 DEF Init, NeverAboveSetting, Larger
<1> QED BY <1>3, <1>4, <1>5 DEF AdaptiveInv

LEMMA NextInv == AdaptiveInv /\ [Next]_vars => AdaptiveInv'
PROOF
<1>1. SUFFICES ASSUME AdaptiveInv, [Next]_vars PROVE AdaptiveInv'
  OBVIOUS
<1>0. /\ Sound(ab) /\ ab \in Adaptive /\ ab.tells = 0 /\ governor \in Governor
      /\ encoder \in Encoder /\ calm \in BOOLEAN /\ NeverAboveSetting
  BY <1>1 DEF AdaptiveInv, Sound
<1>2. CASE Heartbeat
  <2>1. PICK sum \in LossReports : ab' = [ab EXCEPT !.pending = sum]
    BY <1>2 DEF Heartbeat
  <2>2. /\ ab' \in Adaptive /\ ab'.current = ab.current /\ ab'.setting = ab.setting
        /\ ab'.ceiling = ab.ceiling /\ ab'.fec = ab.fec /\ ab'.boost = ab.boost
        /\ ab'.sent = ab.sent /\ ab'.tells = ab.tells
    BY <1>0, <2>1 DEF Adaptive
  <2>3. Sound(ab')
    BY <1>0, <2>2 DEF Sound, InBounds, Effective
  <2>4. NeverAboveSetting'
    BY <1>0, <1>2, <2>2 DEF NeverAboveSetting, Heartbeat
  <2> QED BY <1>0, <1>2, <2>2, <2>3, <2>4 DEF AdaptiveInv, Heartbeat
<1>3. CASE \E rate \in Settings : BitrateSetting(rate)
  <2>1. PICK rate \in Settings : BitrateSetting(rate)
    BY <1>3
  <2>2. Sound(Tell(ChooseSetting(ab, rate))) /\ Tell(ChooseSetting(ab, rate)).tells # 0
    BY <1>0, ChooseSound
  <2>3. Sound(ab') /\ ab'.tells = 0 /\ encoder' \in Encoder /\ NeverAboveSetting'
    BY <1>1, <2>1, <2>2, ReturnsInv DEF BitrateSetting
  <2> QED BY <1>0, <2>1, <2>3 DEF AdaptiveInv, BitrateSetting
<1>4. CASE Frame(TRUE) \/ Frame(FALSE)
  BY <1>1, <1>4, FrameStep
<1>5. CASE HysteresisElapses
  <2>1. ab' = [ab EXCEPT !.settled = TRUE]
    BY <1>5 DEF HysteresisElapses
  <2>2. /\ ab' \in Adaptive /\ ab'.current = ab.current /\ ab'.setting = ab.setting
        /\ ab'.ceiling = ab.ceiling /\ ab'.fec = ab.fec /\ ab'.boost = ab.boost
        /\ ab'.sent = ab.sent /\ ab'.tells = ab.tells
    BY <1>0, <2>1, ZenonT(60) DEF Adaptive
  <2>3. Sound(ab')
    BY <1>0, <2>2 DEF Sound, InBounds, Effective
  <2>4. NeverAboveSetting'
    BY <1>0, <1>5, <2>2 DEF NeverAboveSetting, HysteresisElapses
  <2> QED BY <1>0, <1>5, <2>2, <2>3, <2>4 DEF AdaptiveInv, HysteresisElapses
<1>6. CASE NewSession
  <2>1. Sound(ab') /\ ab'.tells = 0 /\ encoder' \in Encoder /\ NeverAboveSetting'
    BY <1>1, <1>6, NewSound, ReturnsInv DEF NewSession
  <2> QED BY <1>0, <1>6, <2>1 DEF AdaptiveInv, NewSession
<1>7. CASE EncoderTakes
  <2>1. encoder' \in Encoder /\ NeverAboveSetting'
    BY <1>0, <1>7 DEF EncoderTakes, NeverAboveSetting, Encoder
  <2> QED BY <1>0, <1>7, <2>1 DEF AdaptiveInv, EncoderTakes
<1>8. CASE EncoderRefuses
  <2>1. encoder' \in Encoder /\ NeverAboveSetting'
    BY <1>0, <1>8 DEF EncoderRefuses, NeverAboveSetting, Encoder
  <2> QED BY <1>0, <1>8, <2>1 DEF AdaptiveInv, EncoderRefuses
<1>9. CASE Weather
  BY <1>0, <1>9 DEF AdaptiveInv, Weather, NeverAboveSetting
<1>10. CASE UNCHANGED vars
  BY <1>0, <1>10 DEF AdaptiveInv, vars, NeverAboveSetting
<1> QED BY <1>1, <1>2, <1>3, <1>4, <1>5, <1>6, <1>7, <1>8, <1>9, <1>10 DEF Next

THEOREM AdaptiveInvariant == Spec => []AdaptiveInv
PROOF
<1> QED BY InitInv, NextInv, PTL DEF Spec

\* The state is well formed in every behaviour: redundancies stay within the
\* configured bounds, and no handler of the frame loop leaves a bitrate untold.
THEOREM AdaptiveTypeCorrect == Spec => []AdaptiveTypeOK
PROOF
<1>1. AdaptiveInv => AdaptiveTypeOK
  BY DEF AdaptiveInv, Sound, Adaptive, Governor, Encoder, AdaptiveTypeOK
<1> QED BY <1>1, AdaptiveInvariant, PTL

\* The controller's bitrate stays between the floor and the setting and under
\* the thermal ceiling (bitrate_controller.rs), for all settings and ceilings.
THEOREM RateStaysInBounds == Spec => []RateInBounds
PROOF
<1>1. AdaptiveInv => RateInBounds
  BY DEF AdaptiveInv, Sound, InBounds, RateInBounds
<1> QED BY <1>1, AdaptiveInvariant, PTL

\* No path of the frame loop ever asks the encoder for more than the user's
\* setting or the sleep bitrate (engine.rs notify_bitrate_change()).
THEOREM SettingNeverExceeded == Spec => []NeverAboveSetting
PROOF
<1>1. AdaptiveInv => NeverAboveSetting
  BY DEF AdaptiveInv
<1> QED BY <1>1, AdaptiveInvariant, PTL

\* Whatever moves the bitrate, the controller stays within its bounds and the
\* encoder is never asked for more than the user's setting or the sleep bitrate.
THEOREM BitrateStaysBounded == Spec => []BitrateBounded
<1> QED
  BY RateStaysInBounds, SettingNeverExceeded, PTL DEF BitrateBounded

\* The packets always carry the redundancy that was decided on (fec.rs).
THEOREM FecStaysInStep == Spec => []FecInStep
PROOF
<1>1. AdaptiveInv => FecInStep
  BY DEF AdaptiveInv, Sound, FecInStep
<1> QED BY <1>1, AdaptiveInvariant, PTL

\* The first sight of a burst never costs bitrate and always brings the most
\* parity (engine.rs tick(), bitrate_controller.rs arbitrate()).
THEOREM BurstsAreMetByFec == Spec => BurstIsMetByFec
PROOF
<1> DEFINE A == ab.pattern = "None" /\ ab'.pattern = "Burst" =>
                  /\ ab'.current = Clamp(ab', ab.current)
                  /\ FecEnabled => ab'.sent = MaxFec
<1>1. AdaptiveInv /\ [Next]_vars => [A]_vars
  <2>1. SUFFICES ASSUME AdaptiveInv, Next PROVE A
    OBVIOUS
  <2>0. Sound(ab) /\ ab \in Adaptive
    BY <2>1 DEF AdaptiveInv, Sound
  <2>2. CASE Heartbeat
    <3>1. PICK sum \in LossReports : ab' = [ab EXCEPT !.pending = sum]
      BY <2>2 DEF Heartbeat
    <3>2. ab'.pattern = ab.pattern
      BY <2>0, <3>1 DEF Adaptive
    <3> QED BY <3>2
  <2>3. CASE \E rate \in Settings : BitrateSetting(rate)
    <3>1. PICK rate \in Settings : BitrateSetting(rate)
      BY <2>3
    <3>2. ab' = [Tell(ChooseSetting(ab, rate)) EXCEPT !.tells = 0]
      BY <3>1 DEF BitrateSetting, Becomes
    <3>3. ab'.pattern = ab.pattern
      BY <2>0, <3>2 DEF Tell, ChooseSetting, Adaptive
    <3> QED BY <3>3
  <2>4. CASE Frame(TRUE) \/ Frame(FALSE)
    BY <2>1, <2>4, FrameStep
  <2>5. CASE HysteresisElapses
    <3>1. ab'.pattern = ab.pattern
      BY <2>0, <2>5 DEF HysteresisElapses, Adaptive
    <3> QED BY <3>1
  <2>6. CASE NewSession
    <3>1. ab'.pattern = "None"
      BY <2>6, NewSound DEF NewSession, Becomes, Tell, NewAdaptive
    <3> QED BY <3>1
  <2>7. CASE EncoderTakes \/ EncoderRefuses \/ Weather
    BY <2>7 DEF EncoderTakes, EncoderRefuses, Weather
  <2> QED BY <2>1, <2>2, <2>3, <2>4, <2>5, <2>6, <2>7 DEF Next
<1> QED BY <1>1, AdaptiveInvariant, PTL DEF Spec, BurstIsMetByFec

-----------------------------------------------------------------------------
(* What the controller decides reaches the encoder.                        *)

\* Handling a state s whose bitrate was `current` before, the bitrate is left
\* alone and nothing told, or it is told what it is now.
Follows(s, current) == (s.tells = 0 /\ s.current = current) \/ s.tells = s.current

\* An adjustment that changes the bitrate tells it.
LEMMA AdjustFollows ==
  ASSUME NEW s, Sound(s), s.tells = 0, NEW overuse
  PROVE  Follows(Adjust(s, overuse), s.current)
PROOF
<1> DEFINE t == Clamp(s, (s.current * Multiplier(s, overuse)) \div 100)
<1>1. CASE t = s.current
  BY <1>1 DEF Adjust, Follows
<1>2. CASE t # s.current
  <2>1. Adjust(s, overuse) = [[s EXCEPT !.current = t, !.settled = FALSE] EXCEPT !.tells = t]
    BY <1>2 DEF Adjust, Tell, Sound, Adaptive
  <2>2. Adjust(s, overuse).current = t /\ Adjust(s, overuse).tells = t
    BY <2>1 DEF Sound, Adaptive
  <2> QED BY <2>2 DEF Follows
<1> QED BY <1>1, <1>2

\* Neither the loss average nor the burst detector nor the redundancy touches
\* the bitrate, so a tick is its adjustment.
LEMMA TickFollows ==
  ASSUME NEW s, Sound(s), s.tells = 0,
         NEW overuse \in BOOLEAN, NEW long \in BOOLEAN, NEW due \in BOOLEAN
  PROVE  Follows(Tick(s, overuse, long, due), s.current)
PROOF
<1> DEFINE averaged == [Average(s, s.pending) EXCEPT !.pending = None]
<1> DEFINE judged == IF GccEnabled THEN Record(averaged, s.pending, long) ELSE averaged
<1> DEFINE adjusted == Adjust(judged, GccEnabled /\ overuse)
<1> DEFINE ended == EndBoost(adjusted)
<1> DEFINE t == Tick(s, overuse, long, due)
<1>0. s.pending \in LossReports \cup {None}
  BY DEF Sound, Adaptive
<1>1. CASE s.pending = None
  BY <1>1 DEF Tick, Follows
<1>2. CASE s.pending # None
  <2>1. s.pending \in LossReports
    BY <1>0, <1>2
  <2>2. Sound(averaged) /\ averaged.loss # None /\ averaged.current = s.current /\ averaged.tells = 0
    BY <2>1, AverageSound
  <2> HIDE DEF averaged
  <2>3. Sound(judged) /\ judged.loss # None /\ judged.current = s.current /\ judged.tells = 0
    BY <2>1, <2>2, RecordSound
  <2> HIDE DEF judged
  <2>4. (GccEnabled /\ overuse) \in BOOLEAN
    BY ReportAssumption
  <2>5. Sound(adjusted) /\ adjusted.loss # None
    BY <2>3, <2>4, AdjustSound
  <2>6. Follows(adjusted, s.current)
    BY <2>3, AdjustFollows
  <2> HIDE DEF adjusted
  <2>7. t = IF ~FecEnabled THEN adjusted
            ELSE IF adjusted.pattern = "Burst" THEN Boost(adjusted)
            ELSE AdjustFec(ended, due)
    BY <1>2 DEF Tick, averaged, judged, adjusted
  <2>8. Boost(adjusted).tells = adjusted.tells /\ Boost(adjusted).current = adjusted.current
    BY <2>5, BoostSound
  <2>9. /\ Sound(ended) /\ ended.loss # None
        /\ ended.tells = adjusted.tells /\ ended.current = adjusted.current
    BY <2>5, EndBoostSound
  <2> HIDE DEF ended, t
  <2>10. AdjustFec(ended, due).tells = ended.tells /\ AdjustFec(ended, due).current = ended.current
    BY <2>9, AdjustFecSound
  <2>11. t.tells = adjusted.tells /\ t.current = adjusted.current
    BY <2>7, <2>8, <2>9, <2>10
  <2> QED BY <2>6, <2>11 DEF Follows, t
<1> QED BY <1>1, <1>2

\* A handler that follows leaves the encoder told what the controller has.
LEMMA ReturnsInStep ==
  ASSUME AdaptiveInv, EncoderInStep, NEW s, Sound(s), Becomes(s), Follows(s, ab.current)
  PROVE  EncoderInStep'
PROOF
<1>1. ab'.current = s.current
  BY DEF Becomes, Sound, Adaptive
<1>2. s.current # 0
  BY RateAssumption DEF Sound, InBounds, Adaptive
<1>3. CASE s.tells = 0
  BY <1>1, <1>2, <1>3 DEF Becomes, Follows, EncoderInStep
<1>4. CASE s.tells # 0
  <2>1. encoder' = [encoder EXCEPT !.pending = s.tells, !.told = s.tells]
    BY <1>4 DEF Becomes
  <2>2. encoder'.told = s.tells
    BY <2>1 DEF AdaptiveInv, Encoder
  <2> QED BY <1>1, <1>4, <2>2 DEF Follows, EncoderInStep
<1> QED BY <1>3, <1>4

\* Without a thermal governor, whose ceiling the encoder learns of only with the
\* next adjustment (CapReachesEncoder), and without sleep, which asks for a
\* bitrate of its own, what the two controllers decide is what the two encoders
\* were asked for: no handler of engine.rs changes a bitrate and forgets
\* notify_bitrate_change(), or a redundancy and forgets set_redundancy().
THEOREM DecisionsAreTold ==
  ASSUME ~Governed, ~Sleeps
  PROVE  Spec => []DecisionsReachEncoders
PROOF
<1>1. Init => EncoderInStep
  BY DEF Init, NewAdaptive, EncoderInStep
<1>2. AdaptiveInv /\ EncoderInStep /\ [Next]_vars => EncoderInStep'
  <2>1. SUFFICES ASSUME AdaptiveInv, EncoderInStep, [Next]_vars PROVE EncoderInStep'
    OBVIOUS
  <2>0. Sound(ab) /\ ab \in Adaptive /\ ab.tells = 0 /\ encoder \in Encoder
    BY <2>1 DEF AdaptiveInv, Sound
  <2>a. ~Governed /\ ~Sleeps
    OBVIOUS
  <2>2. CASE Heartbeat
    BY <2>0, <2>1, <2>2 DEF Heartbeat, EncoderInStep, Adaptive
  <2>3. CASE \E rate \in Settings : BitrateSetting(rate)
    <3>1. PICK rate \in Settings : BitrateSetting(rate)
      BY <2>3
    <3> DEFINE s == Tell(ChooseSetting(ab, rate))
    <3>2. Sound(s)
      BY <2>0, ChooseSound
    <3>3. s.tells = s.current
      BY <2>0 DEF Tell, ChooseSetting, Adaptive
    <3>4. Becomes(s)
      BY <3>1 DEF BitrateSetting
    <3> HIDE DEF s
    <3> QED BY <2>1, <3>2, <3>3, <3>4, ReturnsInStep DEF Follows
  <2>4. ASSUME NEW ticks \in BOOLEAN, Frame(ticks) PROVE EncoderInStep'
    <3>1. PICK overuse \in BOOLEAN, long \in BOOLEAN, due \in BOOLEAN :
            \E s \in CheckSleep(IF ticks THEN Tick(ab, overuse, long, due) ELSE ab) : Becomes(s)
      BY <2>4, ReportAssumption DEF Frame
    <3> DEFINE ticked == IF ticks THEN Tick(ab, overuse, long, due) ELSE ab
    <3>2. Sound(ticked) /\ Follows(ticked, ab.current)
      <4>1. CASE ticks
        BY <2>0, <4>1, TickSound, TickFollows
      <4>2. CASE ~ticks
        BY <2>0, <4>2 DEF Follows
      <4> QED BY <4>1, <4>2
    <3>3. PICK s \in CheckSleep(ticked) : Becomes(s)
      BY <3>1
    <3> HIDE DEF ticked
    <3>t. Transitions(ticked) = {}
      BY <2>a DEF Transitions
    <3>4. Becomes(ticked)
      BY <3>3, <3>t DEF CheckSleep
    <3> QED BY <2>1, <3>2, <3>4, ReturnsInStep
  <2>5. CASE HysteresisElapses
    <3>1. ab'.current = ab.current /\ encoder' = encoder
      BY <2>0, <2>5 DEF HysteresisElapses, Adaptive
    <3> QED BY <2>1, <3>1 DEF EncoderInStep
  <2>6. CASE NewSession
    <3>1. Sound(Tell(NewAdaptive)) /\ Becomes(Tell(NewAdaptive))
      BY <2>6, NewSound DEF NewSession
    <3>2. Tell(NewAdaptive).tells = Tell(NewAdaptive).current
      BY DEF Tell, NewAdaptive
    <3> QED BY <2>1, <3>1, <3>2, ReturnsInStep DEF Follows
  <2>7. CASE EncoderTakes
    BY <2>0, <2>1, <2>7 DEF EncoderTakes, EncoderInStep, Encoder
  <2>8. CASE EncoderRefuses
    BY <2>0, <2>1, <2>8 DEF EncoderRefuses, EncoderInStep, Encoder
  <2>9. CASE Weather \/ UNCHANGED vars
    BY <2>1, <2>9 DEF Weather, vars, EncoderInStep
  <2> QED BY <2>1, <2>2, <2>3, <2>4, <2>5, <2>6, <2>7, <2>8, <2>9 DEF Next
<1> QED
  BY <1>1, <1>2, AdaptiveInvariant, FecStaysInStep, PTL DEF Spec, DecisionsReachEncoders

-----------------------------------------------------------------------------
(* Losses, counted from wrapping sequence numbers.                         *)

LEMMA LinkBounds ==
  /\ SeqSpace \in Nat \ {0, 1} /\ CountedGap \in Nat /\ LogKeep \in Nat /\ LogKeep <= SeqSpace
  /\ SeqSpace \div 2 \in Nat \ {0} /\ 2 * (SeqSpace \div 2) <= SeqSpace
BY LinkAssumption DEF LinkAssumption

LEMMA Divides ==
  ASSUME NEW w \in Int, w > 0, NEW a \in Int
  PROVE  a % w \in 0 .. w - 1 /\ a \div w \in Int /\ a = w * (a \div w) + (a % w)
<1>1. a = w * (a \div w) + (a % w)
  BY SMT
<1>2. a % w \in 0 .. w - 1 /\ a \div w \in Int
  OBVIOUS
<1> QED
  BY <1>1, <1>2

LEMMA RemainderOf ==
  ASSUME NEW w \in Int, w > 0, NEW a \in Int, NEW q \in Int, NEW r \in 0 .. w - 1, a = w * q + r
  PROVE  a % w = r
<1>1. a = q * w + r
  OBVIOUS
<1> QED
  BY <1>1, SMT

\* The distance of two wrapped numbers, if they are less than the whole space apart.
LEMMA Wrapped ==
  ASSUME NEW m \in Int, NEW n \in Int, NEW c \in Int
  PROVE  /\ m - n - c \in 0 .. SeqSpace - 1 => ((m % SeqSpace) - (n % SeqSpace) - c) % SeqSpace = m - n - c
         /\ m - n - c + SeqSpace \in 0 .. SeqSpace - 1 =>
              ((m % SeqSpace) - (n % SeqSpace) - c) % SeqSpace = m - n - c + SeqSpace
<1> DEFINE w == SeqSpace
           qm == m \div w
           qn == n \div w
           rm == m % w
           rn == n % w
<1>1. w \in Int /\ w > 0
  BY LinkBounds
<1>2. /\ rm \in 0 .. w - 1 /\ qm \in Int /\ m = w * qm + rm
      /\ rn \in 0 .. w - 1 /\ qn \in Int /\ n = w * qn + rn
  BY <1>1, Divides
<1> SUFFICES /\ m - n - c \in 0 .. w - 1 => (rm - rn - c) % w = m - n - c
             /\ m - n - c + w \in 0 .. w - 1 => (rm - rn - c) % w = m - n - c + w
  OBVIOUS
<1> HIDE DEF qm, qn, rm, rn, w
<1>3. rm - rn - c = w * (qn - qm) + (m - n - c) /\ qn - qm \in Int /\ rm - rn - c \in Int
  BY <1>1, <1>2
<1>4. ASSUME m - n - c \in 0 .. w - 1 PROVE (rm - rn - c) % w = m - n - c
  BY <1>1, <1>3, <1>4, RemainderOf
<1>5. ASSUME m - n - c + w \in 0 .. w - 1 PROVE (rm - rn - c) % w = m - n - c + w
  <2>1. rm - rn - c = w * (qn - qm - 1) + (m - n - c + w) /\ qn - qm - 1 \in Int
    BY <1>1, <1>2, <1>3
  <2> QED
    BY <1>1, <1>3, <1>5, <2>1, RemainderOf
<1> QED
  BY <1>4, <1>5

LEMMA SeqNext ==
  ASSUME NEW packet \in Nat
  PROVE  Seq16(Seq16(packet) + 1) = Seq16(packet + 1)
<1> DEFINE seq == Seq16(packet)
<1>1. SeqSpace \in Nat \ {0}
  BY LinkBounds
<1>3. seq \in 0 .. SeqSpace - 1
  BY <1>1, Divides DEF Seq16
<1>6. Seq16(seq + 1) = Seq16(packet + 1)
  <2>1. /\ seq \in 0 .. SeqSpace - 1 /\ packet \div SeqSpace \in Int
        /\ packet = SeqSpace * (packet \div SeqSpace) + seq
    BY <1>1, Divides DEF Seq16
  <2>2. /\ (packet + 1) % SeqSpace \in 0 .. SeqSpace - 1 /\ (packet + 1) \div SeqSpace \in Int
        /\ packet + 1 = SeqSpace * ((packet + 1) \div SeqSpace) + ((packet + 1) % SeqSpace)
    BY <1>1, Divides
  <2> DEFINE q == packet \div SeqSpace
             k == (packet + 1) \div SeqSpace
             r == (packet + 1) % SeqSpace
  <2> HIDE DEF q, k, r, seq
  <2>3. packet = SeqSpace * q + seq /\ q \in Int /\ k \in Int /\ r \in 0 .. SeqSpace - 1
        /\ packet + 1 = SeqSpace * k + r
    BY <2>1, <2>2 DEF q, k, r
  <2>4. seq + 1 = SeqSpace * (k - q) + r /\ k - q \in Int /\ seq + 1 \in Int
    BY <1>1, <1>3, <2>3
  <2>5. SeqSpace \in Int /\ SeqSpace > 0 /\ r \in 0 .. SeqSpace - 1
    BY <1>1, <2>3
  <2> DEFINE s == seq + 1
             u == k - q
  <2>6. s = SeqSpace * u + r /\ u \in Int /\ s \in Int
    BY <2>4
  <2> HIDE DEF s, u
  <2>7. s % SeqSpace = r
    BY <2>5, <2>6, RemainderOf
  <2> QED
    BY <2>7 DEF Seq16, r, s
<1> QED
  BY <1>6

\* What one packet does to the two counts, by the distance its number has.
LEMMA Counted ==
  ASSUME NEW a \in [expected : Int, received : Nat, lost : Nat], NEW seq \in Nat,
         NEW diff \in Int, Diff16(seq, a.expected) = diff, a.expected # NoSeq, NEW n \in Int, Seq16(seq + 1) = n
  PROVE  LET b == Account(a, seq)
         IN  /\ b \in [expected : Int, received : Nat, lost : Nat]
             /\ b.received = a.received + 1
             /\ diff < 0 => b.expected = a.expected /\ b.lost = a.lost
             /\ diff >= 0 => b.expected = n /\ b.lost = a.lost + (IF diff <= CountedGap THEN diff ELSE 0)
<1> DEFINE b == Account(a, seq)
<1>1. a.received + 1 \in Nat /\ a.lost \in Nat /\ a.expected \in Int
  OBVIOUS
<1>2. CASE diff < 0
  <2>1. b = [a EXCEPT !.received = a.received + 1]
    BY <1>2 DEF Account
  <2> DEFINE r == a.received + 1
  <2> HIDE DEF b, r
  <2>2. b = [a EXCEPT !.received = r] /\ r \in Nat
    BY <1>1, <2>1 DEF r
  <2>3. b \in [expected : Int, received : Nat, lost : Nat] /\ b.received = r /\ b.expected = a.expected
        /\ b.lost = a.lost
    BY <2>2
  <2> QED
    BY <1>2, <2>3 DEF b, r
<1>3. CASE diff = 0
  <2>1. b = [a EXCEPT !.received = a.received + 1, !.expected = n]
    BY <1>3 DEF Account
  <2> DEFINE r == a.received + 1
  <2> HIDE DEF b, r
  <2>2. b = [a EXCEPT !.received = r, !.expected = n] /\ r \in Nat
    BY <1>1, <2>1 DEF r
  <2>3. b \in [expected : Int, received : Nat, lost : Nat] /\ b.received = r /\ b.expected = n
        /\ b.lost = a.lost
    BY <2>2
  <2>4. a.lost + (IF diff <= CountedGap THEN diff ELSE 0) = a.lost
    BY <1>1, <1>3, LinkBounds
  <2> QED
    BY <1>3, <2>3, <2>4 DEF b, r
<1>4. CASE diff > 0
  <2> DEFINE r == a.received + 1
             l == a.lost + (IF diff <= CountedGap THEN diff ELSE 0)
             c == IF diff <= CountedGap THEN diff ELSE 0
             o == [a EXCEPT !.received = r, !.expected = n]
  <2>1. l \in Nat /\ r \in Nat
    BY <1>1, <1>4, LinkBounds
  <2>2. diff # 0 /\ ~(diff < 0)
    BY <1>4
  <2>3. b = [o EXCEPT !.lost = o.lost + c]
    BY <2>2 DEF Account
  <2> HIDE DEF b, r, c
  <2>4. o \in [expected : Int, received : Nat, lost : Nat] /\ o.received = r /\ o.expected = n /\ o.lost = a.lost
    BY <2>1
  <2> HIDE DEF o, l
  <2>5. b = [o EXCEPT !.lost = l]
    BY <2>3, <2>4 DEF l, c
  <2>6. b \in [expected : Int, received : Nat, lost : Nat] /\ b.received = r /\ b.expected = n /\ b.lost = l
    BY <2>1, <2>4, <2>5
  <2> QED
    BY <1>4, <2>6 DEF b, r, l
<1> QED
  BY <1>2, <1>3, <1>4

\* accountSequence() and count_rtp_gap() of a packet, with packet `newest` the newest so far.
LEMMA PacketAccounted ==
  ASSUME NEW newest \in Nat, NEW packet \in Nat,
         newest - SeqSpace \div 2 < packet, packet <= newest + SeqSpace \div 2,
         NEW a \in [expected : Int, received : Nat, lost : Nat], a.expected = Seq16(newest + 1),
         NEW m \in [last : Int, lost : Nat], m.last = Seq16(newest)
  PROVE  LET a2 == Account(a, Seq16(packet))
             m2 == CountRtpGap(m, Seq16(packet))
             gap == packet - newest - 1
         IN  /\ a2 \in [expected : Int, received : Nat, lost : Nat] /\ m2 \in [last : Int, lost : Nat]
             /\ a2.received = a.received + 1
             /\ packet <= newest => a2.expected = a.expected /\ a2.lost = a.lost /\ m2 = m
             /\ packet > newest =>
                  /\ a2.expected = Seq16(packet + 1) /\ m2.last = Seq16(packet)
                  /\ a2.lost = a.lost + (IF gap <= CountedGap THEN gap ELSE 0) /\ m2.lost = m.lost + gap
<1> DEFINE gap == packet - newest - 1
           half == SeqSpace \div 2
           seq == Seq16(packet)
           diff == Diff16(seq, a.expected)
           step == (seq - m.last - 1) % SeqSpace
<1>1. /\ SeqSpace \in Nat \ {0} /\ half \in Nat /\ 2 * half <= SeqSpace /\ CountedGap \in Nat
      /\ gap \in Int /\ gap >= -half /\ gap < half
  BY LinkBounds
<1>2. \A n \in Nat : Seq16(n) \in 0 .. SeqSpace - 1
  BY <1>1, Divides DEF Seq16
<1>3. seq \in Nat /\ a.expected \in Nat /\ m.last \in Nat /\ a.expected # NoSeq /\ m.last # NoSeq
  BY <1>1, <1>2 DEF NoSeq
<1>4. diff = gap
  <2> DEFINE d == (seq - a.expected) % SeqSpace
  <2>1. diff = IF d >= half THEN d - SeqSpace ELSE d
    BY DEF Diff16
  <2>2. d = ((packet % SeqSpace) - ((newest + 1) % SeqSpace) - 0) % SeqSpace
    <3>1. seq - a.expected = (packet % SeqSpace) - ((newest + 1) % SeqSpace) - 0
      BY <1>3 DEF Seq16
    <3> QED
      BY <3>1
  <2>3. packet - (newest + 1) - 0 = gap
    BY <1>1
  <2>4. newest + 1 \in Int /\ packet \in Int
    OBVIOUS
  <2> HIDE DEF d, diff, half
  <2>5. /\ gap \in 0 .. SeqSpace - 1 => d = gap
        /\ gap + SeqSpace \in 0 .. SeqSpace - 1 => d = gap + SeqSpace
    BY <2>2, <2>3, <2>4, Wrapped
  <2> HIDE DEF gap
  <2>6. CASE gap >= 0
    BY <1>1, <2>1, <2>5, <2>6
  <2>7. CASE gap < 0
    BY <1>1, <2>1, <2>5, <2>7
  <2> QED
    BY <1>1, <2>6, <2>7
<1>5. step = IF gap >= 0 THEN gap ELSE gap + SeqSpace
  <2>1. step = ((packet % SeqSpace) - (newest % SeqSpace) - 1) % SeqSpace
    BY DEF Seq16
  <2>2. newest \in Int /\ packet \in Int /\ 1 \in Int
    OBVIOUS
  <2> HIDE DEF step, half
  <2>3. /\ gap \in 0 .. SeqSpace - 1 => step = gap
        /\ gap + SeqSpace \in 0 .. SeqSpace - 1 => step = gap + SeqSpace
    BY <2>1, <2>2, Wrapped
  <2> HIDE DEF gap
  <2> QED
    BY <1>1, <2>3
<1>6. Seq16(seq + 1) = Seq16(packet + 1)
  BY SeqNext
<1>7. packet > newest <=> gap >= 0
  BY <1>1
<1> DEFINE n == Seq16(packet + 1)
           a2 == Account(a, seq)
           m2 == CountRtpGap(m, seq)
<1>8. n \in Int
  BY <1>1, <1>2
<1>9. /\ a2 \in [expected : Int, received : Nat, lost : Nat]
      /\ a2.received = a.received + 1
      /\ gap < 0 => a2.expected = a.expected /\ a2.lost = a.lost
      /\ gap >= 0 => a2.expected = n /\ a2.lost = a.lost + (IF gap <= CountedGap THEN gap ELSE 0)
  <2> HIDE DEF seq, gap, n, half
  <2> QED
    BY <1>1, <1>3, <1>4, <1>6, <1>8, Counted DEF n, diff
<1>10. /\ m2 \in [last : Int, lost : Nat]
       /\ gap < 0 => m2 = m
       /\ gap >= 0 => m2.last = seq /\ m2.lost = m.lost + gap
  <2>1. m2 = IF step >= half THEN m ELSE [last |-> seq, lost |-> m.lost + step]
    BY <1>3 DEF CountRtpGap
  <2> HIDE DEF seq, gap, half, m2, step
  <2>2. CASE gap < 0
    <3>1. step >= half
      BY <1>1, <1>5, <2>2
    <3>2. m2 = m
      BY <2>1, <3>1
    <3> QED
      BY <1>1, <2>2, <3>2
  <2>3. CASE gap >= 0
    <3>1. ~(step >= half) /\ step = gap
      BY <1>1, <1>5, <2>3
    <3> DEFINE l == m.lost + gap
    <3>2. l \in Nat /\ seq \in Int
      BY <1>1, <1>3, <2>3
    <3>3. m2 = [last |-> seq, lost |-> l]
      BY <2>1, <3>1
    <3> HIDE DEF l
    <3>4. m2 \in [last : Int, lost : Nat] /\ m2.last = seq /\ m2.lost = l
      BY <3>2, <3>3
    <3> QED
      BY <1>1, <2>3, <3>4 DEF l
  <2> QED
    BY <1>1, <2>2, <2>3
<1> HIDE DEF gap, seq, a2, m2, n
<1>11. /\ packet <= newest => gap < 0
       /\ packet > newest => gap >= 0
  BY <1>1, <1>7
<1>12. seq = Seq16(packet) /\ n = Seq16(packet + 1)
  BY DEF seq, n
<1> QED
  BY <1>9, <1>10, <1>11, <1>12 DEF gap, seq, a2, m2

-----------------------------------------------------------------------------
(* What has arrived and what was charged are sets of packets, and the two    *)
(* counts expect what follows the newest.                                    *)
LinkTyped ==
  /\ account \in [expected : Int, received : Nat, lost : Nat]
  /\ mock \in [last : Int, lost : Nat]
  /\ reports \in [taken : {NoSeq} \cup Nat, count : Nat, received : Nat, lost : Nat]
  /\ arrived \in [once : SUBSET Nat, first : Int, again : Nat] /\ IsFiniteSet(arrived.once)
  /\ charged \in [lost : SUBSET Nat, wide : SUBSET Nat, wrong : SUBSET Nat]
  /\ IsFiniteSet(charged.lost) /\ IsFiniteSet(charged.wide)

NothingYet ==
  arrived.once = {} =>
    /\ arrived.first = NoSeq /\ account.expected = NoSeq /\ mock.last = NoSeq
    /\ charged.lost = {} /\ charged.wide = {}

CountsAtNewest ==
  arrived.once # {} =>
    /\ arrived.first # NoSeq
    /\ Newest \in arrived.once /\ \A q \in arrived.once : q <= Newest
    /\ account.expected = Seq16(Newest + 1) /\ mock.last = Seq16(Newest)
    /\ \A p \in charged.lost \cup charged.wide : p <= Newest

LossInv == LinkTyped /\ NothingYet /\ CountsAtNewest /\ LossesCountedOnce

LEMMA GreatestIs ==
  ASSUME NEW S \in SUBSET Int, NEW n \in S, \A q \in S : q <= n
  PROVE  (CHOOSE p \in S : \A q \in S : q <= p) = n
<1> DEFINE c == CHOOSE p \in S : \A q \in S : q <= p
<1>1. c \in S /\ \A q \in S : q <= c
  OBVIOUS
<1> HIDE DEF c
<1>2. c <= n /\ n <= c /\ c \in Int /\ n \in Int
  BY <1>1
<1>3. c = n
  BY <1>2
<1> QED
  BY <1>3 DEF c

LEMMA Interval ==
  ASSUME NEW m \in Int, NEW n \in Int
  PROVE  /\ IsFiniteSet(m .. n)
         /\ Cardinality(m .. n) \in Nat
         /\ n >= m - 1 => Cardinality(m .. n) = n - m + 1
         /\ n < m => Cardinality(m .. n) = 0 /\ m .. n = {}
<1>1. IsFiniteSet(m .. n) /\ Cardinality(m .. n) = IF m > n THEN 0 ELSE n - m + 1
  BY FS_Interval
<1>2. n < m => m .. n = {}
  OBVIOUS
<1> DEFINE c == Cardinality(m .. n)
<1>3. c = IF m > n THEN 0 ELSE n - m + 1
  BY <1>1
<1> HIDE DEF c
<1>4. c \in Nat /\ (n >= m - 1 => c = n - m + 1) /\ (n < m => c = 0)
  BY <1>3
<1> QED
  BY <1>1, <1>2, <1>4 DEF c

\* The packets between the newest and one that arrives.
Skipped(packet) == IF Newest >= 0 THEN Newest + 1 .. packet - 1 ELSE {}

\* A packet charges the ones it skips, each as lost or as too wide a gap.
LEMMA ArrivalCharges ==
  ASSUME LossInv, NEW packet \in Nat, VideoArrives(packet)
  PROVE  LET K == Skipped(packet)
             C == IF Cardinality(K) > CountedGap THEN {} ELSE K
             n == IF packet > Newest THEN packet ELSE Newest
         IN  /\ account' \in [expected : Int, received : Nat, lost : Nat] /\ mock' \in [last : Int, lost : Nat]
             /\ account'.received = account.received + 1
             /\ account'.expected = Seq16(n + 1) /\ mock'.last = Seq16(n)
             /\ account'.lost = account.lost + Cardinality(C) /\ mock'.lost = mock.lost + Cardinality(K)
             /\ charged' = [lost |-> charged.lost \cup C, wide |-> charged.wide \cup (K \ C),
                            wrong |-> charged.wrong \cup (C \cap (charged.lost \cup arrived.once))]
             /\ Newest \in Int /\ \A p \in K : p \in Nat /\ p > Newest /\ p < packet
             /\ IsFiniteSet(K)
<1> DEFINE K == Skipped(packet)
           C == IF Cardinality(K) > CountedGap THEN {} ELSE K
           n == IF packet > Newest THEN packet ELSE Newest
           gap == packet - Newest - 1
           counted == account'.lost - account.lost
           said == packet - counted .. packet - 1
<1> SUFFICES /\ account' \in [expected : Int, received : Nat, lost : Nat] /\ mock' \in [last : Int, lost : Nat]
             /\ account'.received = account.received + 1
             /\ account'.expected = Seq16(n + 1) /\ mock'.last = Seq16(n)
             /\ account'.lost = account.lost + Cardinality(C) /\ mock'.lost = mock.lost + Cardinality(K)
             /\ charged' = [lost |-> charged.lost \cup C, wide |-> charged.wide \cup (K \ C),
                            wrong |-> charged.wrong \cup (C \cap (charged.lost \cup arrived.once))]
             /\ Newest \in Int /\ \A p \in K : p \in Nat /\ p > Newest /\ p < packet
             /\ IsFiniteSet(K)
  OBVIOUS
<1>0. packet .. packet - 1 = {}
  OBVIOUS
<1>1. /\ account \in [expected : Int, received : Nat, lost : Nat] /\ mock \in [last : Int, lost : Nat]
      /\ arrived.once \in SUBSET Nat
  BY DEF LossInv, LinkTyped
<1>2. account' = Account(account, Seq16(packet)) /\ mock' = CountRtpGap(mock, Seq16(packet))
  BY DEF VideoArrives
<1>3. charged' = [lost |-> charged.lost \cup said,
                  wide |-> charged.wide \cup (IF Cardinality(K) > CountedGap THEN K ELSE {}),
                  wrong |-> charged.wrong \cup (said \cap (charged.lost \cup arrived.once))]
  BY DEF VideoArrives, Charge, Skipped
<1>4. Cardinality({}) = 0 /\ IsFiniteSet({})
  BY FS_EmptySet
<1>5. ASSUME said = C
      PROVE  charged' = [lost |-> charged.lost \cup C, wide |-> charged.wide \cup (K \ C),
                         wrong |-> charged.wrong \cup (C \cap (charged.lost \cup arrived.once))]
  <2>1. K \ C = IF Cardinality(K) > CountedGap THEN K ELSE {}
    OBVIOUS
  <2> HIDE DEF said, K, C
  <2> QED
    BY <1>3, <1>5, <2>1
<1>6. CountedGap \in Nat /\ SeqSpace \in Nat \ {0, 1} /\ SeqSpace \div 2 \in Nat \ {0}
  BY LinkBounds
<1>7. CASE arrived.once = {}
  <2>1. Newest = -1 /\ account.expected = NoSeq /\ mock.last = NoSeq
    BY <1>7 DEF LossInv, NothingYet, Newest
  <2>2. K = {} /\ C = {} /\ n = packet
    <3>1. K = {}
      BY <2>1 DEF Skipped
    <3>2. n = packet
      BY <2>1
    <3> QED
      BY <3>1, <3>2
  <2>3. Seq16(packet) \in 0 .. SeqSpace - 1 /\ Seq16(packet + 1) \in 0 .. SeqSpace - 1
    BY <1>6, Divides DEF Seq16
  <2>4. Seq16(Seq16(packet) + 1) = Seq16(packet + 1)
    BY SeqNext
  <2> DEFINE s == Seq16(packet)
             x == Seq16(packet + 1)
             r == account.received + 1
  <2>5. account' = [account EXCEPT !.received = r, !.expected = x]
    BY <1>2, <2>1, <2>4 DEF Account
  <2>6. mock' = [last |-> s, lost |-> mock.lost + 0]
    <3>1. ~(0 >= SeqSpace \div 2)
      BY <1>6
    <3> QED
      BY <1>2, <2>1, <3>1 DEF CountRtpGap
  <2>7. s \in Int /\ x \in Int /\ r \in Nat /\ mock.lost \in Nat /\ mock.lost + 0 = mock.lost
    BY <1>1, <2>3
  <2> HIDE DEF s, x, r
  <2>8. account' \in [expected : Int, received : Nat, lost : Nat] /\ account'.received = r
        /\ account'.expected = x /\ account'.lost = account.lost
    BY <1>1, <2>5, <2>7
  <2>9. mock' \in [last : Int, lost : Nat] /\ mock'.last = s /\ mock'.lost = mock.lost
    BY <2>6, <2>7
  <2>10. account.lost + Cardinality(C) = account.lost /\ mock.lost + Cardinality(K) = mock.lost
    <3>1. account.lost \in Nat
      BY <1>1
    <3> QED
      BY <1>4, <2>2, <2>7, <3>1
  <2>11. said = C
    <3>1. counted = 0
      BY <1>1, <2>8
    <3>2. said = packet .. packet - 1
      BY <3>1
    <3> QED
      BY <1>0, <2>2, <3>2
  <2> HIDE DEF K, C, n, said
  <2> QED
    BY <1>4, <1>5, <2>1, <2>2, <2>8, <2>9, <2>10, <2>11 DEF s, x, r
<1>8. CASE arrived.once # {}
  <2>1. /\ Newest \in Nat /\ account.expected = Seq16(Newest + 1) /\ mock.last = Seq16(Newest)
        /\ Newest - SeqSpace \div 2 < packet /\ packet <= Newest + SeqSpace \div 2
    BY <1>1, <1>8 DEF LossInv, CountsAtNewest, VideoArrives
  <2> HIDE DEF n
  <2>2. /\ account' \in [expected : Int, received : Nat, lost : Nat] /\ mock' \in [last : Int, lost : Nat]
        /\ account'.received = account.received + 1
        /\ packet <= Newest => account'.expected = account.expected /\ account'.lost = account.lost /\ mock' = mock
        /\ packet > Newest =>
             /\ account'.expected = Seq16(packet + 1) /\ mock'.last = Seq16(packet)
             /\ account'.lost = account.lost + (IF gap <= CountedGap THEN gap ELSE 0)
             /\ mock'.lost = mock.lost + gap
    <3> HIDE DEF K, C, said, counted
    <3> QED
      BY <1>1, <1>2, <2>1, PacketAccounted
  <2>3. K = Newest + 1 .. packet - 1
    BY <2>1 DEF Skipped
  <2>4. /\ IsFiniteSet(K)
        /\ packet > Newest => Cardinality(K) = gap /\ gap \in Nat
        /\ packet <= Newest => K = {} /\ Cardinality(K) = 0
    <3>1. Newest + 1 \in Int /\ packet - 1 \in Int
      BY <2>1
    <3>2. /\ IsFiniteSet(K)
          /\ packet - 1 >= (Newest + 1) - 1 => Cardinality(K) = (packet - 1) - (Newest + 1) + 1
          /\ packet - 1 < Newest + 1 => Cardinality(K) = 0 /\ K = {}
      BY <2>3, <3>1, Interval
    <3> HIDE DEF K
    <3> QED
      BY <2>1, <3>2
  <2>5. \A p \in K : p \in Nat /\ p > Newest /\ p < packet
    BY <2>1, <2>3
  <2>6. CASE packet <= Newest
    <3>1. K = {} /\ C = {} /\ Cardinality(K) = 0 /\ Cardinality(C) = 0
      <4>1. K = {} /\ Cardinality(K) = 0
        BY <2>4, <2>6
      <4>2. C = {}
        BY <4>1
      <4> QED
        BY <1>4, <4>1, <4>2
    <3>2. n = Newest
      BY <2>1, <2>6 DEF n
    <3>3. account.lost \in Nat /\ mock.lost \in Nat
      BY <1>1
    <3>4. said = C
      <4>1. counted = 0
        BY <2>2, <2>6, <3>3
      <4>2. said = packet .. packet - 1
        BY <4>1
      <4> QED
        BY <1>0, <3>1, <4>2
    <3> HIDE DEF K, C, said, counted
    <3>5. account'.lost = account.lost + Cardinality(C) /\ mock'.lost = mock.lost + Cardinality(K)
      BY <2>2, <2>6, <3>1, <3>3
    <3>6. account'.expected = Seq16(n + 1) /\ mock'.last = Seq16(n)
      BY <2>1, <2>2, <2>6, <3>2
    <3> QED
      BY <1>5, <2>1, <2>2, <2>4, <2>5, <3>4, <3>5, <3>6
  <2>7. CASE packet > Newest
    <3>1. Cardinality(K) = gap /\ gap \in Nat
      BY <2>4, <2>7
    <3>2. n = packet
      BY <2>7 DEF n
    <3>3. account.lost \in Nat /\ mock.lost \in Nat
      BY <1>1
    <3>4. Cardinality(C) = (IF gap <= CountedGap THEN gap ELSE 0)
      <4>1. CASE gap <= CountedGap
        <5>1. ~(Cardinality(K) > CountedGap)
          BY <1>6, <3>1, <4>1
        <5>2. C = K
          BY <5>1
        <5> HIDE DEF C, K, gap
        <5> QED
          BY <3>1, <4>1, <5>2
      <4>2. CASE ~(gap <= CountedGap)
        <5>1. Cardinality(K) > CountedGap
          BY <1>6, <3>1, <4>2
        <5>2. C = {}
          BY <5>1
        <5> HIDE DEF C, K, gap
        <5> QED
          BY <1>4, <4>2, <5>2
      <4> QED
        BY <4>1, <4>2
    <3>5. account'.lost = account.lost + Cardinality(C) /\ mock'.lost = mock.lost + Cardinality(K)
      <4> HIDE DEF C, K, gap
      <4> QED
        BY <2>2, <2>7, <3>1, <3>4
    <3>6. said = C
      <4>1. CASE gap <= CountedGap
        <5>1. ~(Cardinality(K) > CountedGap)
          BY <1>6, <3>1, <4>1
        <5>2. C = K
          BY <5>1
        <5>3. account'.lost = account.lost + gap
          BY <2>2, <2>7, <4>1
        <5>4. counted = gap
          <6> DEFINE l == account'.lost
                     g == gap
          <6>1. l = account.lost + g /\ g \in Nat
            BY <3>1, <5>3
          <6> HIDE DEF l, g
          <6>2. l - account.lost = g
            BY <3>3, <6>1
          <6> QED
            BY <6>2 DEF l, g
        <5>5. packet - counted = Newest + 1
          BY <2>1, <5>4
        <5> QED
          BY <2>3, <5>2, <5>5
      <4>2. CASE ~(gap <= CountedGap)
        <5>1. Cardinality(K) > CountedGap
          BY <1>6, <3>1, <4>2
        <5>2. C = {}
          BY <5>1
        <5>3. account'.lost = account.lost + 0
          BY <2>2, <2>7, <4>2
        <5>4. counted = 0
          BY <3>3, <5>3
        <5>5. said = packet .. packet - 1
          BY <5>4
        <5> QED
          BY <1>0, <5>2, <5>5
      <4> QED
        BY <4>1, <4>2
    <3>7. account'.expected = Seq16(n + 1) /\ mock'.last = Seq16(n)
      BY <2>2, <2>7, <3>2
    <3> HIDE DEF K, C, said, counted, gap
    <3> QED
      BY <1>5, <2>1, <2>2, <2>4, <2>5, <3>5, <3>6, <3>7
  <2> QED
    BY <2>1, <2>6, <2>7
<1> QED
  BY <1>7, <1>8

LEMMA ArrivalKeepsCounts ==
  ASSUME LossInv, NEW packet \in Nat, VideoArrives(packet)
  PROVE  LossInv'
<1> DEFINE K == Skipped(packet)
           C == IF Cardinality(K) > CountedGap THEN {} ELSE K
           n == IF packet > Newest THEN packet ELSE Newest
           O == arrived.once
           L == charged.lost
           W == charged.wide
<1>1. /\ account' \in [expected : Int, received : Nat, lost : Nat] /\ mock' \in [last : Int, lost : Nat]
      /\ account'.received = account.received + 1
      /\ account'.expected = Seq16(n + 1) /\ mock'.last = Seq16(n)
      /\ account'.lost = account.lost + Cardinality(C) /\ mock'.lost = mock.lost + Cardinality(K)
      /\ charged' = [lost |-> L \cup C, wide |-> W \cup (K \ C), wrong |-> charged.wrong \cup (C \cap (L \cup O))]
      /\ Newest \in Int /\ \A p \in K : p \in Nat /\ p > Newest /\ p < packet
      /\ IsFiniteSet(K)
  BY ArrivalCharges
<1>2. /\ account \in [expected : Int, received : Nat, lost : Nat] /\ mock \in [last : Int, lost : Nat]
      /\ reports \in [taken : {NoSeq} \cup Nat, count : Nat, received : Nat, lost : Nat]
      /\ arrived \in [once : SUBSET Nat, first : Int, again : Nat] /\ IsFiniteSet(O)
      /\ charged \in [lost : SUBSET Nat, wide : SUBSET Nat, wrong : SUBSET Nat]
      /\ IsFiniteSet(L) /\ IsFiniteSet(W)
  BY DEF LossInv, LinkTyped
<1>3. /\ charged.wrong = {}
      /\ O # {} => arrived.first .. Newest \subseteq O \cup L \cup W
      /\ reports.lost + account.lost = Cardinality(L)
      /\ reports.received + account.received + (IF reports.taken = NoSeq THEN 0 ELSE reports.taken)
           = Cardinality(O) + arrived.again
      /\ mock.lost = Cardinality(L \cup W)
  BY DEF LossInv, LossesCountedOnce
<1>4. /\ reports' = reports
      /\ arrived' = IF packet \in O THEN [arrived EXCEPT !.again = @ + 1]
                    ELSE [arrived EXCEPT !.once = @ \cup {packet}, !.first = IF @ = NoSeq THEN packet ELSE @]
  BY DEF VideoArrives
<1>5. \A p \in O \cup L \cup W : p \in Int /\ p <= Newest
  BY <1>2 DEF LossInv, NothingYet, CountsAtNewest
<1>6. (O \cup L \cup W) \cap K = {}
  <2> SUFFICES ASSUME NEW p \in (O \cup L \cup W) \cap K PROVE FALSE
    OBVIOUS
  <2>1. p \in Int /\ p <= Newest /\ p > Newest
    BY <1>1, <1>5
  <2> QED
    BY <1>1, <2>1
<1>7. /\ O = {} => arrived.first = NoSeq
      /\ O # {} => arrived.first # NoSeq /\ Newest \in O
  BY DEF LossInv, NothingYet, CountsAtNewest
<1>8. packet # NoSeq
  BY DEF NoSeq
<1>9. /\ C \subseteq K /\ IsFiniteSet(C)
  <2>1. C \subseteq K
    OBVIOUS
  <2> QED
    BY <1>1, <2>1, FS_Subset
<1>10. O # {} => \A p \in Int : p > Newest /\ p < packet => p \in K
  BY <1>2, <1>7 DEF Skipped
<1> HIDE DEF K, C
<1>11. /\ arrived' \in [once : SUBSET Nat, first : Int, again : Nat]
       /\ arrived'.once = O \cup {packet}
       /\ arrived'.first = IF O = {} THEN packet ELSE arrived.first
       /\ packet \in O => arrived'.again = arrived.again + 1
       /\ packet \notin O => arrived'.again = arrived.again
  <2>1. CASE packet \in O
    <3>1. O # {}
      BY <2>1
    <3>2. arrived' = [arrived EXCEPT !.again = arrived.again + 1]
      BY <1>4, <2>1
    <3> DEFINE g == arrived.again + 1
    <3>3. g \in Nat
      BY <1>2
    <3> HIDE DEF g
    <3>4. arrived' = [arrived EXCEPT !.again = g]
      BY <3>2 DEF g
    <3>5. arrived' \in [once : SUBSET Nat, first : Int, again : Nat] /\ arrived'.once = O
          /\ arrived'.first = arrived.first /\ arrived'.again = g
      BY <1>2, <3>3, <3>4
    <3> QED
      BY <2>1, <3>1, <3>5 DEF g
  <2>2. CASE packet \notin O
    <3> DEFINE f == IF arrived.first = NoSeq THEN packet ELSE arrived.first
               o == O \cup {packet}
    <3>1. arrived' = [arrived EXCEPT !.once = o, !.first = f]
      BY <1>4, <2>2
    <3>2. f \in Int /\ o \in SUBSET Nat /\ f = IF O = {} THEN packet ELSE arrived.first
      BY <1>2, <1>7
    <3> HIDE DEF f, o
    <3>3. arrived' \in [once : SUBSET Nat, first : Int, again : Nat] /\ arrived'.once = o
          /\ arrived'.first = f /\ arrived'.again = arrived.again
      BY <1>2, <3>1, <3>2
    <3> QED
      BY <2>2, <3>2, <3>3 DEF o
  <2> QED
    BY <2>1, <2>2
<1>12. /\ IsFiniteSet(O \cup {packet})
       /\ packet \notin O => Cardinality(O \cup {packet}) = Cardinality(O) + 1
       /\ packet \in O => O \cup {packet} = O
       /\ Cardinality(O) \in Nat
  <2>1. /\ IsFiniteSet(O \cup {packet})
        /\ Cardinality(O \cup {packet}) = IF packet \in O THEN Cardinality(O) ELSE Cardinality(O) + 1
    BY <1>2, FS_AddElement
  <2>2. Cardinality(O) \in Nat
    BY <1>2, FS_CardinalityType
  <2> QED
    BY <2>1, <2>2
<1>13. /\ charged' \in [lost : SUBSET Nat, wide : SUBSET Nat, wrong : SUBSET Nat]
       /\ charged'.lost = L \cup C /\ charged'.wide = W \cup (K \ C) /\ charged'.wrong = {}
       /\ charged'.lost \cup charged'.wide = L \cup W \cup K
  <2>1. C \cap (L \cup O) = {}
    BY <1>6, <1>9
  <2>2. charged' = [lost |-> L \cup C, wide |-> W \cup (K \ C), wrong |-> {}]
    BY <1>1, <1>3, <2>1
  <2>3. L \cup C \in SUBSET Nat /\ W \cup (K \ C) \in SUBSET Nat
    BY <1>1, <1>2, <1>9
  <2> QED
    BY <1>9, <2>2, <2>3
<1>14. /\ IsFiniteSet(L \cup C) /\ IsFiniteSet(W \cup (K \ C))
       /\ Cardinality(L \cup C) = Cardinality(L) + Cardinality(C)
       /\ Cardinality(L \cup W \cup K) = Cardinality(L \cup W) + Cardinality(K)
       /\ Cardinality(C) \in Nat /\ Cardinality(K) \in Nat
  <2>1. L \cap C = {} /\ (L \cup W) \cap K = {}
    BY <1>6, <1>9
  <2>2. IsFiniteSet(K \ C)
    BY <1>1, FS_Difference
  <2>3. IsFiniteSet(L \cup W)
    BY <1>2, FS_Union
  <2>4. Cardinality({}) = 0
    BY FS_EmptySet
  <2>5. IsFiniteSet(L \cup C) /\ Cardinality(L \cup C) = Cardinality(L) + Cardinality(C) - Cardinality(L \cap C)
    BY <1>2, <1>9, FS_Union
  <2>6. Cardinality((L \cup W) \cup K) = Cardinality(L \cup W) + Cardinality(K) - Cardinality((L \cup W) \cap K)
    BY <1>1, <2>3, FS_Union
  <2>7. IsFiniteSet(W \cup (K \ C))
    BY <1>2, <2>2, FS_Union
  <2>8. /\ Cardinality(L) \in Nat /\ Cardinality(C) \in Nat /\ Cardinality(K) \in Nat
        /\ Cardinality(L \cup W) \in Nat
    BY <1>1, <1>2, <1>9, <2>3, FS_CardinalityType
  <2>9. Cardinality(L \cup C) = Cardinality(L) + Cardinality(C)
    <3>1. Cardinality(L \cap C) = 0
      BY <2>1, <2>4
    <3> QED
      BY <2>5, <2>8, <3>1
  <2>10. Cardinality((L \cup W) \cup K) = Cardinality(L \cup W) + Cardinality(K)
    <3>1. Cardinality((L \cup W) \cap K) = 0
      BY <2>1, <2>4
    <3> QED
      BY <2>6, <2>8, <3>1
  <2> QED
    BY <2>5, <2>7, <2>8, <2>9, <2>10
<1>15. n \in O \cup {packet} /\ \A q \in O \cup {packet} : q <= n
  <2>1. /\ Newest \in Int /\ packet \in Int /\ n \in {packet, Newest} /\ packet <= n /\ Newest <= n
    BY <1>1
  <2>2. O = {} => n = packet
    <3>1. O = {} => Newest = -1
      BY DEF Newest
    <3> QED
      BY <3>1
  <2>3. \A q \in O : q \in Int /\ q <= Newest
    BY <1>5
  <2> HIDE DEF O, n
  <2>4. n \in O \cup {packet}
    BY <1>7, <2>1, <2>2
  <2>5. \A q \in O \cup {packet} : q <= n
    BY <2>1, <2>3
  <2> QED
    BY <2>4, <2>5
<1>16. Newest' = n
  <2>1. O \cup {packet} \in SUBSET Int /\ O \cup {packet} # {}
    BY <1>2
  <2> DEFINE S == O \cup {packet}
  <2> HIDE DEF S, n
  <2>2. (CHOOSE p \in S : \A q \in S : q <= p) = n
    BY <1>15, <2>1, GreatestIs DEF S
  <2>3. Newest' = CHOOSE p \in S : \A q \in S : q <= p
    BY <1>11, <2>1 DEF Newest, S
  <2> QED
    BY <2>2, <2>3
<1>17. LinkTyped'
  BY <1>1, <1>2, <1>4, <1>11, <1>12, <1>13, <1>14 DEF LinkTyped
<1>18. NothingYet'
  BY <1>11 DEF NothingYet
<1>19. CountsAtNewest'
  <2>1. arrived'.first # NoSeq
    BY <1>7, <1>8, <1>11
  <2>2. \A p \in L \cup W \cup K : p <= n
    <3> SUFFICES ASSUME NEW p \in L \cup W \cup K PROVE p <= n
      OBVIOUS
    <3>1. CASE p \in K
      BY <1>1, <3>1
    <3>2. CASE p \in L \cup W
      BY <1>1, <1>5, <3>2
    <3> QED
      BY <3>1, <3>2
  <2> HIDE DEF n
  <2> QED
    BY <1>1, <1>11, <1>13, <1>15, <1>16, <2>1, <2>2 DEF CountsAtNewest
<1>20. LossesCountedOnce'
  <2>1. arrived'.first .. n \subseteq (O \cup {packet}) \cup (L \cup W \cup K)
    <3> SUFFICES ASSUME NEW p \in arrived'.first .. n
                 PROVE  p \in (O \cup {packet}) \cup (L \cup W \cup K)
      OBVIOUS
    <3>1. CASE O = {}
      <4>1. Newest = -1
        BY <3>1 DEF Newest
      <4>2. arrived'.first = packet /\ n = packet
        BY <1>11, <3>1, <4>1
      <4> QED
        BY <4>2
    <3>2. CASE O # {}
      <4>1. arrived'.first = arrived.first /\ arrived.first \in Int /\ p \in Int /\ p >= arrived.first /\ p <= n
        BY <1>1, <1>2, <1>11, <3>2
      <4>2. CASE p <= Newest
        BY <1>1, <1>3, <3>2, <4>1, <4>2
      <4>3. CASE p > Newest
        <5>1. n = packet
          BY <1>1, <4>1, <4>3
        <5>2. p = packet \/ p < packet
          BY <4>1, <5>1
        <5> QED
          BY <1>10, <3>2, <4>1, <4>3, <5>2
      <4> QED
        BY <1>1, <4>1, <4>2, <4>3
    <3> QED
      BY <3>1, <3>2
  <2>2. charged'.lost \cup charged'.wide = L \cup W \cup K
    BY <1>13
  <2>3. arrived'.first .. Newest' \subseteq arrived'.once \cup charged'.lost \cup charged'.wide
    <3> HIDE DEF n
    <3> QED
      BY <1>11, <1>16, <2>1, <2>2
  <2>4. reports'.lost + account'.lost = Cardinality(charged'.lost)
    <3>1. reports.lost \in Nat /\ account.lost \in Nat
      BY <1>2
    <3>2. reports.lost + (account.lost + Cardinality(C)) = Cardinality(L) + Cardinality(C)
      BY <1>3, <1>14, <3>1
    <3> QED
      BY <1>1, <1>4, <1>13, <1>14, <3>2
  <2>5. reports'.received + account'.received + (IF reports'.taken = NoSeq THEN 0 ELSE reports'.taken)
          = Cardinality(arrived'.once) + arrived'.again
    <3> DEFINE t == IF reports.taken = NoSeq THEN 0 ELSE reports.taken
    <3>1. reports.received \in Nat /\ account.received \in Nat /\ t \in Nat /\ arrived.again \in Nat
          /\ Cardinality(O) \in Nat
      BY <1>2, <1>12
    <3>2. reports.received + account.received + t = Cardinality(O) + arrived.again
      BY <1>3
    <3>3. Cardinality(arrived'.once) + arrived'.again = Cardinality(O) + arrived.again + 1
      <4> HIDE DEF t
      <4>1. CASE packet \in O
        <5>1. arrived'.once = O /\ arrived'.again = arrived.again + 1
          BY <1>11, <1>12, <4>1
        <5> QED
          BY <3>1, <5>1
      <4>2. CASE packet \notin O
        <5>1. Cardinality(arrived'.once) = Cardinality(O) + 1 /\ arrived'.again = arrived.again
          BY <1>11, <1>12, <4>2
        <5> QED
          BY <3>1, <5>1
      <4> QED
        BY <4>1, <4>2
    <3> HIDE DEF t
    <3>4. reports.received + (account.received + 1) + t = Cardinality(O) + arrived.again + 1
      BY <3>1, <3>2
    <3> QED
      BY <1>1, <1>4, <3>3, <3>4 DEF t
  <2>6. mock'.lost = Cardinality(charged'.lost \cup charged'.wide)
    BY <1>1, <1>3, <1>14, <2>2
  <2> QED
    BY <1>13, <2>3, <2>4, <2>5, <2>6 DEF LossesCountedOnce
<1> QED
  BY <1>17, <1>18, <1>19, <1>20 DEF LossInv

\* Losses are charged once each and to the packets that were skipped, by the headset and by the simulator, however
\* the sequence wraps, packets come late or twice, and snapshots are taken.
THEOREM LossesAlwaysCountedOnce == LinkSpec => []LossesCountedOnce
<1>1. LinkInit => LossInv
  <2> SUFFICES ASSUME LinkInit PROVE LossInv
    OBVIOUS
  <2>1. IsFiniteSet({}) /\ Cardinality({}) = 0
    BY FS_EmptySet
  <2>2. account = [expected |-> NoSeq, received |-> 0, lost |-> 0] /\ NoSeq \in Int
        /\ reports = [taken |-> NoSeq, count |-> 0, received |-> 0, lost |-> 0]
        /\ mock = [last |-> NoSeq, lost |-> 0]
        /\ arrived = [once |-> {}, first |-> NoSeq, again |-> 0]
        /\ charged = [lost |-> {}, wide |-> {}, wrong |-> {}]
    BY DEF LinkInit, NoSeq
  <2>3. LinkTyped
    BY <2>1, <2>2 DEF LinkTyped
  <2>4. NothingYet /\ CountsAtNewest
    BY <2>2 DEF NothingYet, CountsAtNewest
  <2>5. LossesCountedOnce
    BY <2>1, <2>2 DEF LossesCountedOnce
  <2> QED
    BY <2>3, <2>4, <2>5 DEF LossInv
<1>2. LossInv /\ [LinkNext]_linkVars => LossInv'
  <2> SUFFICES ASSUME LossInv, [LinkNext]_linkVars PROVE LossInv'
    OBVIOUS
  <2> USE DEF LossInv, LinkTyped, NothingYet, CountsAtNewest, LossesCountedOnce, Newest
  <2>1. CASE UNCHANGED linkVars
    BY <2>1 DEF linkVars
  <2>2. CASE SendVideo
    BY <2>2 DEF SendVideo
  <2>3. ASSUME NEW packet \in 0 .. MaxSentPackets - 1, VideoArrives(packet) PROVE LossInv'
    <3>1. packet \in Nat
      BY LinkAssumption DEF LinkAssumption
    <3> QED
      BY <2>3, <3>1, ArrivalKeepsCounts
  <2>4. CASE TakeReceived
    <3>1. /\ reports' = [reports EXCEPT !.taken = account.received] /\ reports.taken = NoSeq
          /\ account' = [account EXCEPT !.received = 0]
          /\ UNCHANGED <<mock, arrived, charged>>
      BY <2>4 DEF TakeReceived
    <3>2. account.received \in Nat /\ account.received # NoSeq
      BY DEF NoSeq
    <3>3. /\ reports' \in [taken : {NoSeq} \cup Nat, count : Nat, received : Nat, lost : Nat]
          /\ reports'.taken = account.received /\ reports'.received = reports.received /\ reports'.lost = reports.lost
      BY <3>1, <3>2
    <3>4. /\ account' \in [expected : Int, received : Nat, lost : Nat] /\ account'.expected = account.expected
          /\ account'.received = 0 /\ account'.lost = account.lost
      BY <3>1
    <3>5. reports.received + 0 + account.received = reports.received + account.received + 0
      OBVIOUS
    <3> QED
      BY <3>1, <3>2, <3>3, <3>4, <3>5
  <2>5. CASE TakeLost
    <3>1. /\ reports' = [taken |-> NoSeq, count |-> reports.count + 1, received |-> reports.received + reports.taken,
                         lost |-> reports.lost + account.lost]
          /\ reports.taken # NoSeq
          /\ account' = [account EXCEPT !.lost = 0]
          /\ UNCHANGED <<mock, arrived, charged>>
      BY <2>5 DEF TakeLost
    <3>2. reports.taken \in Nat /\ reports.received \in Nat /\ reports.lost \in Nat /\ account.lost \in Nat
          /\ account.received \in Nat /\ reports.count \in Nat
      BY <3>1
    <3>3. /\ reports' \in [taken : {NoSeq} \cup Nat, count : Nat, received : Nat, lost : Nat]
          /\ reports'.taken = NoSeq /\ reports'.received = reports.received + reports.taken
          /\ reports'.lost = reports.lost + account.lost
      BY <3>1, <3>2
    <3>4. /\ account' \in [expected : Int, received : Nat, lost : Nat] /\ account'.expected = account.expected
          /\ account'.received = account.received /\ account'.lost = 0
      BY <3>1
    <3>5. /\ (reports.received + reports.taken) + account.received + 0
             = reports.received + account.received + reports.taken
          /\ (reports.lost + account.lost) + 0 = reports.lost + account.lost
      BY <3>2
    <3> QED
      BY <3>1, <3>2, <3>3, <3>4, <3>5
  <2> QED
    BY <2>1, <2>2, <2>3, <2>4, <2>5 DEF LinkNext
<1>3. LossInv => LossesCountedOnce
  BY DEF LossInv
<1> QED
  BY <1>1, <1>2, <1>3, PTL DEF LinkSpec

-----------------------------------------------------------------------------
(* The send-time log. Its packets' frames are a history the log forgets:     *)
(* frame[p] is the frame packet p went out in, and for packets to come the   *)
(* next one.                                                                 *)
Largest == CHOOSE n \in FrameSizes : \A m \in FrameSizes : m <= n

FramesInOrder(frame, packets, frames) ==
  /\ \A p, q \in Nat : p <= q => frame[p] <= frame[q]
  /\ \A p \in Nat : IF p < packets THEN frame[p] < frames ELSE frame[p] = frames
  /\ \A p, q \in Nat : p <= q /\ q < packets /\ frame[p] = frame[q] => q - p < Largest

\* Each entry is of a packet with its number, and the recent packets have theirs.
LogHolds(log, frame, packets) ==
  /\ DOMAIN log \subseteq 0 .. SeqSpace - 1
  /\ \A s \in DOMAIN log : \E p \in 0 .. packets - 1 : Seq16(p) = s /\ log[s] = frame[p]
  /\ \A p \in 0 .. packets - 1 : p >= packets - LogKeep + Largest - 1 =>
       Seq16(p) \in DOMAIN log /\ log[Seq16(p)] = frame[p]

SentInv ==
  /\ sender.packets \in Nat /\ sender.frames \in Nat
  /\ \E frame \in [Nat -> Nat] :
       /\ FramesInOrder(frame, sender.packets, sender.frames)
       /\ LogHolds(sender.log, frame, sender.packets)

LEMMA LargestIs == Largest \in Nat \ {0} /\ \A m \in FrameSizes : m \in Nat \ {0} /\ m <= Largest
<1>1. \E n \in FrameSizes : \A m \in FrameSizes : m <= n
  BY LinkAssumption DEF LinkAssumption
<1>2. FrameSizes \subseteq Nat \ {0}
  BY LinkAssumption DEF LinkAssumption
<1> QED
  BY <1>1, <1>2 DEF Largest

\* Numbers repeat after the whole sequence space, and not before.
LEMMA NumbersApart ==
  ASSUME NEW m \in Nat, NEW n \in Nat, m < n, n - m < SeqSpace
  PROVE  Seq16(m) # Seq16(n)
<1> SUFFICES ASSUME Seq16(m) = Seq16(n) PROVE FALSE
  OBVIOUS
<1>1. SeqSpace \in Nat \ {0}
  BY LinkBounds
<1>2. n - m - 0 \in 0 .. SeqSpace - 1 /\ n - m - 0 # 0
  BY <1>1
<1>3. ((n % SeqSpace) - (m % SeqSpace) - 0) % SeqSpace = n - m - 0
  BY <1>2, Wrapped
<1>4. n % SeqSpace \in Int /\ n % SeqSpace = m % SeqSpace
  BY <1>1, Divides DEF Seq16
<1>5. (n % SeqSpace) - (m % SeqSpace) - 0 = 0
  BY <1>4
<1>6. 0 % SeqSpace = 0
  BY <1>1
<1> QED
  BY <1>2, <1>3, <1>5, <1>6

\* record_send_timestamps() of the frame's packets.
\* The packets of a frame of n that starts at `packets`, by number, and the history when they are sent.
Numbers(packets, n) == {Seq16(p) : p \in packets .. packets + n - 1}

WithFrame(frame, packets, frames) == [p \in Nat |-> IF p < packets THEN frame[p] ELSE frames]

LEMMA StampsHold ==
  ASSUME NEW packets \in Nat, NEW frames \in Nat, NEW frame \in [Nat -> Nat], NEW log, NEW n \in FrameSizes,
         FramesInOrder(frame, packets, frames), LogHolds(log, frame, packets)
  PROVE  LET next == WithFrame(frame, packets + n, frames + 1)
         IN  /\ next \in [Nat -> Nat]
             /\ FramesInOrder(next, packets + n, frames + 1)
             /\ LogHolds(Stamped(log, Numbers(packets, n), frames), next, packets + n)
<1> DEFINE sent == packets .. packets + n - 1
           seqs == Numbers(packets, n)
           next == WithFrame(frame, packets + n, frames + 1)
           new == Stamped(log, seqs, frames)
<1>1. n \in Nat \ {0} /\ n <= Largest /\ Largest \in Nat
  BY LargestIs
<1>2. next \in [Nat -> Nat] /\ \A p \in Nat : next[p] = IF p < packets + n THEN frame[p] ELSE frames + 1
  <2>1. next = [p \in Nat |-> IF p < packets + n THEN frame[p] ELSE frames + 1]
    BY DEF WithFrame
  <2> HIDE DEF next
  <2> QED
    BY <2>1
<1>0. seqs = {Seq16(p) : p \in sent}
  BY DEF Numbers
<1> HIDE DEF next, seqs
<1>3. /\ \A p, q \in Nat : p <= q => frame[p] <= frame[q]
      /\ \A p \in Nat : IF p < packets THEN frame[p] < frames ELSE frame[p] = frames
      /\ \A p, q \in Nat : p <= q /\ q < packets /\ frame[p] = frame[q] => q - p < Largest
      /\ \A p \in Nat : frame[p] \in Nat
  BY DEF FramesInOrder
<1>4. /\ DOMAIN log \subseteq 0 .. SeqSpace - 1
      /\ \A s \in DOMAIN log : \E p \in 0 .. packets - 1 : Seq16(p) = s /\ log[s] = frame[p]
      /\ \A p \in 0 .. packets - 1 : p >= packets - LogKeep + Largest - 1 =>
           Seq16(p) \in DOMAIN log /\ log[Seq16(p)] = frame[p]
  BY DEF LogHolds
<1>5. FramesInOrder(next, packets + n, frames + 1)
  <2>1. \A p, q \in Nat : p <= q => next[p] <= next[q]
    <3> SUFFICES ASSUME NEW p \in Nat, NEW q \in Nat, p <= q PROVE next[p] <= next[q]
      OBVIOUS
    <3>1. frame[p] <= frame[q] /\ frame[p] \in Nat /\ frame[q] \in Nat /\ frame[p] <= frames
      BY <1>3
    <3> QED
      BY <1>1, <1>2, <3>1
  <2>2. \A p \in Nat : IF p < packets + n THEN next[p] < frames + 1 ELSE next[p] = frames + 1
    <3> SUFFICES ASSUME NEW p \in Nat
                 PROVE  IF p < packets + n THEN next[p] < frames + 1 ELSE next[p] = frames + 1
      OBVIOUS
    <3>1. frame[p] \in Nat /\ frame[p] <= frames
      BY <1>3
    <3> QED
      BY <1>1, <1>2, <3>1
  <2>3. \A p, q \in Nat : p <= q /\ q < packets + n /\ next[p] = next[q] => q - p < Largest
    <3> SUFFICES ASSUME NEW p \in Nat, NEW q \in Nat, p <= q, q < packets + n, next[p] = next[q]
                 PROVE  q - p < Largest
      OBVIOUS
    <3>1. frame[p] = frame[q]
      BY <1>1, <1>2
    <3>2. CASE q < packets
      BY <1>3, <3>1, <3>2
    <3>3. CASE q >= packets
      <4>1. ~(p < packets)
        BY <1>3, <3>1, <3>3
      <4> QED
        BY <1>1, <4>1
    <3> QED
      BY <3>2, <3>3
  <2> QED
    BY <2>1, <2>2, <2>3 DEF FramesInOrder
<1>6. /\ DOMAIN new = DOMAIN log \cup seqs
      /\ \A s \in DOMAIN log \cup seqs : new[s] = IF s \in seqs THEN frames ELSE log[s]
  BY DEF Stamped
<1>7. \A p \in sent : p \in Nat /\ next[p] = frames /\ p < packets + n
  <2> TAKE p \in sent
  <2>1. p \in Nat /\ p < packets + n /\ ~(p < packets)
    BY <1>1
  <2> QED
    BY <1>2, <1>3, <2>1
<1> HIDE DEF new, next, seqs
<1>8. LogHolds(new, next, packets + n)
  <2>1. seqs \subseteq 0 .. SeqSpace - 1
    <3> SUFFICES ASSUME NEW p \in sent PROVE Seq16(p) \in 0 .. SeqSpace - 1
      BY <1>0
    <3>1. p \in Nat /\ SeqSpace \in Nat \ {0}
      BY <1>7, LinkBounds
    <3> QED
      BY <3>1, Divides DEF Seq16
  <2>2. ASSUME NEW s \in DOMAIN new
        PROVE  \E p \in 0 .. (packets + n) - 1 : Seq16(p) = s /\ new[s] = next[p]
    <3>1. CASE s \in seqs
      <4>1. PICK p \in sent : Seq16(p) = s
        BY <1>0, <3>1
      <4>2. new[s] = frames /\ next[p] = frames
        BY <1>6, <1>7, <3>1
      <4>3. p \in 0 .. (packets + n) - 1
        BY <1>1
      <4> QED
        BY <4>1, <4>2, <4>3
    <3>2. CASE s \notin seqs
      <4>1. s \in DOMAIN log /\ new[s] = log[s]
        BY <1>6, <2>2, <3>2
      <4>2. PICK p \in 0 .. packets - 1 : Seq16(p) = s /\ log[s] = frame[p]
        BY <1>4, <4>1
      <4>3. p \in 0 .. (packets + n) - 1 /\ next[p] = frame[p]
        BY <1>1, <1>2
      <4> QED
        BY <4>1, <4>2, <4>3
    <3> QED
      BY <3>1, <3>2
  <2>3. ASSUME NEW p \in 0 .. (packets + n) - 1, p >= (packets + n) - LogKeep + Largest - 1
        PROVE  Seq16(p) \in DOMAIN new /\ new[Seq16(p)] = next[p]
    <3>1. CASE p >= packets
      <4>1. p \in sent
        BY <1>1, <3>1
      <4>2. Seq16(p) \in seqs
        BY <1>0, <4>1
      <4> HIDE DEF sent
      <4> QED
        BY <1>6, <1>7, <4>1, <4>2
    <3>2. CASE p < packets
      <4>1. LogKeep \in Nat /\ SeqSpace \in Nat /\ LogKeep <= SeqSpace
        BY LinkBounds
      <4>2. p \in 0 .. packets - 1 /\ p >= packets - LogKeep + Largest - 1
        BY <1>1, <2>3, <3>2, <4>1
      <4>3. Seq16(p) \in DOMAIN log /\ log[Seq16(p)] = frame[p]
        BY <1>4, <4>2
      <4>4. Seq16(p) \notin seqs
        <5> SUFFICES ASSUME NEW q \in sent, Seq16(p) = Seq16(q) PROVE FALSE
          BY <1>0
        <5>1. q \in Nat /\ p \in Nat /\ p < q /\ q - p < SeqSpace
          BY <1>1, <2>3, <3>2, <4>1
        <5> QED
          BY <5>1, NumbersApart
      <4>5. next[p] = frame[p]
        BY <1>1, <1>2
      <4> QED
        BY <1>6, <4>3, <4>4, <4>5
    <3> QED
      BY <3>1, <3>2
  <2>4. DOMAIN new \subseteq 0 .. SeqSpace - 1
    BY <1>4, <1>6, <2>1
  <2> HIDE DEF sent
  <2> QED
    BY <2>2, <2>3, <2>4, Zenon DEF LogHolds
<1> QED
  BY <1>2, <1>5, <1>8 DEF new, next, seqs

\* prune_sent_packet_log_if_due(): LogKeep entries as young as a recent packet's, of different packets, do not
\* fit between the first packet of its frame and the newest.
LEMMA PruneHolds ==
  ASSUME NEW packets \in Nat, NEW frames \in Nat, NEW frame \in [Nat -> Nat], NEW log, NEW round,
         FramesInOrder(frame, packets, frames), LogHolds(log, frame, packets), NEW kept \in Pruned(log, round)
  PROVE  LogHolds(kept, frame, packets)
<1>1. /\ DOMAIN log \subseteq 0 .. SeqSpace - 1
      /\ \A s \in DOMAIN log : \E p \in 0 .. packets - 1 : Seq16(p) = s /\ log[s] = frame[p]
      /\ \A p \in 0 .. packets - 1 : p >= packets - LogKeep + Largest - 1 =>
           Seq16(p) \in DOMAIN log /\ log[Seq16(p)] = frame[p]
  BY DEF LogHolds
<1>2. CASE kept = log
  BY <1>2
<1>3. CASE kept # log
  <2>1. PICK k \in SUBSET DOMAIN log :
          /\ Cardinality(k) = LogKeep
          /\ \A s \in k, t \in DOMAIN log \ k : log[s] >= log[t]
          /\ kept = [s \in k |-> log[s]]
    BY <1>3 DEF Pruned
  <2>2. DOMAIN kept = k /\ \A s \in k : kept[s] = log[s]
    BY <2>1
  <2>3. ASSUME NEW p \in 0 .. packets - 1, p >= packets - LogKeep + Largest - 1
        PROVE  Seq16(p) \in k
    <3> SUFFICES ASSUME Seq16(p) \notin k PROVE FALSE
      OBVIOUS
    <3> DEFINE first == p - Largest + 1
               around == first .. packets - 1
               others == around \ {p}
               Of(s) == CHOOSE q \in 0 .. packets - 1 : Seq16(q) = s /\ log[s] = frame[q]
               of == [s \in k |-> Of(s)]
    <3>1. Seq16(p) \in DOMAIN log \ k /\ log[Seq16(p)] = frame[p]
      BY <1>1, <2>3
    <3>2. LogKeep \in Nat /\ Largest \in Nat \ {0}
      BY LinkBounds, LargestIs
    <3>3. ASSUME NEW s \in k
          PROVE  of[s] \in others /\ Seq16(of[s]) = s
      <4>1. \E q \in 0 .. packets - 1 : Seq16(q) = s /\ log[s] = frame[q]
        BY <1>1
      <4> DEFINE q == Of(s)
      <4>2. q \in 0 .. packets - 1 /\ Seq16(q) = s /\ log[s] = frame[q]
        BY <4>1
      <4>3. of[s] = q
        OBVIOUS
      <4> HIDE DEF q, of
      <4>4. q # p
        BY <3>1, <4>2
      <4>5. frame[q] >= frame[p]
        BY <2>1, <3>1, <4>2
      <4>6. q >= first
        <5>1. p \in Nat /\ q \in Nat /\ p < packets /\ q < packets
          BY <4>2
        <5>2. CASE q >= p
          BY <3>2, <5>1, <5>2
        <5>3. CASE q < p
          <6>1. frame[q] <= frame[p] /\ frame[q] \in Nat /\ frame[p] \in Nat
            BY <5>1, <5>3 DEF FramesInOrder
          <6>2. frame[q] = frame[p]
            BY <4>5, <6>1
          <6>3. p - q < Largest
            BY <5>1, <5>3, <6>2 DEF FramesInOrder
          <6> QED
            BY <3>2, <5>1, <6>3
        <5> QED
          BY <5>1, <5>2, <5>3
      <4>7. q \in others
        BY <3>2, <4>2, <4>4, <4>6
      <4> QED
        BY <4>2, <4>3, <4>7
    <3>4. of \in Injection(k, others)
      <4>1. of \in [k -> others]
        BY <3>3
      <4>2. \A s, t \in k : of[s] = of[t] => s = t
        BY <3>3
      <4> HIDE DEF of, others
      <4> QED
        BY <4>1, <4>2 DEF Injection, IsInjective
    <3>5. IsFiniteSet(around) /\ Cardinality(around) = packets - 1 - first + 1 /\ p \in around
      <4>1. first \in Int /\ packets - 1 \in Int /\ packets - 1 >= first - 1 /\ p \in around
        BY <3>2
      <4> HIDE DEF first
      <4> QED
        BY <4>1, Interval
    <3>6. IsFiniteSet(others) /\ Cardinality(others) = Cardinality(around) - 1
      <4> HIDE DEF around
      <4> QED
        BY <3>5, FS_RemoveElement
    <3>7. Cardinality(k) <= Cardinality(others)
      <4> HIDE DEF of, others
      <4> QED
        BY <3>4, <3>6, FS_Injection
    <3>8. Cardinality(others) = packets - 1 - (p - Largest + 1) + 1 - 1
      <4> DEFINE c == Cardinality(others)
                 d == Cardinality(around)
      <4>1. c = d - 1 /\ d = packets - 1 - first + 1
        BY <3>5, <3>6
      <4>2. first = p - Largest + 1 /\ first \in Int /\ packets - 1 \in Int
        BY <3>2
      <4> HIDE DEF c, d, first
      <4>3. c = packets - 1 - first + 1 - 1
        BY <4>1, <4>2
      <4> QED
        BY <4>2, <4>3 DEF c
    <3> HIDE DEF others, around, of
    <3> QED
      BY <2>1, <2>3, <3>2, <3>7, <3>8
  <2>4. k \subseteq 0 .. SeqSpace - 1
    BY <1>1
  <2>5. \A s \in k : \E p \in 0 .. packets - 1 : Seq16(p) = s /\ kept[s] = frame[p]
    BY <1>1, <2>2
  <2>6. \A p \in 0 .. packets - 1 : p >= packets - LogKeep + Largest - 1 =>
          Seq16(p) \in k /\ kept[Seq16(p)] = frame[p]
    BY <1>1, <2>2, <2>3
  <2> QED
    BY <2>2, <2>4, <2>5, <2>6 DEF LogHolds
<1> QED
  BY <1>2, <1>3

\* The send-time log answers for the last packets, in order, across wraps of the numbers and prunings, whatever
\* entries of one frame the sort keeps.
THEOREM SentLogAlwaysAnswers == LinkSpec => []SentLogAnswers
<1>1. LinkInit => SentInv
  <2> SUFFICES ASSUME LinkInit PROVE SentInv
    OBVIOUS
  <2> DEFINE frame == [p \in Nat |-> 0]
  <2>1. sender.packets = 0 /\ sender.frames = 0 /\ sender.log = [s \in {} |-> 0]
    BY DEF LinkInit, NewSender
  <2>2. frame \in [Nat -> Nat] /\ \A p \in Nat : frame[p] = 0
    OBVIOUS
  <2> HIDE DEF frame
  <2>3. FramesInOrder(frame, 0, 0)
    BY <2>2 DEF FramesInOrder
  <2>4. DOMAIN sender.log = {} /\ 0 .. 0 - 1 = {}
    BY <2>1
  <2>5. LogHolds(sender.log, frame, 0)
    BY <2>4 DEF LogHolds
  <2> QED
    BY <2>1, <2>2, <2>3, <2>5 DEF SentInv
<1>2. SentInv /\ [LinkNext]_linkVars => SentInv'
  <2> SUFFICES ASSUME SentInv, [LinkNext]_linkVars PROVE SentInv'
    OBVIOUS
  <2>1. CASE SendVideo
    <3>1. PICK n \in FrameSizes :
            LET sent == sender.packets .. sender.packets + n - 1
                seqs == {Seq16(p) : p \in sent}
            IN  \E kept \in Pruned(Stamped(sender.log, seqs, sender.frames), sender.frames) :
                  sender' = [packets |-> sender.packets + n, frames |-> sender.frames + 1, log |-> kept]
      BY <2>1 DEF SendVideo
    <3> DEFINE packets == sender.packets
               frames == sender.frames
               seqs == Numbers(packets, n)
               new == Stamped(sender.log, seqs, frames)
    <3>2. PICK kept \in Pruned(new, frames) :
            sender' = [packets |-> packets + n, frames |-> frames + 1, log |-> kept]
      BY <3>1 DEF Numbers
    <3>3. packets \in Nat /\ frames \in Nat /\ n \in Nat
      BY LargestIs DEF SentInv
    <3>4. PICK frame \in [Nat -> Nat] :
            FramesInOrder(frame, packets, frames) /\ LogHolds(sender.log, frame, packets)
      BY DEF SentInv
    <3> DEFINE next == WithFrame(frame, packets + n, frames + 1)
    <3>5. /\ next \in [Nat -> Nat] /\ FramesInOrder(next, packets + n, frames + 1)
          /\ LogHolds(new, next, packets + n)
      <4> HIDE DEF packets, frames
      <4> QED
        BY <3>3, <3>4, StampsHold
    <3> HIDE DEF packets, frames, new, next
    <3>6. packets + n \in Nat /\ frames + 1 \in Nat
      BY <3>3
    <3>7. LogHolds(kept, next, packets + n)
      BY <3>5, <3>6, PruneHolds
    <3>8. sender'.packets = packets + n /\ sender'.frames = frames + 1 /\ sender'.log = kept
      BY <3>2
    <3> QED
      BY <3>5, <3>6, <3>7, <3>8 DEF SentInv
  <2>2. CASE UNCHANGED sender
    BY <2>2 DEF SentInv
  <2> QED
    BY <2>1, <2>2 DEF LinkNext, VideoArrives, TakeReceived, TakeLost, linkVars
<1>3. SentInv => SentLogAnswers
  <2> SUFFICES ASSUME SentInv PROVE SentLogAnswers
    OBVIOUS
  <2> DEFINE recent == {p \in 0 .. sender.packets - 1 : p >= sender.packets - LogKeep + Largest - 1}
  <2>1. PICK frame \in [Nat -> Nat] :
          FramesInOrder(frame, sender.packets, sender.frames) /\ LogHolds(sender.log, frame, sender.packets)
    BY DEF SentInv
  <2>2. ASSUME NEW p \in recent
        PROVE  Seq16(p) \in DOMAIN sender.log /\ sender.log[Seq16(p)] = frame[p] /\ p \in Nat
    BY <2>1 DEF LogHolds
  <2>3. ASSUME NEW p \in recent, NEW q \in recent, q <= p
        PROVE  sender.log[Seq16(q)] <= sender.log[Seq16(p)]
    <3>1. frame[q] <= frame[p]
      BY <2>1, <2>2, <2>3 DEF FramesInOrder
    <3> QED
      BY <2>2, <3>1
  <2> HIDE DEF recent
  <2>4. \A p \in recent :
          /\ Seq16(p) \in DOMAIN sender.log
          /\ \A q \in recent : q <= p => sender.log[Seq16(q)] <= sender.log[Seq16(p)]
    BY <2>2, <2>3
  <2> QED
    BY <2>4 DEF SentLogAnswers, Largest, recent
<1> QED
  BY <1>1, <1>2, <1>3, PTL DEF LinkSpec

-----------------------------------------------------------------------------
(* The session log.                                                        *)

Lines == [session : Nat, number : Nat, latency : SUBSET Nat, full : BOOLEAN]

Before(x, y) == x.session < y.session \/ (x.session = y.session /\ x.number < y.number)

\* What is recorded for a file, what of it is still buffered, and what is in the file: the lines
\* are told apart, those buffered are the last, and none comes into the file before those told
\* before it.
Ascending(all) == \A i, j \in 1 .. Len(all) : i < j => Before(all[i], all[j])

Ends(pending, all) ==
  /\ Len(pending) <= Len(all)
  /\ \A m \in 1 .. Len(pending) : pending[m] = all[Len(all) - Len(pending) + m]

Tells(file, all, pending) ==
  \A k \in 1 .. Len(file) : \A i, j \in 1 .. Len(all) :
    all[j] = file[k] /\ i < j /\ all[i] \in Shown(file) \cup Shown(pending)
      => \E earlier \in 1 .. k - 1 : file[earlier] = all[i]

OfOwnSession(all) == \A i \in 1 .. Len(all) : all[i].full => all[i].latency = {all[i].session}

FileKept(file, all, pending, cut) ==
  /\ Ascending(all)
  /\ Ends(pending, all)
  /\ Shown(file) \subseteq Shown(all)
  /\ Tells(file, all, pending)
  /\ ~cut => Shown(all) = Shown(file) \cup Shown(pending)
  /\ OfOwnSession(all)

LEMMA ToldApart ==
  ASSUME NEW all \in Seq(Lines), Ascending(all), NEW i \in 1 .. Len(all), NEW j \in 1 .. Len(all),
         all[i] = all[j]
  PROVE  i = j
<1>1. all[i] \in Lines /\ all[j] \in Lines
  OBVIOUS
<1>2. ~Before(all[i], all[j]) /\ ~Before(all[j], all[i])
  <2>1. all[i].session \in Nat /\ all[i].number \in Nat
    BY <1>1 DEF Lines
  <2> QED
    BY <2>1 DEF Before
<1>3. ~(i < j) /\ ~(j < i)
  BY <1>2 DEF Ascending
<1> QED
  BY <1>3

\* A line is recorded.
LEMMA LineTold ==
  ASSUME NEW file \in Seq(Lines), NEW all \in Seq(Lines), NEW pending \in Seq(Lines), NEW cut \in BOOLEAN,
         FileKept(file, all, pending, cut),
         NEW line \in Lines, \A i \in 1 .. Len(all) : Before(all[i], line),
         line.full => line.latency = {line.session}
  PROVE  FileKept(file, Append(all, line), Append(pending, line), cut)
<1> DEFINE all2 == Append(all, line)
           pending2 == Append(pending, line)
<1>1. /\ all2 \in Seq(Lines) /\ Len(all2) = Len(all) + 1 /\ all2[Len(all) + 1] = line
      /\ \A i \in 1 .. Len(all) : all2[i] = all[i]
      /\ pending2 \in Seq(Lines) /\ Len(pending2) = Len(pending) + 1 /\ pending2[Len(pending) + 1] = line
      /\ \A i \in 1 .. Len(pending) : pending2[i] = pending[i]
      /\ Len(all) \in Nat /\ Len(pending) \in Nat /\ Len(file) \in Nat
  OBVIOUS
<1> HIDE DEF all2, pending2
<1>2. Ascending(all2)
  <2> SUFFICES ASSUME NEW i \in 1 .. Len(all2), NEW j \in 1 .. Len(all2), i < j
               PROVE  Before(all2[i], all2[j])
    BY DEF Ascending
  <2>1. i \in 1 .. Len(all) /\ all2[i] = all[i]
    BY <1>1
  <2>2. CASE j \in 1 .. Len(all)
    BY <1>1, <2>1, <2>2 DEF FileKept, Ascending
  <2>3. CASE j = Len(all) + 1
    BY <1>1, <2>1, <2>3
  <2>4. j \in 1 .. Len(all) \/ j = Len(all) + 1
    <3>1. Len(all2) = Len(all) + 1 /\ Len(all) \in Nat
      BY <1>1
    <3>2. j \in 1 .. Len(all) + 1
      BY <3>1, Zenon
    <3> QED
      BY <3>1, <3>2
  <2> QED
    BY <2>2, <2>3, <2>4
<1>3. Ends(pending2, all2)
  <2>1. Len(pending) <= Len(all) /\ \A m \in 1 .. Len(pending) : pending[m] = all[Len(all) - Len(pending) + m]
    BY DEF FileKept, Ends
  <2>4. Len(pending2) <= Len(all2)
    BY <1>1, <2>1
  <2> SUFFICES ASSUME NEW m \in 1 .. Len(pending2)
               PROVE  pending2[m] = all2[Len(all2) - Len(pending2) + m]
    BY <2>4 DEF Ends
  <2>2. CASE m \in 1 .. Len(pending)
    <3>1. /\ Len(all2) - Len(pending2) + m = Len(all) - Len(pending) + m
          /\ Len(all) - Len(pending) + m \in 1 .. Len(all)
      BY <1>1, <2>1, <2>2
    <3> QED
      BY <1>1, <2>1, <2>2, <3>1
  <2>3. CASE m = Len(pending) + 1
    <3>1. Len(all2) - Len(pending2) + m = Len(all) + 1
      BY <1>1, <2>3
    <3> QED
      BY <1>1, <2>3, <3>1
  <2> QED
    BY <1>1, <2>2, <2>3
<1>4. Shown(all2) = Shown(all) \cup {line} /\ Shown(pending2) = Shown(pending) \cup {line}
  <2>1. \A i \in 1 .. Len(all2) : i \in 1 .. Len(all) \/ i = Len(all) + 1
    BY <1>1
  <2>2. \A i \in 1 .. Len(pending2) : i \in 1 .. Len(pending) \/ i = Len(pending) + 1
    BY <1>1
  <2>3. \A i \in 1 .. Len(all) : i \in 1 .. Len(all2)
    BY <1>1
  <2>4. \A i \in 1 .. Len(pending) : i \in 1 .. Len(pending2)
    BY <1>1
  <2>5. Len(all) + 1 \in 1 .. Len(all2) /\ Len(pending) + 1 \in 1 .. Len(pending2)
    BY <1>1
  <2>6. Shown(all2) = Shown(all) \cup {line}
    <3>1. \A i \in 1 .. Len(all2) : all2[i] \in Shown(all) \cup {line}
      BY <1>1, <2>1 DEF Shown
    <3>2. line \in Shown(all2) /\ \A i \in 1 .. Len(all) : all[i] \in Shown(all2)
      <4>1. line = all2[Len(all) + 1] /\ \A i \in 1 .. Len(all) : all[i] = all2[i]
        BY <1>1
      <4> QED
        BY <2>3, <2>5, <4>1, Zenon DEF Shown
    <3> QED
      BY <3>1, <3>2, Zenon DEF Shown
  <2>7. Shown(pending2) = Shown(pending) \cup {line}
    <3>1. \A i \in 1 .. Len(pending2) : pending2[i] \in Shown(pending) \cup {line}
      BY <1>1, <2>2 DEF Shown
    <3>2. line \in Shown(pending2) /\ \A i \in 1 .. Len(pending) : pending[i] \in Shown(pending2)
      <4>1. line = pending2[Len(pending) + 1] /\ \A i \in 1 .. Len(pending) : pending[i] = pending2[i]
        BY <1>1
      <4> QED
        BY <2>4, <2>5, <4>1, Zenon DEF Shown
    <3> QED
      BY <3>1, <3>2, Zenon DEF Shown
  <2> QED
    BY <2>6, <2>7
<1>5. Tells(file, all2, pending2)
  <2> SUFFICES ASSUME NEW k \in 1 .. Len(file), NEW i \in 1 .. Len(all2), NEW j \in 1 .. Len(all2),
                      all2[j] = file[k], i < j, all2[i] \in Shown(file) \cup Shown(pending2)
               PROVE  \E earlier \in 1 .. k - 1 : file[earlier] = all2[i]
    BY DEF Tells
  <2>1. file[k] \in Shown(all)
    BY DEF FileKept, Shown
  <2>2. PICK at \in 1 .. Len(all) : all[at] = file[k]
    BY <2>1 DEF Shown
  <2>3. at \in 1 .. Len(all2) /\ all2[at] = all2[j]
    BY <1>1, <2>2
  <2>4. j = at
    BY <1>1, <1>2, <2>3, ToldApart
  <2>5. i \in 1 .. Len(all) /\ j \in 1 .. Len(all)
    BY <2>2, <2>4
  <2>6. all2[i] = all[i] /\ all2[j] = all[j]
    BY <1>1, <2>5
  <2>7. all2[i] # line
    <3>1. Before(all[i], line) /\ line.session \in Nat /\ line.number \in Nat
      BY <2>5 DEF Lines
    <3> QED
      BY <2>6, <3>1 DEF Before
  <2>8. all[i] \in Shown(file) \cup Shown(pending)
    BY <1>4, <2>6, <2>7
  <2> QED
    BY <2>5, <2>6, <2>8, ZenonT(60) DEF FileKept, Tells
<1>6. OfOwnSession(all2)
  <2>1. \A i \in 1 .. Len(all2) : i \in 1 .. Len(all) \/ i = Len(all) + 1
    BY <1>1
  <2> QED
    BY <1>1, <2>1 DEF FileKept, OfOwnSession
<1>7. FileKept(file, all2, pending2, cut)
  BY <1>2, <1>3, <1>4, <1>5, <1>6 DEF FileKept
<1> QED
  BY <1>7 DEF all2, pending2

\* What is buffered is written, or the first lines of it.
LEMMA LinesWritten ==
  ASSUME NEW file \in Seq(Lines), NEW all \in Seq(Lines), NEW pending \in Seq(Lines), NEW cut \in BOOLEAN,
         FileKept(file, all, pending, cut),
         NEW first \in Seq(Lines), Len(first) <= Len(pending),
         \A m \in 1 .. Len(first) : first[m] = pending[m]
  PROVE  /\ file \o first \in Seq(Lines)
         /\ FileKept(file \o first, all, pending, cut)
         /\ Len(first) = Len(pending) => FileKept(file \o first, all, <<>>, cut)
<1> DEFINE longer == file \o first
           base == Len(all) - Len(pending)
<1>1. /\ longer \in Seq(Lines) /\ Len(longer) = Len(file) + Len(first)
      /\ \A i \in 1 .. Len(file) + Len(first) : longer[i] = IF i <= Len(file) THEN file[i] ELSE first[i - Len(file)]
  BY ConcatProperties
<1>2. Len(all) \in Nat /\ Len(pending) \in Nat /\ Len(file) \in Nat /\ Len(first) \in Nat
  OBVIOUS
<1> HIDE DEF longer
<1>3. /\ \A i \in 1 .. Len(file) : i \in 1 .. Len(longer) /\ longer[i] = file[i]
      /\ \A m \in 1 .. Len(first) : /\ m \in 1 .. Len(pending) /\ Len(file) + m \in 1 .. Len(longer)
                                    /\ longer[Len(file) + m] = pending[m]
      /\ \A k \in 1 .. Len(longer) : k \in 1 .. Len(file) \/ k - Len(file) \in 1 .. Len(first)
  <2>1. ASSUME NEW i \in 1 .. Len(file) PROVE i \in 1 .. Len(longer) /\ longer[i] = file[i]
    BY <1>1, <1>2
  <2>2. ASSUME NEW m \in 1 .. Len(first)
        PROVE  m \in 1 .. Len(pending) /\ Len(file) + m \in 1 .. Len(longer) /\ longer[Len(file) + m] = pending[m]
    <3>1. /\ m \in 1 .. Len(pending) /\ Len(file) + m \in 1 .. Len(file) + Len(first)
          /\ ~(Len(file) + m <= Len(file)) /\ (Len(file) + m) - Len(file) = m
      BY <1>2
    <3> QED
      BY <1>1, <3>1
  <2>3. ASSUME NEW k \in 1 .. Len(longer) PROVE k \in 1 .. Len(file) \/ k - Len(file) \in 1 .. Len(first)
    BY <1>1, <1>2
  <2> QED
    BY <2>1, <2>2, <2>3
<1>4. /\ Shown(file) \subseteq Shown(longer)
      /\ Shown(longer) \subseteq Shown(file) \cup Shown(pending)
      /\ Len(first) = Len(pending) => Shown(pending) \subseteq Shown(longer)
  <2>1. Shown(file) \subseteq Shown(longer)
    BY <1>3 DEF Shown
  <2>2. ASSUME NEW k \in 1 .. Len(longer) PROVE longer[k] \in Shown(file) \cup Shown(pending)
    <3>1. CASE k \in 1 .. Len(file)
      BY <1>3, <3>1 DEF Shown
    <3>2. CASE k - Len(file) \in 1 .. Len(first)
      <4>1. longer[Len(file) + (k - Len(file))] = pending[k - Len(file)] /\ k - Len(file) \in 1 .. Len(pending)
        BY <1>3, <3>2
      <4>2. Len(file) + (k - Len(file)) = k
        BY <1>2
      <4> QED
        BY <4>1, <4>2 DEF Shown
    <3> QED
      BY <1>3, <3>1, <3>2
  <2>3. ASSUME Len(first) = Len(pending) PROVE Shown(pending) \subseteq Shown(longer)
    <3>1. \A m \in 1 .. Len(pending) : m \in 1 .. Len(first)
      BY <2>3
    <3>2. \A m \in 1 .. Len(pending) : Len(file) + m \in 1 .. Len(longer) /\ longer[Len(file) + m] = pending[m]
      BY <1>3, <3>1
    <3> QED
      BY <3>2, Zenon DEF Shown
  <2>4. Shown(longer) \subseteq Shown(file) \cup Shown(pending)
    BY <2>2 DEF Shown
  <2> QED
    BY <2>1, <2>3, <2>4
<1>5. /\ Ascending(all) /\ Shown(file) \subseteq Shown(all) /\ Tells(file, all, pending) /\ OfOwnSession(all)
      /\ ~cut => Shown(all) = Shown(file) \cup Shown(pending)
      /\ Ends(pending, all)
  BY DEF FileKept
<1>6. /\ base \in Nat
      /\ \A m \in 1 .. Len(pending) : base + m \in 1 .. Len(all) /\ pending[m] = all[base + m]
  <2>1. Len(pending) <= Len(all) /\ \A m \in 1 .. Len(pending) : pending[m] = all[base + m]
    BY <1>5 DEF Ends
  <2>2. base \in Nat /\ \A m \in 1 .. Len(pending) : base + m \in 1 .. Len(all)
    BY <1>2, <2>1
  <2> QED
    BY <2>1, <2>2
<1> HIDE DEF base
<1>7. Shown(pending) \subseteq Shown(all)
  BY <1>6 DEF Shown
<1>8. Shown(longer) \subseteq Shown(all)
  BY <1>4, <1>5, <1>7
<1>9. Tells(longer, all, pending)
  <2> SUFFICES ASSUME NEW k \in 1 .. Len(longer), NEW i \in 1 .. Len(all), NEW j \in 1 .. Len(all),
                      all[j] = longer[k], i < j, all[i] \in Shown(longer) \cup Shown(pending)
               PROVE  \E earlier \in 1 .. k - 1 : longer[earlier] = all[i]
    BY DEF Tells
  <2>1. all[i] \in Shown(file) \cup Shown(pending)
    BY <1>4
  <2>2. CASE k \in 1 .. Len(file)
    <3>1. all[j] = file[k]
      BY <1>3, <2>2
    <3>2. PICK earlier \in 1 .. k - 1 : file[earlier] = all[i]
      BY <1>5, <2>1, <2>2, <3>1 DEF Tells
    <3>3. earlier \in 1 .. Len(file)
      BY <1>2, <2>2
    <3> QED
      BY <1>3, <3>2, <3>3
  <2>3. CASE k - Len(file) \in 1 .. Len(first)
    <3> DEFINE m == k - Len(file)
    <3>1. m \in 1 .. Len(first) /\ m \in 1 .. Len(pending) /\ k = Len(file) + m
      BY <1>2, <1>3, <2>3
    <3> HIDE DEF m
    <3>2. longer[k] = pending[m] /\ pending[m] = all[base + m] /\ base + m \in 1 .. Len(all)
      BY <1>3, <1>6, <3>1
    <3>3. j = base + m
      BY <1>5, <3>2, ToldApart
    <3>4. CASE all[i] \in Shown(file)
      <4>1. PICK earlier \in 1 .. Len(file) : file[earlier] = all[i]
        BY <3>4 DEF Shown
      <4>2. earlier \in 1 .. k - 1 /\ longer[earlier] = all[i]
        BY <1>2, <1>3, <3>1, <4>1
      <4> QED
        BY <4>2
    <3>5. CASE all[i] \in Shown(pending)
      <4>1. PICK n \in 1 .. Len(pending) : pending[n] = all[i]
        BY <3>5 DEF Shown
      <4>2. base + n \in 1 .. Len(all) /\ all[base + n] = all[i]
        BY <1>6, <4>1
      <4>3. i = base + n
        BY <1>5, <4>2, ToldApart
      <4>4. n \in 1 .. Len(first) /\ Len(file) + n \in 1 .. k - 1
        BY <1>2, <1>6, <3>1, <3>3, <4>3, SMTT(60)
      <4>5. longer[Len(file) + n] = all[i]
        BY <1>3, <4>1, <4>4
      <4> QED
        BY <4>4, <4>5
    <3> QED
      BY <2>1, <3>4, <3>5
  <2> QED
    BY <1>3, <2>2, <2>3
<1>10. FileKept(longer, all, pending, cut)
  BY <1>4, <1>5, <1>8, <1>9 DEF FileKept
<1>11. ASSUME Len(first) = Len(pending)
       PROVE  FileKept(longer, all, <<>>, cut)
  <2>1. Shown(<<>>) = {} /\ Ends(<<>>, all)
    BY <1>2 DEF Shown, Ends
  <2>2. Tells(longer, all, <<>>)
    BY <1>9, <2>1 DEF Tells
  <2>3. Shown(longer) = Shown(file) \cup Shown(pending)
    BY <1>4, <1>11
  <2> QED
    BY <1>5, <1>8, <2>1, <2>2, <2>3 DEF FileKept
<1> QED
  BY <1>1, <1>10, <1>11 DEF longer

\* What is buffered is lost.
LEMMA LinesLost ==
  ASSUME NEW file, NEW all \in Seq(Lines), NEW pending, NEW cut, FileKept(file, all, pending, cut)
  PROVE  FileKept(file, all, <<>>, TRUE)
<1>1. Shown(<<>>) = {} /\ Ends(<<>>, all)
  BY DEF Shown, Ends
<1> QED
  BY <1>1 DEF FileKept, Tells

Logs ==
  [on : BOOLEAN, name : 0 .. MaxTicks, buffer : Seq(Lines), flushed : Nat, made : Nat]

Outcomes == [logger : Logs, lines : Seq(Lines), fault : BOOLEAN]

LEMMA Prefix ==
  ASSUME NEW s \in Seq(Lines), NEW n \in 0 .. Len(s)
  PROVE  /\ SubSeq(s, 1, n) \in Seq(Lines) /\ Len(SubSeq(s, 1, n)) = n
         /\ \A m \in 1 .. n : SubSeq(s, 1, n)[m] = s[m]
<1> DEFINE first == SubSeq(s, 1, n)
<1>1. n \in Nat /\ \A i \in 1 .. n : s[i] \in Lines
  OBVIOUS
<1>2. /\ first \in Seq(Lines)
      /\ Len(first) = IF 1 <= n THEN n - 1 + 1 ELSE 0
      /\ \A i \in 1 .. n - 1 + 1 : first[i] = s[1 + i - 1]
  BY <1>1, SubSeqProperties
<1> HIDE DEF first
<1>3. \A i \in 1 .. n : i \in 1 .. n - 1 + 1 /\ 1 + i - 1 = i
  BY <1>1
<1>4. Len(first) = n
  BY <1>1, <1>2
<1>5. \A i \in 1 .. n : first[i] = s[i]
  BY <1>2, <1>3
<1> QED
  BY <1>2, <1>4, <1>5 DEF first

\* SessionLogger::flush(), whatever the disk does.
LEMMA FlushKeepsLines ==
  ASSUME NEW l \in Logs, NEW lines \in Seq(Lines), NEW all \in Seq(Lines), NEW cut \in BOOLEAN,
         FileKept(lines, all, l.buffer, cut), now \in Nat, NEW f \in FlushLog(l, lines)
  PROVE  /\ f \in Outcomes
         /\ f.logger.on = l.on /\ f.logger.name = l.name /\ f.logger.made = l.made
         /\ FileKept(f.lines, all, f.logger.buffer, cut)
         /\ ~f.fault => f.logger.buffer = <<>>
<1> DEFINE buffer == l.buffer
<1>1. buffer \in Seq(Lines) /\ <<>> \in Seq(Lines) /\ Len(buffer) \in Nat
  BY DEF Logs
<1>2. CASE buffer = <<>>
  <2>1. f = [logger |-> l, lines |-> lines, fault |-> FALSE]
    BY <1>2 DEF FlushLog
  <2> QED
    BY <1>2, <2>1 DEF Outcomes
<1>3. CASE f = [logger |-> [l EXCEPT !.buffer = <<>>, !.flushed = now], lines |-> lines \o buffer, fault |-> FALSE]
  <2>1. lines \o buffer \in Seq(Lines) /\ FileKept(lines \o buffer, all, <<>>, cut)
    <3> HIDE DEF buffer
    <3>1. FileKept(lines, all, buffer, cut)
      BY DEF buffer
    <3>2. Len(buffer) <= Len(buffer) /\ \A m \in 1 .. Len(buffer) : buffer[m] = buffer[m]
      BY <1>1
    <3> QED
      BY <1>1, <3>1, <3>2, LinesWritten
  <2> DEFINE emptied == [l EXCEPT !.buffer = <<>>, !.flushed = now]
             longer == lines \o buffer
  <2>2. /\ emptied \in Logs /\ emptied.buffer = <<>> /\ emptied.on = l.on /\ emptied.name = l.name
        /\ emptied.made = l.made
    BY <1>1 DEF Logs
  <2>3. f.logger = emptied /\ f.lines = longer /\ f.fault = FALSE
    BY <1>3
  <2>4. f = [logger |-> emptied, lines |-> longer, fault |-> FALSE]
    BY <1>3
  <2> HIDE DEF emptied, longer
  <2>5. f \in Outcomes
    BY <2>1, <2>2, <2>4 DEF Outcomes, longer
  <2> QED
    BY <2>1, <2>2, <2>3, <2>5 DEF longer
<1>4. CASE \E n \in 0 .. Len(buffer) :
             f = [logger |-> l, lines |-> lines \o SubSeq(buffer, 1, n), fault |-> TRUE]
  <2>1. PICK n \in 0 .. Len(buffer) :
          f = [logger |-> l, lines |-> lines \o SubSeq(buffer, 1, n), fault |-> TRUE]
    BY <1>4
  <2> DEFINE first == SubSeq(buffer, 1, n)
             longer == lines \o first
  <2>2. /\ first \in Seq(Lines) /\ Len(first) <= Len(buffer)
        /\ \A m \in 1 .. Len(first) : first[m] = buffer[m]
    <3> HIDE DEF buffer
    <3>1. /\ first \in Seq(Lines) /\ Len(first) = n /\ \A m \in 1 .. n : first[m] = buffer[m]
      BY <1>1, Prefix
    <3> QED
      BY <1>1, <3>1
  <2>3. longer \in Seq(Lines) /\ FileKept(longer, all, buffer, cut)
    <3> HIDE DEF buffer, first
    <3>1. FileKept(lines, all, buffer, cut)
      BY DEF buffer
    <3> QED
      BY <1>1, <2>2, <3>1, LinesWritten
  <2>4. f = [logger |-> l, lines |-> longer, fault |-> TRUE]
    BY <2>1
  <2> HIDE DEF longer
  <2> QED
    BY <2>3, <2>4 DEF Outcomes
<1> QED
  BY <1>2, <1>3, <1>4 DEF FlushLog

-----------------------------------------------------------------------------
Pending(t) == IF logger.on /\ logger.name = t THEN logger.buffer ELSE <<>>

StatsTyped ==
  /\ now \in 0 .. MaxTicks /\ faults \in Nat
  /\ tracker \in [history : Seq(Nat), shown : SUBSET Nat]
  /\ streamed \in [on : BOOLEAN, session : Nat, frames : Nat, measured : Nat]
  /\ logger \in Logs
  /\ files \in [0 .. MaxTicks -> Seq(Lines)]
  /\ told \in [0 .. MaxTicks -> [lines : Seq(Lines), cut : BOOLEAN]]

\* The window's last frames are the session's, as many as it measured.
WindowInv ==
  /\ Len(tracker.history) <= Window
  /\ tracker.shown = Shown(tracker.history)
  /\ streamed.on =>
       /\ streamed.measured > 0 => Len(tracker.history) > 0
       /\ \A i \in 1 .. Len(tracker.history) :
            i > Len(tracker.history) - streamed.measured => tracker.history[i] = streamed.session

FilesInv == \A t \in 0 .. MaxTicks : FileKept(files[t], told[t].lines, Pending(t), told[t].cut)

\* The next line comes after all that were recorded.
NumbersInv ==
  /\ logger.on => streamed.on
  /\ \A t \in 0 .. MaxTicks : \A i \in 1 .. Len(told[t].lines) :
       LET line == told[t].lines[i]
       IN  /\ line.session <= streamed.session
           /\ logger.on /\ logger.name = t /\ line.session = streamed.session => line.number <= logger.made

StatsInv == StatsTyped /\ WindowInv /\ FilesInv /\ NumbersInv

LEMMA LinesTyped ==
  ASSUME StatsTyped, NEW t \in 0 .. MaxTicks
  PROVE  /\ files[t] \in Seq(Lines) /\ told[t].lines \in Seq(Lines) /\ told[t].cut \in BOOLEAN
         /\ Pending(t) \in Seq(Lines) /\ logger.buffer \in Seq(Lines)
         /\ \A i \in 1 .. Len(told[t].lines) :
              /\ told[t].lines[i] \in Lines
              /\ told[t].lines[i].session \in Nat /\ told[t].lines[i].number \in Nat
<1>1. files[t] \in Seq(Lines) /\ told[t] \in [lines : Seq(Lines), cut : BOOLEAN] /\ logger \in Logs
  BY DEF StatsTyped
<1>2. told[t].lines \in Seq(Lines) /\ told[t].cut \in BOOLEAN /\ logger.buffer \in Seq(Lines)
  BY <1>1 DEF Logs
<1>3. <<>> \in Seq(Lines)
  OBVIOUS
<1>4. Pending(t) \in Seq(Lines)
  BY <1>2, <1>3 DEF Pending
<1> DEFINE all == told[t].lines
<1>5. all \in Seq(Lines)
  BY <1>2
<1> HIDE DEF all
<1>6. \A i \in 1 .. Len(all) : all[i] \in Lines
  BY <1>5
<1>7. \A i \in 1 .. Len(all) : all[i].session \in Nat /\ all[i].number \in Nat
  BY <1>6 DEF Lines
<1> QED
  BY <1>1, <1>2, <1>4, <1>6, <1>7 DEF all

LEMMA StatsInvInit == StatsInit => StatsInv
<1> SUFFICES ASSUME StatsInit PROVE StatsInv
  OBVIOUS
<1> USE StatsAssumption DEF StatsAssumption
<1>1. Shown(<<>>) = {} /\ <<>> \in Seq(Lines) /\ <<>> \in Seq(Nat) /\ Len(<<>>) = 0
  BY DEF Shown
<1>2. StatsTyped
  BY <1>1 DEF StatsInit, StatsTyped, NewTracker, NoLogger, Logs
<1>3. WindowInv
  BY <1>1 DEF StatsInit, WindowInv, NewTracker
<1>4. FileKept(<<>>, <<>>, <<>>, FALSE)
  BY <1>1 DEF FileKept, Ascending, Ends, Tells, OfOwnSession
<1>5. \A t \in 0 .. MaxTicks : files[t] = <<>> /\ told[t].lines = <<>> /\ told[t].cut = FALSE /\ Pending(t) = <<>>
  BY DEF StatsInit, Pending, NoLogger
<1>6. FilesInv
  BY <1>4, <1>5 DEF FilesInv
<1>7. NumbersInv
  BY <1>1, <1>5 DEF StatsInit, NumbersInv, NoLogger
<1> QED
  BY <1>2, <1>3, <1>6, <1>7 DEF StatsInv

LEMMA LogSessionBegins == StatsInv /\ BeginLogSession => StatsInv'
<1> SUFFICES ASSUME StatsInv, BeginLogSession PROVE StatsInv'
  OBVIOUS
<1> USE StatsAssumption DEF StatsAssumption
<1>1. /\ StatsTyped /\ WindowInv /\ FilesInv /\ NumbersInv
      /\ ~streamed.on /\ ~logger.on
      /\ streamed' = [on |-> TRUE, session |-> streamed.session + 1, frames |-> 0, measured |-> 0]
      /\ now' = now /\ tracker' = tracker /\ files' = files /\ told' = told
  BY DEF StatsInv, BeginLogSession, NumbersInv
<1>2. \/ logger' = [on |-> TRUE, name |-> now, buffer |-> <<>>, flushed |-> now, made |-> 0] /\ faults' = faults
      \/ logger' = logger /\ faults' = faults + 1
  BY DEF BeginLogSession
<1>3. streamed.session \in Nat /\ streamed'.session = streamed.session + 1 /\ streamed'.on /\ streamed'.measured = 0
  BY <1>1 DEF StatsTyped
<1>4. StatsTyped'
  <2>1. <<>> \in Seq(Lines) /\ now \in 0 .. MaxTicks /\ now \in Nat
    BY <1>1 DEF StatsTyped
  <2>2. logger' \in Logs /\ faults' \in Nat
    <3>1. logger \in Logs /\ faults \in Nat
      BY <1>1 DEF StatsTyped
    <3>2. [on |-> TRUE, name |-> now, buffer |-> <<>>, flushed |-> now, made |-> 0] \in Logs
      BY <2>1 DEF Logs
    <3>3. logger' \in Logs
      BY <1>2, <3>1, <3>2, Zenon
    <3>4. faults' \in Nat
      BY <1>2, <3>1
    <3> QED
      BY <3>3, <3>4
  <2>3. streamed' \in [on : BOOLEAN, session : Nat, frames : Nat, measured : Nat]
    BY <1>1, <1>3
  <2> QED
    BY <1>1, <2>2, <2>3 DEF StatsTyped
<1>5. WindowInv'
  <2>1. Len(tracker.history) \in Nat
    BY <1>1 DEF StatsTyped
  <2> QED
    BY <1>1, <1>3, <2>1 DEF WindowInv
<1>6. FilesInv'
  <2>1. \A t \in 0 .. MaxTicks : Pending(t)' = <<>> /\ Pending(t) = <<>>
    BY <1>1, <1>2 DEF Pending
  <2> QED
    BY <1>1, <2>1 DEF FilesInv
<1>7. NumbersInv'
  <2> SUFFICES ASSUME NEW t \in 0 .. MaxTicks, NEW i \in 1 .. Len(told[t].lines)
               PROVE  told[t].lines[i].session < streamed'.session
    <3>1. ASSUME NEW t \in 0 .. MaxTicks, NEW i \in 1 .. Len(told[t].lines),
                 told[t].lines[i].session < streamed'.session
          PROVE  told[t].lines[i].session <= streamed'.session /\ told[t].lines[i].session # streamed'.session
      <4>1. told[t].lines[i].session \in Nat
        BY <1>1, LinesTyped
      <4> QED
        BY <1>3, <3>1, <4>1, SMTT(60)
    <3> QED
      BY <1>1, <1>3, <3>1 DEF NumbersInv
  <2>1. told[t].lines[i].session \in Nat
    BY <1>1, LinesTyped
  <2>2. told[t].lines[i].session <= streamed.session
    BY <1>1 DEF NumbersInv
  <2> QED
    BY <1>3, <2>1, <2>2, SMTT(60)
<1> QED
  BY <1>4, <1>5, <1>6, <1>7 DEF StatsInv

\* LatencyTracker::record() of a session's frame.
LEMMA FrameMeasured ==
  ASSUME NEW history \in Seq(Nat), Len(history) <= Window, NEW session \in Nat, NEW measured \in Nat,
         \A i \in 1 .. Len(history) : i > Len(history) - measured => history[i] = session
  PROVE  LET next0 == Recorded(history, session)
         IN  /\ next0 \in Seq(Nat) /\ Len(next0) <= Window /\ Len(next0) > 0
             /\ \A i \in 1 .. Len(next0) : i > Len(next0) - (measured + 1) => next0[i] = session
<1> USE StatsAssumption DEF StatsAssumption
<1> DEFINE kept == IF Len(history) >= Window THEN Tail(history) ELSE history
           next0 == Recorded(history, session)
<1>1. PICK shift \in {0, 1} :
         /\ kept \in Seq(Nat) /\ Len(kept) = Len(history) - shift /\ Len(kept) < Window
         /\ \A i \in 1 .. Len(kept) : kept[i] = history[i + shift]
  <2>1. CASE Len(history) >= Window
    <3>1. Len(history) \in Nat \ {0} /\ history # <<>>
      BY <2>1
    <3>2. /\ Tail(history) \in Seq(Nat) /\ Len(Tail(history)) = Len(history) - 1
          /\ \A i \in 1 .. Len(Tail(history)) : Tail(history)[i] = history[i + 1]
      BY <3>1, HeadTailProperties
    <3>3. Len(Tail(history)) < Window
      BY <3>1, <3>2
    <3> QED
      BY <2>1, <3>2, <3>3
  <2>2. CASE ~(Len(history) >= Window)
    <3>1. kept = history /\ Len(history) < Window /\ Len(history) = Len(history) - 0
      BY <2>2
    <3>2. \A i \in 1 .. Len(history) : i + 0 = i
      OBVIOUS
    <3> QED
      BY <3>1, <3>2
  <2> QED
    BY <2>1, <2>2
<1>2. next0 = Append(kept, session)
  BY DEF Recorded
<1> HIDE DEF kept, next0
<1>3. Len(kept) \in Nat /\ Len(history) \in Nat
  BY <1>1
<1>4. /\ next0 \in Seq(Nat) /\ Len(next0) = Len(kept) + 1 /\ next0[Len(kept) + 1] = session
      /\ \A i \in 1 .. Len(kept) : next0[i] = kept[i]
  BY <1>1, <1>2
<1>5. ASSUME NEW i \in 1 .. Len(next0), i > Len(next0) - (measured + 1)
      PROVE  next0[i] = session
  <2>1. i \in 1 .. Len(kept) \/ i = Len(kept) + 1
    BY <1>3, <1>4
  <2>2. CASE i \in 1 .. Len(kept)
    <3>1. i + shift \in 1 .. Len(history) /\ i + shift > Len(history) - measured
      <4>1. Len(kept) = Len(history) - shift /\ Len(next0) = Len(kept) + 1 /\ i > Len(next0) - (measured + 1)
        BY <1>1, <1>4, <1>5
      <4>2. i > (Len(kept) + 1) - (measured + 1)
        BY <4>1
      <4>3. i > Len(kept) - measured
        BY <1>3, <4>2
      <4>4. Len(history) = Len(kept) + shift
        BY <1>3, <4>1
      <4>5. i + shift \in 1 .. Len(kept) + shift /\ i + shift > (Len(kept) + shift) - measured
        BY <1>3, <2>2, <4>3
      <4> QED
        BY <4>4, <4>5
    <3> QED
      BY <1>1, <1>4, <2>2, <3>1
  <2> QED
    BY <1>4, <2>1, <2>2
<1>6. Len(next0) <= Window /\ Len(next0) > 0
  BY <1>1, <1>3, <1>4, SMTT(60)
<1> QED
  BY <1>4, <1>5, <1>6 DEF next0

LEMMA FrameIsMeasured == StatsInv /\ SendMeasured => StatsInv'
<1> SUFFICES ASSUME StatsInv, SendMeasured PROVE StatsInv'
  OBVIOUS
<1>1. /\ StatsTyped /\ WindowInv /\ FilesInv /\ NumbersInv
      /\ streamed.on
      /\ now' = now /\ logger' = logger /\ files' = files /\ told' = told /\ faults' = faults
  BY DEF StatsInv, SendMeasured
<1> DEFINE history == tracker.history
<1>2. /\ history \in Seq(Nat) /\ tracker \in [history : Seq(Nat), shown : SUBSET Nat]
      /\ streamed \in [on : BOOLEAN, session : Nat, frames : Nat, measured : Nat]
      /\ streamed.session \in Nat /\ streamed.measured \in Nat
  BY <1>1 DEF StatsTyped
<1>3. /\ Len(history) <= Window
      /\ streamed.measured > 0 => Len(history) > 0
      /\ \A i \in 1 .. Len(history) : i > Len(history) - streamed.measured => history[i] = streamed.session
  BY <1>1 DEF WindowInv
<1>4. /\ tracker' \in [history : Seq(Nat), shown : SUBSET Nat]
      /\ streamed' \in [on : BOOLEAN, session : Nat, frames : Nat, measured : Nat]
      /\ streamed'.on /\ streamed'.session = streamed.session
      /\ Len(tracker'.history) <= Window /\ tracker'.shown = Shown(tracker'.history)
      /\ streamed'.measured > 0 => Len(tracker'.history) > 0
      /\ \A i \in 1 .. Len(tracker'.history) :
           i > Len(tracker'.history) - streamed'.measured => tracker'.history[i] = streamed'.session
  <2>1. \A h \in Seq(Nat) : Shown(h) \in SUBSET Nat
    BY DEF Shown
  <2>2. CASE /\ tracker' = [history |-> Recorded(history, streamed.session),
                            shown |-> Shown(Recorded(history, streamed.session))]
             /\ streamed' = [streamed EXCEPT !.frames = @ + 1, !.measured = @ + 1]
    <3> DEFINE next0 == Recorded(history, streamed.session)
               session == streamed.session
               measured == streamed.measured
    <3>1. /\ next0 \in Seq(Nat) /\ Len(next0) <= Window /\ Len(next0) > 0
          /\ \A i \in 1 .. Len(next0) : i > Len(next0) - (measured + 1) => next0[i] = session
      <4>1. session \in Nat /\ measured \in Nat
        BY <1>2
      <4>2. \A i \in 1 .. Len(history) : i > Len(history) - measured => history[i] = session
        BY <1>3
      <4>3. history \in Seq(Nat) /\ Len(history) <= Window
        BY <1>2, <1>3
      <4> HIDE DEF history, session, measured, next0
      <4>4. LET n == Recorded(history, session)
            IN  /\ n \in Seq(Nat) /\ Len(n) <= Window /\ Len(n) > 0
                /\ \A i \in 1 .. Len(n) : i > Len(n) - (measured + 1) => n[i] = session
        BY <4>1, <4>2, <4>3, FrameMeasured
      <4> QED
        BY <4>4 DEF next0, session
    <3>2. /\ streamed' \in [on : BOOLEAN, session : Nat, frames : Nat, measured : Nat]
          /\ streamed'.on /\ streamed'.session = session /\ streamed'.measured = measured + 1
      <4>1. streamed' = [streamed EXCEPT !.frames = streamed.frames + 1, !.measured = streamed.measured + 1]
        BY <2>2
      <4>2. streamed.frames \in Nat /\ streamed.measured \in Nat
        BY <1>2
      <4> DEFINE f == streamed.frames + 1
                 m == streamed.measured + 1
      <4>3. f \in Nat /\ m \in Nat /\ streamed' = [streamed EXCEPT !.frames = f, !.measured = m]
        BY <4>1, <4>2
      <4> HIDE DEF f, m
      <4>4. /\ streamed' \in [on : BOOLEAN, session : Nat, frames : Nat, measured : Nat]
            /\ streamed'.on = streamed.on /\ streamed'.session = streamed.session /\ streamed'.measured = m
        BY <1>2, <4>3
      <4> QED
        BY <1>1, <4>4 DEF m
    <3>3. tracker' = [history |-> next0, shown |-> Shown(next0)]
      BY <2>2
    <3> HIDE DEF next0
    <3>4. /\ tracker'.history = next0 /\ tracker'.shown = Shown(next0)
          /\ tracker' \in [history : Seq(Nat), shown : SUBSET Nat]
      BY <2>1, <3>1, <3>3
    <3> QED
      BY <3>1, <3>2, <3>4
  <2>3. CASE /\ tracker' = [tracker EXCEPT !.shown = Shown(history)]
             /\ streamed' = [streamed EXCEPT !.frames = @ + 1]
    <3>1. /\ streamed' \in [on : BOOLEAN, session : Nat, frames : Nat, measured : Nat]
          /\ streamed'.on /\ streamed'.session = streamed.session /\ streamed'.measured = streamed.measured
      BY <1>1, <1>2, <2>3
    <3>2. /\ tracker'.history = history /\ tracker'.shown = Shown(history)
          /\ tracker' \in [history : Seq(Nat), shown : SUBSET Nat]
      BY <1>2, <2>1, <2>3
    <3> QED
      BY <1>3, <3>1, <3>2
  <2> QED
    BY <2>2, <2>3 DEF SendMeasured
<1>5. StatsTyped'
  BY <1>1, <1>4 DEF StatsTyped
<1>6. WindowInv'
  BY <1>4 DEF WindowInv
<1>7. FilesInv'
  <2>1. \A t \in 0 .. MaxTicks : Pending(t)' = Pending(t)
    BY <1>1 DEF Pending
  <2> QED
    BY <1>1, <2>1 DEF FilesInv
<1>8. NumbersInv'
  BY <1>1, <1>4 DEF NumbersInv
<1> QED
  BY <1>5, <1>6, <1>7, <1>8 DEF StatsInv

\* A file that nothing is written for stays as it is.
LEMMA OtherFile ==
  ASSUME StatsInv, NEW t \in 0 .. MaxTicks, files'[t] = files[t], told'[t] = told[t],
         Pending(t)' = Pending(t)
  PROVE  FileKept(files[t], told[t].lines, Pending(t), told[t].cut)'
BY DEF StatsInv, FilesInv

LEMMA LineIsLogged == StatsInv /\ LogTick => StatsInv'
<1> SUFFICES ASSUME StatsInv, LogTick PROVE StatsInv'
  OBVIOUS
<1> USE StatsAssumption DEF StatsAssumption
<1> DEFINE name == logger.name
           all == told[name].lines
           file == files[name]
           buffer == logger.buffer
           cut == told[name].cut
           line == [session |-> streamed.session, number |-> logger.made + 1, latency |-> tracker.shown,
                    full |-> streamed.measured >= Window]
           kept == [logger EXCEPT !.buffer = Append(@, line), !.made = @ + 1]
           all2 == Append(all, line)
           buffer2 == Append(buffer, line)
<1>1. /\ StatsTyped /\ WindowInv /\ FilesInv /\ NumbersInv
      /\ streamed.on /\ logger.on /\ now < MaxTicks /\ now' = now + 1
      /\ tracker' = tracker /\ streamed' = streamed
      /\ told' = [told EXCEPT ![name].lines = Append(@, line)]
      /\ \/ \E f \in FlushLog(kept, file) : Writes(f)
         \/ logger' = kept /\ files' = files /\ faults' = faults
  BY DEF StatsInv, LogTick
<1>2. /\ name \in 0 .. MaxTicks /\ logger \in Logs /\ logger.made \in Nat /\ faults \in Nat
      /\ buffer \in Seq(Lines) /\ now \in 0 .. MaxTicks
      /\ tracker.history \in Seq(Nat) /\ tracker.shown \in SUBSET Nat
      /\ streamed.session \in Nat /\ streamed.measured \in Nat
  BY <1>1 DEF StatsTyped, Logs
<1>3. file \in Seq(Lines) /\ all \in Seq(Lines) /\ cut \in BOOLEAN /\ Pending(name) = buffer
  BY <1>1, <1>2, LinesTyped DEF Pending
<1>4. /\ line \in Lines /\ line.session = streamed.session /\ line.number = logger.made + 1
      /\ line.full => line.latency = {line.session}
  <2>1. line \in Lines
    BY <1>2 DEF Lines
  <2>2. ASSUME streamed.measured >= Window
        PROVE  tracker.shown = {streamed.session}
    <3> DEFINE history == tracker.history
    <3>1. /\ history \in Seq(Nat) /\ Len(history) \in Nat /\ Len(history) <= Window /\ Len(history) > 0
          /\ tracker.shown = Shown(history)
      BY <1>1, <1>2, <2>2, SMTT(60) DEF WindowInv
    <3>2. \A i \in 1 .. Len(history) : i > Len(history) - streamed.measured
      BY <1>2, <2>2, <3>1
    <3>3. \A i \in 1 .. Len(history) : history[i] = streamed.session
      BY <1>1, <3>2 DEF WindowInv
    <3> HIDE DEF history
    <3>4. 1 \in 1 .. Len(history)
      BY <3>1
    <3> QED
      BY <3>1, <3>3, <3>4 DEF Shown
  <2> QED
    BY <2>1, <2>2
<1>5. kept \in Logs /\ kept.on /\ kept.name = name /\ kept.buffer = buffer2 /\ kept.made = logger.made + 1
  <2>1. buffer2 \in Seq(Lines) /\ logger.made + 1 \in Nat
    BY <1>2, <1>4
  <2>2. kept = [logger EXCEPT !.buffer = buffer2, !.made = logger.made + 1]
    OBVIOUS
  <2> HIDE DEF buffer2, kept
  <2> QED
    BY <1>1, <1>2, <2>1, <2>2 DEF Logs, name
<1>6. \A i \in 1 .. Len(all) : Before(all[i], line)
  <2> SUFFICES ASSUME NEW i \in 1 .. Len(all) PROVE Before(all[i], line)
    OBVIOUS
  <2>1. all[i].session \in Nat /\ all[i].number \in Nat
    BY <1>1, <1>2, LinesTyped
  <2>2. /\ all[i].session <= streamed.session
        /\ all[i].session = streamed.session => all[i].number <= logger.made
    BY <1>1, <1>2 DEF NumbersInv
  <2>3. line.session = streamed.session /\ line.number = logger.made + 1 /\ logger.made \in Nat
        /\ streamed.session \in Nat
    BY <1>2, <1>4
  <2> DEFINE x == all[i]
             y == line
             m == logger.made
             k == streamed.session
  <2>4. /\ x.session \in Nat /\ x.number \in Nat /\ x.session <= k /\ (x.session = k => x.number <= m)
        /\ y.session = k /\ y.number = m + 1 /\ m \in Nat /\ k \in Nat
    BY <2>1, <2>2, <2>3
  <2> HIDE DEF all, line, all2, buffer2, kept, x, y, m, k
  <2>5. Before(x, y)
    BY <2>4 DEF Before
  <2> QED
    BY <2>5 DEF x, y
<1>7. FileKept(file, all2, buffer2, cut)
  <2>1. FileKept(file, all, buffer, cut)
    BY <1>1, <1>2, <1>3 DEF FilesInv
  <2>2. /\ file \in Seq(Lines) /\ all \in Seq(Lines) /\ buffer \in Seq(Lines) /\ cut \in BOOLEAN
        /\ line \in Lines
    BY <1>2, <1>3, <1>4
  <2>3. line.full => line.latency = {line.session}
    BY <1>4
  <2> HIDE DEF file, all, buffer, cut, line, kept
  <2> QED
    BY <1>6, <2>1, <2>2, <2>3, LineTold, SMTT(30)
<1>8. all2 \in Seq(Lines) /\ buffer2 \in Seq(Lines) /\ now \in Nat
  BY <1>2, <1>3, <1>4
<1>9. /\ told' \in [0 .. MaxTicks -> [lines : Seq(Lines), cut : BOOLEAN]]
      /\ told'[name].lines = all2 /\ told'[name].cut = cut
      /\ \A t \in 0 .. MaxTicks : t # name => told'[t] = told[t]
  <2>1. told \in [0 .. MaxTicks -> [lines : Seq(Lines), cut : BOOLEAN]]
    BY <1>1 DEF StatsTyped
  <2>2. told' = [told EXCEPT ![name].lines = all2]
    BY <1>1
  <2> HIDE DEF all2, name
  <2> QED
    BY <1>2, <1>8, <2>1, <2>2 DEF cut
\* What the disk has of it, and what is still buffered.
<1>10. /\ logger' \in Logs /\ logger'.on /\ logger'.name = name /\ logger'.made = logger.made + 1
       /\ faults' \in Nat
       /\ files' \in [0 .. MaxTicks -> Seq(Lines)]
       /\ \A t \in 0 .. MaxTicks : t # name => files'[t] = files[t]
       /\ FileKept(files'[name], all2, logger'.buffer, cut)
  <2>1. files \in [0 .. MaxTicks -> Seq(Lines)]
    BY <1>1 DEF StatsTyped
  <2>2. CASE logger' = kept /\ files' = files /\ faults' = faults
    <3> HIDE DEF kept, all2, buffer2
    <3> QED
      BY <1>2, <1>5, <1>7, <2>1, <2>2
  <2>3. CASE \E f \in FlushLog(kept, file) : Writes(f)
    <3>1. PICK f \in FlushLog(kept, file) : Writes(f)
      BY <2>3
    <3>2. FileKept(file, all2, kept.buffer, cut)
      BY <1>5, <1>7
    <3> HIDE DEF kept, all2, buffer2
    <3>3. /\ f \in Outcomes
          /\ f.logger.on = kept.on /\ f.logger.name = kept.name /\ f.logger.made = kept.made
          /\ FileKept(f.lines, all2, f.logger.buffer, cut)
      <4>1. kept \in Logs /\ file \in Seq(Lines) /\ all2 \in Seq(Lines) /\ cut \in BOOLEAN /\ now \in Nat
        BY <1>3, <1>5, <1>8
      <4> HIDE DEF file, cut, name
      <4>2. f \in FlushLog(kept, file)
        BY <3>1
      <4> QED
        BY <3>2, <4>1, <4>2, FlushKeepsLines
    <3>4. /\ logger' = f.logger /\ files' = [files EXCEPT ![name] = f.lines]
          /\ faults' = faults + (IF f.fault THEN 1 ELSE 0)
      BY <3>1 DEF Writes
    <3>5. f.logger \in Logs /\ f.lines \in Seq(Lines)
      BY <3>3 DEF Outcomes
    <3>6. faults' \in Nat
      BY <1>2, <3>4
    <3>7. /\ files' \in [0 .. MaxTicks -> Seq(Lines)] /\ files'[name] = f.lines
          /\ \A t \in 0 .. MaxTicks : t # name => files'[t] = files[t]
      BY <1>2, <2>1, <3>4, <3>5
    <3> QED
      BY <1>5, <3>3, <3>4, <3>5, <3>6, <3>7
  <2> QED
    BY <1>1, <2>2, <2>3
<1> HIDE DEF all2, buffer2, kept, line, name, cut
<1>11. StatsTyped'
  <2>1. now' \in 0 .. MaxTicks
    BY <1>1, <1>2, SMTT(60)
  <2> QED
    BY <1>1, <1>9, <1>10, <2>1 DEF StatsTyped
<1>12. WindowInv'
  BY <1>1 DEF WindowInv
<1>13. FilesInv'
  <2> SUFFICES ASSUME NEW t \in 0 .. MaxTicks
               PROVE  FileKept(files[t], told[t].lines, Pending(t), told[t].cut)'
    BY DEF FilesInv
  <2>1. CASE t = name
    <3>1. Pending(t)' = logger'.buffer
      BY <1>10, <2>1 DEF Pending
    <3>2. FileKept(files'[t], told'[t].lines, logger'.buffer, told'[t].cut)
      BY <1>9, <1>10, <2>1
    <3> QED
      BY <3>1, <3>2
  <2>2. CASE t # name
    <3>1. files'[t] = files[t] /\ told'[t] = told[t]
      BY <1>9, <1>10, <2>2
    <3>2. Pending(t)' = Pending(t)
      BY <1>10, <2>2 DEF Pending, name
    <3> QED
      BY <3>1, <3>2, OtherFile
  <2> QED
    BY <2>1, <2>2
<1>14. NumbersInv'
  <2> SUFFICES ASSUME NEW t \in 0 .. MaxTicks, NEW i \in 1 .. Len(told'[t].lines)
               PROVE  LET l == told'[t].lines[i]
                      IN  /\ l.session <= streamed.session
                          /\ logger'.name = t /\ l.session = streamed.session => l.number <= logger'.made
    BY <1>1 DEF NumbersInv
  <2>1. CASE t # name
    <3>1. told'[t] = told[t] /\ logger'.name # t
      BY <1>9, <1>10, <2>1
    <3> QED
      BY <1>1, <3>1 DEF NumbersInv
  <2>2. CASE t = name
    <3>1. told'[t].lines = all2 /\ i \in 1 .. Len(all2)
      BY <1>9, <2>2
    <3>2. CASE i \in 1 .. Len(all)
      <4>1. all2[i] = all[i]
        BY <1>3, <1>4, <3>2 DEF all2
      <4>2. all[i].session \in Nat /\ all[i].number \in Nat
        BY <1>1, <1>2, <3>2, LinesTyped DEF name
      <4>3. /\ all[i].session <= streamed.session
            /\ all[i].session = streamed.session => all[i].number <= logger.made
        BY <1>1, <1>2, <3>2 DEF NumbersInv, name
      <4> HIDE DEF all
      <4>4. all[i].session = streamed.session => all[i].number <= logger.made + 1
        BY <1>2, <4>2, <4>3, SMTT(60)
      <4> QED
        BY <1>10, <3>1, <4>1, <4>3, <4>4
    <3>3. CASE i = Len(all) + 1
      <4>1. all2[i] = line
        BY <1>3, <1>4, <3>3 DEF all2
      <4>2. line.session <= streamed.session /\ line.number <= logger.made + 1
        BY <1>2, <1>4
      <4> QED
        BY <1>10, <3>1, <4>1, <4>2
    <3>4. i \in 1 .. Len(all) \/ i = Len(all) + 1
      <4>1. Len(all2) = Len(all) + 1 /\ Len(all) \in Nat
        BY <1>3, <1>4 DEF all2
      <4>2. i \in 1 .. Len(all) + 1
        BY <3>1, <4>1, Zenon
      <4> QED
        BY <4>1, <4>2
    <3> QED
      BY <3>2, <3>3, <3>4
  <2> QED
    BY <2>1, <2>2
<1> QED
  BY <1>11, <1>12, <1>13, <1>14 DEF StatsInv

LEMMA LogSessionEnds == StatsInv /\ EndLogSession => StatsInv'
<1> SUFFICES ASSUME StatsInv, EndLogSession PROVE StatsInv'
  OBVIOUS
<1> USE StatsAssumption DEF StatsAssumption
<1> DEFINE name == logger.name
           all == told[name].lines
           file == files[name]
           buffer == logger.buffer
           cut == told[name].cut
<1>1. /\ StatsTyped /\ WindowInv /\ FilesInv /\ NumbersInv
      /\ now' = now /\ tracker' = tracker /\ logger' = NoLogger
      /\ streamed' = [streamed EXCEPT !.on = FALSE]
  BY DEF StatsInv, EndLogSession
<1>2. /\ name \in 0 .. MaxTicks /\ logger \in Logs /\ faults \in Nat
      /\ buffer \in Seq(Lines) /\ now \in Nat
  BY <1>1 DEF StatsTyped, Logs
<1>3. /\ streamed' \in [on : BOOLEAN, session : Nat, frames : Nat, measured : Nat]
      /\ streamed'.on = FALSE /\ streamed'.session = streamed.session
  BY <1>1 DEF StatsTyped
<1>4. <<>> \in Seq(Lines) /\ logger' \in Logs /\ ~logger'.on
  BY <1>1 DEF NoLogger, Logs
<1>5. WindowInv'
  BY <1>1, <1>3 DEF WindowInv
<1>6. \A t \in 0 .. MaxTicks : Pending(t)' = <<>>
  BY <1>4 DEF Pending
<1>7. /\ files \in [0 .. MaxTicks -> Seq(Lines)]
      /\ told \in [0 .. MaxTicks -> [lines : Seq(Lines), cut : BOOLEAN]]
  BY <1>1 DEF StatsTyped
<1>8. /\ files' \in [0 .. MaxTicks -> Seq(Lines)] /\ faults' \in Nat
      /\ told' \in [0 .. MaxTicks -> [lines : Seq(Lines), cut : BOOLEAN]]
      /\ \A t \in 0 .. MaxTicks : told'[t].lines = told[t].lines
      /\ \A t \in 0 .. MaxTicks : FileKept(files'[t], told'[t].lines, <<>>, told'[t].cut)
  <2>1. CASE ~logger.on
    <3>1. files' = files /\ faults' = faults /\ told' = told
      BY <2>1 DEF EndLogSession
    <3>2. \A t \in 0 .. MaxTicks : Pending(t) = <<>>
      BY <2>1 DEF Pending
    <3> QED
      BY <1>1, <1>2, <1>7, <3>1, <3>2 DEF FilesInv
  <2>2. CASE logger.on
    <3>1. PICK f \in FlushLog(logger, file) :
            /\ files' = [files EXCEPT ![name] = f.lines]
            /\ faults' = faults + (IF f.fault THEN 1 ELSE 0)
            /\ told' = [told EXCEPT ![name].cut = @ \/ f.fault]
      BY <2>2 DEF EndLogSession
    <3>2. file \in Seq(Lines) /\ all \in Seq(Lines) /\ cut \in BOOLEAN /\ Pending(name) = buffer
      BY <1>1, <1>2, <2>2, LinesTyped DEF Pending
    <3>3. FileKept(file, all, buffer, cut)
      BY <1>1, <1>2, <3>2 DEF FilesInv
    <3>4. /\ f \in Outcomes /\ FileKept(f.lines, all, f.logger.buffer, cut)
          /\ ~f.fault => f.logger.buffer = <<>>
      <4>1. f \in FlushLog(logger, file)
        BY <3>1
      <4>2. FileKept(file, all, logger.buffer, cut)
        BY <3>3
      <4> HIDE DEF file, all, cut, name, buffer
      <4> QED
        BY <1>2, <3>2, <4>1, <4>2, FlushKeepsLines
    <3>5. f.lines \in Seq(Lines) /\ f.fault \in BOOLEAN
      BY <3>4 DEF Outcomes
    <3>6. FileKept(f.lines, all, <<>>, cut \/ f.fault)
      <4>1. CASE f.fault
        <5>1. FileKept(f.lines, all, <<>>, TRUE) /\ (cut \/ f.fault) = TRUE
          <6> HIDE DEF all, cut
          <6>1. FileKept(f.lines, all, <<>>, TRUE)
            BY <3>2, <3>4, LinesLost, Zenon
          <6> QED
            BY <3>2, <3>5, <4>1, <6>1
        <5> QED
          BY <5>1
      <4>2. CASE ~f.fault
        <5>1. (cut \/ f.fault) = cut
          BY <3>2, <3>5, <4>2
        <5> QED
          BY <3>4, <4>2, <5>1
      <4> QED
        BY <4>1, <4>2
    <3>7. /\ told' \in [0 .. MaxTicks -> [lines : Seq(Lines), cut : BOOLEAN]]
          /\ told'[name].lines = all /\ told'[name].cut = (cut \/ f.fault)
          /\ \A t \in 0 .. MaxTicks : t # name => told'[t] = told[t]
      <4> DEFINE torn == cut \/ f.fault
      <4>1. told' = [told EXCEPT ![name].cut = torn] /\ torn \in BOOLEAN
        BY <3>1
      <4>2. told[name] \in [lines : Seq(Lines), cut : BOOLEAN]
        BY <1>2, <1>7
      <4> HIDE DEF torn
      <4>3. told'[name] = [told[name] EXCEPT !.cut = torn] /\ \A t \in 0 .. MaxTicks : t # name => told'[t] = told[t]
        BY <1>2, <1>7, <4>1
      <4>4. told'[name] \in [lines : Seq(Lines), cut : BOOLEAN] /\ told'[name].lines = all /\ told'[name].cut = torn
        BY <4>1, <4>2, <4>3
      <4>5. told' \in [0 .. MaxTicks -> [lines : Seq(Lines), cut : BOOLEAN]]
        BY <1>2, <1>7, <4>1, <4>2
      <4> QED
        BY <4>3, <4>4, <4>5 DEF torn
    <3>8. /\ files' \in [0 .. MaxTicks -> Seq(Lines)] /\ files'[name] = f.lines
          /\ \A t \in 0 .. MaxTicks : t # name => files'[t] = files[t]
      BY <1>2, <1>7, <3>1, <3>5
    <3>9. faults' \in Nat
      BY <1>2, <3>1
    <3>10. ASSUME NEW t \in 0 .. MaxTicks
           PROVE  FileKept(files'[t], told'[t].lines, <<>>, told'[t].cut) /\ told'[t].lines = told[t].lines
      <4>1. CASE t = name
        <5> HIDE DEF name, cut
        <5> QED
          BY <3>6, <3>7, <3>8, <4>1
      <4>2. CASE t # name
        <5>1. Pending(t) = <<>>
          BY <4>2 DEF Pending
        <5>2. FileKept(files[t], told[t].lines, <<>>, told[t].cut)
          BY <1>1, <5>1 DEF FilesInv
        <5>3. files'[t] = files[t] /\ told'[t] = told[t]
          BY <3>7, <3>8, <4>2
        <5> QED
          BY <5>2, <5>3
      <4> QED
        BY <4>1, <4>2
    <3> QED
      BY <3>7, <3>8, <3>9, <3>10
  <2> QED
    BY <2>1, <2>2
<1>9. StatsTyped'
  BY <1>1, <1>3, <1>4, <1>8 DEF StatsTyped
<1>10. FilesInv'
  BY <1>6, <1>8 DEF FilesInv
<1>11. NumbersInv'
  BY <1>1, <1>3, <1>4, <1>8 DEF NumbersInv
<1> QED
  BY <1>5, <1>9, <1>10, <1>11 DEF StatsInv

LEMMA LogIsCut == StatsInv /\ LoggedProcessDies => StatsInv'
<1> SUFFICES ASSUME StatsInv, LoggedProcessDies PROVE StatsInv'
  OBVIOUS
<1> USE StatsAssumption DEF StatsAssumption
<1> DEFINE name == logger.name
           torn == told[name].cut \/ logger.on
<1>1. /\ StatsTyped /\ WindowInv /\ FilesInv /\ NumbersInv
      /\ now' = now /\ tracker' = NewTracker /\ logger' = NoLogger /\ files' = files /\ faults' = faults
      /\ streamed' = [streamed EXCEPT !.on = FALSE]
      /\ told' = [told EXCEPT ![name].cut = torn]
  BY DEF StatsInv, LoggedProcessDies
<1>2. name \in 0 .. MaxTicks /\ logger \in Logs /\ logger.on \in BOOLEAN
  BY <1>1 DEF StatsTyped, Logs
<1>3. /\ streamed' \in [on : BOOLEAN, session : Nat, frames : Nat, measured : Nat]
      /\ streamed'.on = FALSE /\ streamed'.session = streamed.session
  BY <1>1 DEF StatsTyped
<1>4. <<>> \in Seq(Lines) /\ logger' \in Logs /\ ~logger'.on
  BY <1>1 DEF NoLogger, Logs
<1>5. tracker' \in [history : Seq(Nat), shown : SUBSET Nat] /\ WindowInv'
  <2>1. tracker'.history = <<>> /\ tracker'.shown = {} /\ tracker' \in [history : Seq(Nat), shown : SUBSET Nat]
    BY <1>1 DEF NewTracker
  <2>2. Len(<<>>) = 0 /\ Shown(<<>>) = {}
    BY DEF Shown
  <2> QED
    BY <1>3, <2>1, <2>2 DEF WindowInv
<1>6. \A t \in 0 .. MaxTicks : Pending(t)' = <<>>
  BY <1>4 DEF Pending
<1>7. /\ told' \in [0 .. MaxTicks -> [lines : Seq(Lines), cut : BOOLEAN]]
      /\ told'[name].lines = told[name].lines /\ told'[name].cut = torn
      /\ \A t \in 0 .. MaxTicks : t # name => told'[t] = told[t]
  <2>1. told \in [0 .. MaxTicks -> [lines : Seq(Lines), cut : BOOLEAN]] /\ torn \in BOOLEAN
    BY <1>1, <1>2 DEF StatsTyped
  <2>2. told[name] \in [lines : Seq(Lines), cut : BOOLEAN]
    BY <1>2, <2>1
  <2> HIDE DEF torn
  <2>3. told'[name] = [told[name] EXCEPT !.cut = torn] /\ \A t \in 0 .. MaxTicks : t # name => told'[t] = told[t]
    BY <1>1, <1>2, <2>1
  <2>4. told' \in [0 .. MaxTicks -> [lines : Seq(Lines), cut : BOOLEAN]]
    BY <1>1, <1>2, <2>1, <2>2
  <2>5. told'[name].lines = told[name].lines /\ told'[name].cut = torn
    BY <2>1, <2>2, <2>3
  <2> QED
    BY <2>3, <2>4, <2>5
<1>8. ASSUME NEW t \in 0 .. MaxTicks
      PROVE  FileKept(files[t], told'[t].lines, <<>>, told'[t].cut) /\ told'[t].lines = told[t].lines
  <2>1. /\ FileKept(files[t], told[t].lines, Pending(t), told[t].cut)
        /\ told[t].lines \in Seq(Lines) /\ told[t].cut \in BOOLEAN
    BY <1>1, LinesTyped DEF FilesInv
  <2>2. CASE t = name /\ logger.on
    <3>1. told'[t].lines = told[t].lines /\ told'[t].cut = TRUE
      BY <1>2, <1>7, <2>2
    <3>2. FileKept(files[t], told[t].lines, <<>>, TRUE)
      BY <2>1, LinesLost, Zenon
    <3> QED
      BY <3>1, <3>2
  <2>3. CASE ~(t = name /\ logger.on)
    <3>1. Pending(t) = <<>>
      BY <2>3 DEF Pending
    <3>2. told'[t].lines = told[t].lines /\ told'[t].cut = told[t].cut
      BY <1>2, <1>7, <2>1, <2>3
    <3> QED
      BY <2>1, <3>1, <3>2
  <2> QED
    BY <2>2, <2>3
<1> HIDE DEF name, torn
<1>9. StatsTyped'
  BY <1>1, <1>3, <1>4, <1>5, <1>7 DEF StatsTyped
<1>10. FilesInv'
  BY <1>1, <1>6, <1>8 DEF FilesInv
<1>11. NumbersInv'
  BY <1>1, <1>3, <1>4, <1>8 DEF NumbersInv
<1> QED
  BY <1>5, <1>9, <1>10, <1>11 DEF StatsInv

LEMMA StatsInvStep == StatsInv /\ [StatsNext]_statsVars => StatsInv'
<1> SUFFICES ASSUME StatsInv, [StatsNext]_statsVars PROVE StatsInv'
  OBVIOUS
<1>1. CASE UNCHANGED statsVars
  BY <1>1 DEF statsVars, StatsInv, StatsTyped, WindowInv, FilesInv, NumbersInv, Pending
<1> QED
  BY <1>1, LogSessionBegins, FrameIsMeasured, LineIsLogged, LogSessionEnds, LogIsCut DEF StatsNext

LEMMA Least ==
  ASSUME NEW T \in SUBSET Nat, T # {}
  PROVE  \E x \in T : \A y \in T : x <= y
<1> DEFINE R == OpToRel(<, Nat)
<1>1. \A m, n \in Nat : m < n => <<m, n>> \in R
  BY DEF OpToRel
<1>2. IsWellFoundedOn(R, Nat)
  BY NatLessThanWellFounded
<1> HIDE DEF R
<1>3. PICK x \in T : \A y \in T : ~ (<<y, x>> \in R)
  BY <1>2, WFMin, Zenon
<1>4. \A y \in T : x <= y
  <2> TAKE y \in T
  <2>1. x \in Nat /\ y \in Nat
    OBVIOUS
  <2>2. ~(y < x)
    BY <1>1, <1>3, <2>1
  <2> QED
    BY <2>1, <2>2
<1> QED
  BY <1>4

LEMMA FilesTell == StatsInv => LogTellsSession
<1> SUFFICES ASSUME StatsInv, NEW t \in 0 .. MaxTicks
             PROVE  LET file == files[t]
                        all == told[t].lines
                        buffered == IF logger.on /\ logger.name = t THEN Shown(logger.buffer) ELSE {}
                        At(line) == CHOOSE i \in 1..Len(file) : file[i] = line /\ \A k \in 1..i - 1 : file[k] # line
                    IN /\ ~told[t].cut => Shown(all) = Shown(file) \cup buffered
                       /\ \A i, j \in 1..Len(all) :
                            i < j /\ {all[i], all[j]} \subseteq Shown(file) => At(all[i]) < At(all[j])
                       /\ \A i \in 1..Len(all) : all[i].full => all[i].latency = {all[i].session}
  BY Zenon DEF LogTellsSession
<1> DEFINE file == files[t]
           all == told[t].lines
           buffered == IF logger.on /\ logger.name = t THEN Shown(logger.buffer) ELSE {}
           First(line, i) == file[i] = line /\ \A k \in 1 .. i - 1 : file[k] # line
           At(line) == CHOOSE i \in 1 .. Len(file) : First(line, i)
<1>1. /\ FileKept(file, all, Pending(t), told[t].cut)
      /\ file \in Seq(Lines) /\ all \in Seq(Lines)
  BY LinesTyped DEF StatsInv, FilesInv
<1>2. Shown(Pending(t)) = buffered
  <2>1. Shown(<<>>) = {}
    BY DEF Shown
  <2> QED
    BY <2>1 DEF Pending
<1>3. ~told[t].cut => Shown(all) = Shown(file) \cup buffered
  BY <1>1, <1>2 DEF FileKept
<1>4. \A i \in 1 .. Len(all) : all[i].full => all[i].latency = {all[i].session}
  BY <1>1 DEF FileKept, OfOwnSession
<1>5. ASSUME NEW line \in Shown(file)
      PROVE  At(line) \in 1 .. Len(file) /\ First(line, At(line))
  <2> DEFINE T == {i \in 1 .. Len(file) : file[i] = line}
  <2>1. T \in SUBSET Nat /\ T # {}
    BY DEF Shown
  <2>2. PICK x \in T : \A y \in T : x <= y
    BY <2>1, Least
  <2>3. x \in 1 .. Len(file) /\ file[x] = line
    BY <2>2
  <2>4. ASSUME NEW k \in 1 .. x - 1 PROVE file[k] # line
    <3>1. Len(file) \in Nat
      BY <1>1
    <3>2. k \in 1 .. Len(file) /\ ~(x <= k)
      BY <2>3, <3>1
    <3> QED
      BY <2>2, <3>2
  <2> HIDE DEF T, file
  <2> QED
    BY <2>3, <2>4, Zenon
<1>6. ASSUME NEW i \in 1 .. Len(all), NEW j \in 1 .. Len(all), i < j,
             all[i] \in Shown(file), all[j] \in Shown(file)
      PROVE  At(all[i]) < At(all[j])
  <2> DEFINE a == At(all[i])
             b == At(all[j])
  <2>1. /\ a \in 1 .. Len(file) /\ file[a] = all[i] /\ \A k \in 1 .. a - 1 : file[k] # all[i]
        /\ b \in 1 .. Len(file) /\ file[b] = all[j]
    BY <1>5, <1>6
  <2> HIDE DEF a, b
  <2>2. PICK earlier \in 1 .. b - 1 : file[earlier] = all[i]
    BY <1>1, <1>6, <2>1 DEF FileKept, Tells
  <2>3. ~(earlier \in 1 .. a - 1)
    BY <2>1, <2>2
  <2>4. a < b
    BY <1>1, <2>1, <2>3
  <2> QED
    BY <2>4 DEF a, b
<1> HIDE DEF file, all, buffered
<1>7. \A i, j \in 1 .. Len(all) : i < j /\ {all[i], all[j]} \subseteq Shown(file) => At(all[i]) < At(all[j])
  BY <1>6
<1> QED
  BY <1>3, <1>4, <1>7, Zenon DEF file, all, buffered

\* The session log, whatever the disk refuses and wherever the process dies: a file misses no line
\* but the buffered ones unless a last flush failed, has its lines in the order they were recorded,
\* and a line's latency is of its own session once a window of its frames was measured.
THEOREM LogAlwaysTellsSession == StatsSpec => []LogTellsSession
<1> QED
  BY StatsInvInit, StatsInvStep, FilesTell, PTL DEF StatsSpec

(* The headset's reports and the simulator's count name every packet skipped *)
(* once, transport feedback finds the send times of the last packets in      *)
(* order, and the session log's files hold what was told of the session, in  *)
(* order (accountSequence(), count_rtp_gap(), record_send_timestamps(),      *)
(* session_logger.rs).                                                       *)
THEOREM FiguresAlwaysTell == LinkSpec /\ StatsSpec => []FiguresTell
<1>1. LossesCountedOnce /\ SentLogAnswers /\ LogTellsSession => FiguresTell
  BY DEF FiguresTell, LinkAccounting
<1> QED
  BY <1>1, LossesAlwaysCountedOnce, SentLogAlwaysAnswers, LogAlwaysTellsSession, PTL
=============================================================================
