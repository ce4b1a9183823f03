-------------------------- MODULE AdaptiveBitrate --------------------------
(***************************************************************************)
(* What decides the encoder's bitrate and the parity of the packets while  *)
(* a session streams: the frame loop's AdaptiveState (engine.rs) with the  *)
(* bitrate controller, the burst detector, the loss average, the adaptive  *)
(* FEC controller and the sleep detector; the thermal governor, which      *)
(* outlives the sessions; and the driver's encoder, which is told a        *)
(* bitrate and takes it at its next frame.                                 *)
(*                                                                         *)
(* The frame loop owns all of it, so one action is one event of its        *)
(* select!: a heartbeat's statistics, a bitrate chosen in the headset, a   *)
(* frame.  Rates are in any unit fine enough for steps of 5 %, losses and  *)
(* redundancies in percent.  The passing of time is a choice of the action *)
(* that reads the clock.                                                   *)
(***************************************************************************)
EXTENDS Integers

CONSTANTS
  MinRate,       \* MIN_BITRATE_MBPS
  Settings,      \* the bitrates the user may choose, up to MAX_BITRATE_MBPS
  Configured,    \* [video] bitrate_mbps
  SleepRate,     \* [sleep_mode] sleep_bitrate_mbps
  MinFec, MaxFec, ConfiguredFec,  \* [network] fec_redundancy_min, _max and fec_redundancy
  LossReports,   \* the losses that the statistics of an interval may show
  GccEnabled,    \* [network] congestion_control = "gcc"
  FecEnabled,    \* [network] adaptive_fec_enabled
  Governed,      \* there is a thermal governor
  Sleeps,        \* [sleep_mode] enabled
  EncoderFails   \* nvEncReconfigureEncoder may fail

ASSUME RateAssumption ==
  /\ MinRate \in Nat \ {0}
  /\ Settings \subseteq {r \in Nat : r >= MinRate}
  /\ Configured \in Settings
  /\ SleepRate \in Nat \ {0}

ASSUME FecAssumption ==
  /\ {MinFec, MaxFec, ConfiguredFec} \subseteq 0..100
  /\ MinFec <= ConfiguredFec /\ ConfiguredFec <= MaxFec

ASSUME ReportAssumption ==
  /\ LossReports \subseteq 0..100 /\ 0 \in LossReports
  /\ {GccEnabled, FecEnabled, Governed, Sleeps, EncoderFails} \subseteq BOOLEAN

VARIABLES
  ab,        \* AdaptiveState and the FEC encoder's redundancy, of the session
  governor,  \* ThermalGovernor: its multiplier in percent and its recovery ramp
  encoder,   \* NvencEncoder: its bitrate and m_pendingBitrate, 0 for none; what it was told last
  calm       \* the network loses nothing and queues nothing

vars == <<ab, governor, encoder, calm>>

None == -1  \* no ceiling, no statistics, no average yet

Smaller(a, b) == IF a <= b THEN a ELSE b
Larger(a, b) == IF a >= b THEN a ELSE b
Within(x, low, high) == Larger(Smaller(x, high), low)

-----------------------------------------------------------------------------
(* Bitrate controller.                                                     *)

\* AdaptiveState::new().  `tells` is the bitrate the handler gives to
\* notify_bitrate_change(), 0 if it does not call it.
NewAdaptive ==
  [current |-> Configured, setting |-> Configured, ceiling |-> None, settled |-> FALSE,
   pending |-> None, loss |-> None, pattern |-> "None",
   fec |-> ConfiguredFec, boost |-> FALSE, sent |-> ConfiguredFec,
   asleep |-> FALSE, tells |-> 0]

\* clamp_to_bounds() and clamp_with_thermal(): the floor wins.
Clamp(s, rate) ==
  Larger(Smaller(rate, IF s.ceiling = None THEN s.setting ELSE Smaller(s.setting, s.ceiling)), MinRate)

Tell(s) == [s EXCEPT !.tells = s.current]

\* The factor of arbitrate(), in percent; `overuse` is a delay gradient above 2 ms.
Multiplier(s, overuse) ==
  CASE s.pattern = "Burst" -> 100
    [] s.pattern = "Sustained" \/ (s.pattern = "None" /\ s.loss > 5) -> 80
    [] s.pattern = "None" /\ s.loss <= 5 /\ overuse -> 90
    [] s.pattern = "None" /\ s.loss \in 3..5 /\ ~overuse -> 95
    [] s.pattern = "None" /\ s.loss <= 2 /\ ~overuse -> IF s.settled /\ s.loss < 1 THEN 105 ELSE 100

\* BitrateController::adjust(), and the call of notify_bitrate_change() if it
\* changed the bitrate.
Adjust(s, overuse) ==
  LET target == Clamp(s, (s.current * Multiplier(s, overuse)) \div 100)
  IN IF target = s.current THEN s ELSE Tell([s EXCEPT !.current = target, !.settled = FALSE])

\* set_setting_mbps()
ChooseSetting(s, rate) ==
  LET chosen == [s EXCEPT !.setting = rate]
  IN [chosen EXCEPT !.current = Clamp(chosen, rate), !.settled = FALSE]

-----------------------------------------------------------------------------
(* Loss average, burst detector and adaptive FEC.                          *)

\* BandwidthEstimator::update(): the average takes 30 % of the new loss.
Average(s, loss) ==
  [s EXCEPT !.loss = IF s.loss = None THEN loss ELSE (3 * loss + 7 * s.loss) \div 10]

\* BurstDetector::record(); `long` is that a running burst is older than the
\* threshold.
Record(s, loss, long) ==
  [s EXCEPT !.pattern =
     CASE loss < 5 -> "None"
       [] loss >= 5 /\ s.pattern = "None" -> "Burst"
       [] loss >= 5 /\ s.pattern # "None" -> IF long THEN "Sustained" ELSE s.pattern]

\* AdaptiveFecController::effective_redundancy() and FrameFecEncoder::set_redundancy()
Effective(s) == IF s.boost THEN Larger(MaxFec, s.fec) ELSE s.fec
Send(s) == [s EXCEPT !.sent = Effective(s)]

\* The redundancy AdaptiveFecController::adjust() aims at.
FecTarget(loss) ==
  Within(CASE loss < 1 -> 5
           [] loss \in 1..2 -> 15
           [] loss \in 3..4 -> 25
           [] loss >= 5 -> 40, MinFec, MaxFec)

\* AdaptiveFecController::adjust(), at most 5 % a time and, unless `due`, not yet.
AdjustFec(s, due) ==
  LET fec == s.fec + Within(FecTarget(s.loss) - s.fec, -5, 5)
  IN IF due /\ fec # s.fec THEN Send([s EXCEPT !.fec = fec]) ELSE s

\* Mutant: the boost ends and the encoder is not told.
EndBoostSilently(s) == IF Effective(s) # s.fec THEN [s EXCEPT !.boost = FALSE] ELSE s

\* A burst sends the most parity, and the end of one takes that back.
Boost(s) == Send([s EXCEPT !.boost = TRUE])
EndBoost(s) == IF Effective(s) # s.fec THEN Send([s EXCEPT !.boost = FALSE]) ELSE s

\* Mutant: the bitrate is adjusted before the burst is judged.
TickAdjustsFirst(s, overuse, long, due) ==
  IF s.pending = None THEN s
  ELSE LET averaged == [Average(s, s.pending) EXCEPT !.pending = None]
           adjusted == Adjust(averaged, GccEnabled /\ overuse)
           judged == IF GccEnabled THEN Record(adjusted, s.pending, long) ELSE adjusted
       IN IF ~FecEnabled THEN judged
          ELSE IF judged.pattern = "Burst" THEN Boost(judged)
          ELSE AdjustFec(EndBoost(judged), due)

\* AdaptiveState::tick()
Tick(s, overuse, long, due) ==
  IF s.pending = None THEN s
  ELSE LET averaged == [Average(s, s.pending) EXCEPT !.pending = None]
           judged == IF GccEnabled THEN Record(averaged, s.pending, long) ELSE averaged
           adjusted == Adjust(judged, GccEnabled /\ overuse)
       IN IF ~FecEnabled THEN adjusted
          ELSE IF adjusted.pattern = "Burst" THEN Boost(adjusted)
          ELSE AdjustFec(EndBoost(adjusted), due)

-----------------------------------------------------------------------------
(* Thermal governor and sleep detector.                                    *)

\* The multiplier, in tens of percent, of a recovery that started at `from` and
\* is `done` percent through.
Ramp(from, done) == 10 * ((from + ((100 - from) * done) \div 100) \div 10)

\* The states tick_at() may leave the governor in when it polls, by what the
\* temperature reads.  A ramp is named by where it started, 0 for none.
Cooling(g) ==
  IF g.ramp = 0 /\ g.multiplier = 100 THEN {g}
  ELSE LET from == IF g.ramp = 0 THEN g.multiplier ELSE g.ramp
           done == IF g.ramp = 0 THEN {0} ELSE {0, 50, 100}
           later == {d \in done : g.multiplier \in {100} \cup 0..Ramp(from, d)}
       IN {[multiplier |-> Ramp(from, d), ramp |-> IF d = 100 THEN 0 ELSE from] : d \in later}

Polls(g) ==
  {[multiplier |-> 50, ramp |-> 0], [multiplier |-> 70, ramp |-> 0],  \* emergency, limit
   [g EXCEPT !.ramp = 0],                                              \* warn
   [g EXCEPT !.multiplier = 100]}                                      \* no reading
  \cup Cooling(g)

\* Mutant: the ceiling is kept for the next adjustment.
CeilingLater(s, multiplier) == [s EXCEPT !.ceiling = (s.setting * multiplier) \div 100]

\* set_thermal_ceiling_bps(), as the frame loop calls it: of the setting.
SetCeiling(s, multiplier) ==
  LET capped == [s EXCEPT !.ceiling = (s.setting * multiplier) \div 100]
  IN [capped EXCEPT !.current = Clamp(capped, s.current)]

\* SleepDetector::update(): the transitions it may find, by the head's motion.
Transitions(s) == {asleep \in IF Sleeps THEN BOOLEAN ELSE {} : asleep # s.asleep}

\* Mutant: wakes at the configured bitrate.
WakeAsConfigured(s) ==
  {s} \cup {[s EXCEPT !.asleep = asleep, !.tells = IF asleep THEN SleepRate ELSE Configured]
               : asleep \in Transitions(s)}

\* check_sleep_mode(): a transition tells the encoder.
CheckSleep(s) ==
  {s} \cup {[s EXCEPT !.asleep = asleep, !.tells = IF asleep THEN SleepRate ELSE s.setting]
               : asleep \in Transitions(s)}

-----------------------------------------------------------------------------
(* Frame loop.                                                             *)

\* The handler ends with the state s.
Becomes(s) ==
  /\ ab' = [s EXCEPT !.tells = 0]
  /\ encoder' = IF s.tells = 0 THEN encoder ELSE [encoder EXCEPT !.pending = s.tells, !.told = s.tells]

Init ==
  /\ ab = NewAdaptive
  /\ governor = [multiplier |-> 100, ramp |-> 0]
  /\ encoder = [rate |-> Configured, pending |-> 0, told |-> Configured]
  /\ calm \in BOOLEAN

\* ControlEvent::Heartbeat: the counts of the intervals since the last tick
\* add up, so the loss is somewhere between theirs.
Heartbeat ==
  /\ \E loss \in LossReports :
       /\ calm => loss = 0
       /\ \E sum \in LossReports :
            /\ IF ab.pending = None THEN sum = loss
               ELSE Smaller(ab.pending, loss) <= sum /\ sum <= Larger(ab.pending, loss)
            /\ ab' = [ab EXCEPT !.pending = sum]
  /\ UNCHANGED <<governor, encoder, calm>>

\* Mutant: the new setting reaches the encoder with the next adjustment.
BitrateSettingLater(rate) ==
  /\ Becomes(ChooseSetting(ab, rate))
  /\ UNCHANGED <<governor, calm>>

\* ControlEvent::BitrateSetting
BitrateSetting(rate) ==
  /\ Becomes(Tell(ChooseSetting(ab, rate)))
  /\ UNCHANGED <<governor, calm>>

\* A frame was sent: the tick of every `framerate` frames, the governor, the
\* sleep detector.
Frame(ticks) ==
  /\ \E overuse, long \in {FALSE, GccEnabled}, due \in {FALSE, FecEnabled} :
       /\ calm => ~overuse
       /\ LET ticked == IF ticks THEN Tick(ab, overuse, long, due) ELSE ab
          IN \/ /\ \E s \in CheckSleep(ticked) : Becomes(s)
                /\ UNCHANGED governor
             \/ /\ Governed
                /\ \E g \in Polls(governor) :
                     /\ governor' = g
                     /\ \E s \in CheckSleep(SetCeiling(ticked, g.multiplier)) : Becomes(s)
  /\ UNCHANGED calm

\* The hysteresis after the last change of the bitrate is over.
HysteresisElapses ==
  /\ ab' = [ab EXCEPT !.settled = TRUE]
  /\ UNCHANGED <<governor, encoder, calm>>

\* The session ended and run_session() serves the next one.
NewSession ==
  /\ Becomes(Tell(NewAdaptive))
  /\ UNCHANGED <<governor, calm>>

\* applyPendingBitrate(), on the driver's thread before a frame is encoded.
EncoderTakes ==
  /\ encoder.pending # 0
  /\ encoder' = [encoder EXCEPT !.rate = encoder.pending, !.pending = 0]
  /\ UNCHANGED <<ab, governor, calm>>

EncoderRefuses ==
  /\ EncoderFails
  /\ encoder.pending \notin {0, encoder.rate}
  /\ encoder' = [encoder EXCEPT !.pending = 0]
  /\ UNCHANGED <<ab, governor, calm>>

\* The network, not the code.
Weather ==
  /\ calm' = ~calm
  /\ UNCHANGED <<ab, governor, encoder>>

Next ==
  \/ Heartbeat
  \/ \E rate \in Settings : BitrateSetting(rate)
  \/ Frame(TRUE)
  \/ Frame(FALSE)
  \/ HysteresisElapses
  \/ NewSession
  \/ EncoderTakes
  \/ EncoderRefuses
  \/ Weather

Spec == Init /\ [][Next]_vars

\* While SteamVR renders, frames come, every so many of them with a tick; the
\* headset sends a heartbeat every 500 ms; time passes; and the encoder takes
\* a bitrate if it is asked again and again.
FairSpec ==
  /\ Spec
  /\ WF_vars(Frame(TRUE)) /\ WF_vars(Heartbeat) /\ WF_vars(HysteresisElapses)
  /\ SF_vars(EncoderTakes)

-----------------------------------------------------------------------------
(* Properties.                                                             *)

\* The state is well formed: redundancies stay within [min, max] as far as the
\* controller moves them (fec.rs), and a handler leaves nothing untold.
AdaptiveTypeOK ==
  /\ ab.current \in Nat /\ ab.setting \in Settings /\ ab.ceiling \in Nat \cup {None}
  /\ ab.pending \in LossReports \cup {None} /\ ab.loss \in 0..100 \cup {None}
  /\ ab.pattern \in {"None", "Burst", "Sustained"}
  /\ ab.fec \in MinFec..MaxFec /\ ab.sent \in MinFec..MaxFec
  /\ ab.tells = 0
  /\ {ab.settled, ab.boost, ab.asleep} \subseteq BOOLEAN
  /\ governor.multiplier \in 50..100 /\ governor.ramp \in {0} \cup 50..99
  /\ encoder.rate \in Nat \ {0} /\ encoder.told \in Nat \ {0}
  /\ encoder.pending \in {0, encoder.told}
  /\ calm \in BOOLEAN

\* The controller stays between the floor and the user's setting, and under the
\* thermal ceiling unless that is below the floor, however settings, ceilings and
\* adjustments follow each other (bitrate_controller.rs).
RateInBounds ==
  /\ MinRate <= ab.current /\ ab.current <= ab.setting
  /\ ab.ceiling # None => ab.current <= Larger(MinRate, ab.ceiling)

\* No way the bitrate takes (controller, setting, ceiling, sleep, wake, a new
\* session) asks the encoder for more than the setting of the user, or than the
\* sleep bitrate if that is larger.
NeverAboveSetting == encoder.told <= Larger(ab.setting, SleepRate)

\* The bitrate is bounded on both sides of the encoder's request.
BitrateBounded == RateInBounds /\ NeverAboveSetting

\* The packets carry the redundancy that the FEC controller decided on, in and
\* after bursts and in every new session (engine.rs tick(), fec.rs).
FecInStep == ab.sent = Effective(ab)

\* Without a thermal governor and sleep, the encoder is always asked for what the
\* controller decided on: no other change of the bitrate forgets to tell the driver.
EncoderInStep == encoder.told = ab.current

\* What the two controllers decide reaches the two encoders.
DecisionsReachEncoders == FecInStep /\ EncoderInStep

\* A burst is met with parity and not with the bitrate: when one is first seen
\* the bitrate stays (unless the governor caps it) and the most parity is sent
\* (bitrate_controller.rs arbitrate(), engine.rs tick()).
BurstIsMetByFec ==
  [][ab.pattern = "None" /\ ab'.pattern = "Burst" =>
       /\ ab'.current = Clamp(ab', ab.current)
       /\ FecEnabled => ab'.sent = MaxFec]_vars

\* The encoder refused what it was last asked, and nobody asks again before the
\* controller's next change (nvenc_encoder.cpp applyPendingBitrate()).
LastRequestRefused == encoder.pending = 0 /\ encoder.rate # encoder.told

\* Once the network stays calm and the user's setting the same, the encoder comes
\* to that setting and stays there, from any state of loss, delay or burst,
\* unless it goes on without what it refused.
RecoversToSetting ==
  \A rate \in Settings :
    <>[](calm /\ ab.setting = rate /\ ~LastRequestRefused) => <>[](encoder.rate = rate)

\* bitrate_controller.rs:277-279, of set_thermal_ceiling_bps(): the live bitrate is
\* clamped "so the cap takes effect on the next frame, not the next adjustment cycle".
CapReachesEncoder ==
  ab.ceiling # None /\ ~ab.asleep => encoder.told <= Larger(MinRate, ab.ceiling)
=============================================================================
