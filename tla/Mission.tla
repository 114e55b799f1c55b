------------------------------ MODULE Mission -------------------------------
(***************************************************************************)
(* A SIL run of the control loop over one of the plant's RC scenarios      *)
(* (plant/rc.py), a tick of 1 ms at a time: the scenario's sticks become   *)
(* an SBUS frame of 25 bytes, which the firmware's parser turns back into  *)
(* a sample for ControlLoop's stages.  sil_runner passes --arm-test or not, and boots   *)
(* after a fault or not; runner.py may declare the IMU invalid from some   *)
(* tick on.  A receiver on a wire (on the chip) sends a frame in every     *)
(* period-th tick only; the plant sends one in each.                       *)
(*                                                                         *)
(* Sticks and throttles are in thousandths.  Everything is deterministic   *)
(* once the mission is chosen, and is checked against closed forms: the    *)
(* tick in which the craft arms, and the one in which it fails.            *)
(***************************************************************************)
EXTENDS ControlLoop, SbusCodec, FiniteSetsExt

CONSTANTS
  Missions,            \* scenario, period and imu_after (--imu-invalid-after, 0 for never)
  Still, Moving        \* readings of a gyro at rest, and of one that is turning

VARIABLES
  mission,
  tick               \* the plant's tick, and the firmware's c.tick

missionvars == <<vars, mission, tick>>

-----------------------------------------------------------------------------
(* The scenarios: what _frame puts into a frame of a tick, and what _cmd   *)
(* says of it.                                                             *)

Centred == [roll |-> 0, pitch |-> 0, yaw |-> 0, throttle |-> 500]

At(throttle) == [Centred EXCEPT !.throttle = throttle]

PreArm == At(20)

\* The classes that override only the axis, the amplitude and the throttle.
RateStep ==
  [rate_step_roll  |-> [axis |-> "roll",  amp |-> 250,  thr |-> 550],
   rate_step_pitch |-> [axis |-> "pitch", amp |-> 250,  thr |-> 550],
   rate_step_yaw   |-> [axis |-> "yaw",   amp |-> 500,  thr |-> 550],
   rate_hover      |-> [axis |-> "roll",  amp |-> 0,    thr |-> 550],
   att_hover       |-> [axis |-> "roll",  amp |-> 0,    thr |-> 520],
   saturation      |-> [axis |-> "roll",  amp |-> 1000, thr |-> 300]]

Sweep(t) == At(<<400, 450, 500, 550, 600>>[1 + (((t - 400) \div 1500) % 5)])

Steps2s(t) ==
  <<Centred, [Centred EXCEPT !.roll = 300], [Centred EXCEPT !.pitch = 300]>>[1 + ((t \div 2000) % 3)]

Windowed == DOMAIN RateStep \cup {"stick_step", "hover_sweep", "rc_loss"}
Scenarios == Windowed \cup {"hover", "steps", "cut", "rx_failsafe", "frame_lost"}

ASSUME MissionAssumption ==
  /\ Missions \subseteq [scenario : Scenarios, period : Nat \ {0}, imu_after : Nat]
  /\ {Still, Moving} \subseteq Gyro /\ {0, 1} \subseteq Steps

\* What the scripts take for granted of the firmware's limits: the calibration,
\* and a streak within it, end inside the low-throttle window; one frame is no
\* streak, and one bad sample no fault; a craft at rest calibrates; and a
\* receiver is no slower than its timeout.
ASSUME ScriptAssumption ==
  /\ ArmMinGoodFrames \in 2..(CalibSamples + 1) /\ CalibSamples < 400
  /\ ImuInvalidDebounce >= 2
  /\ Est!Magnitude(Still) <= CalibMaxGyro
  /\ \A m \in Missions : m.period <= RcTimeout

\* Mutant: the low-throttle window ends before the gyro is calibrated.
SticksShortWindow(s, t) ==
  IF s \in DOMAIN RateStep
  THEN IF t < 150 THEN PreArm ELSE At(RateStep[s].thr)
  ELSE Centred

Sticks(s, t) ==
  CASE s \in Windowed /\ t < 400 -> PreArm
    [] s \in DOMAIN RateStep /\ t >= 400 ->
         [At(RateStep[s].thr) EXCEPT ![RateStep[s].axis] = IF t >= 1000 THEN RateStep[s].amp ELSE 0]
    [] s = "stick_step" /\ t >= 400 ->
         [At(520) EXCEPT !.roll = IF t \in 2000..2499 THEN 50 ELSE 0]
    [] s = "hover_sweep" /\ t >= 400 -> Sweep(t)
    [] s = "rc_loss" /\ t >= 400 -> At(520)
    [] s = "steps" -> Steps2s(t)
    [] s = "cut" -> IF t >= 3000 THEN At(0) ELSE Centred
    [] OTHER -> Centred

\* The flags byte.
Flags(s, t) == CASE s = "rx_failsafe" /\ t >= 3000 -> {FailsafeBit}
                 [] s = "frame_lost" /\ t >= 3000 -> {FrameLostBit}
                 [] OTHER -> {}

\* Does a frame arrive in tick t?
Delivered(m, t) == t % m.period = 0 /\ (m.scenario = "rc_loss" => t < 3000)

\* _cmd(tick), which is written out apart from _frame.
Cmd(s, t) ==
  CASE s \in DOMAIN RateStep ->
         IF t < 400 THEN PreArm
         ELSE [At(RateStep[s].thr) EXCEPT ![RateStep[s].axis] = IF t >= 1000 THEN RateStep[s].amp ELSE 0]
    [] s = "stick_step" ->
         IF t < 400 THEN PreArm
         ELSE [At(520) EXCEPT !.roll = IF t \in 2000..2499 THEN 50 ELSE 0]
    [] s = "hover_sweep" -> IF t < 400 THEN PreArm ELSE Sweep(t)
    [] s = "rc_loss" -> IF t >= 400 THEN At(520) ELSE PreArm
    [] s = "steps" -> Steps2s(t)
    [] s = "cut" -> IF t >= 3000 THEN At(0) ELSE Centred
    [] OTHER -> Centred

-----------------------------------------------------------------------------
(* The link: scaled to integers, packed, taken out again and scaled back.  *)

SbusMin == 172
SbusMid == 992
SbusMax == 1811

\* round(), where no half rounds down.
Nearest(num, d) == (2 * num + d) \div (2 * d)

StickToSbus(v) == IF v >= 0 THEN SbusMid + Nearest(v * (SbusMax - SbusMid), 1000)
                  ELSE SbusMid + Nearest(v * (SbusMid - SbusMin), 1000)

ThrottleToSbus(v) == SbusMin + Nearest(v * (SbusMax - SbusMin), 1000)

BaseChannels(sticks) ==
  [i \in 0..15 |-> CASE i = 0 -> StickToSbus(sticks.roll)
                     [] i = 1 -> StickToSbus(sticks.pitch)
                     [] i = 2 -> ThrottleToSbus(sticks.throttle)
                     [] i = 3 -> StickToSbus(sticks.yaw)
                     [] i = 4 -> SbusMax
                     [] OTHER -> 0]

\* An integer's bits, and back.
ToBits(v) == {b \in 0..10 : (v \div 2^b) % 2 = 1}
FromBits(B) == CHOOSE v \in 0..2047 : ToBits(v) = B

Packed(sticks, flags) ==
  LET ch == BaseChannels(sticks) IN SbusEncode([i \in 0..15 |-> ToBits(ch[i])], flags)

Bounded(v, lo, hi) == IF v < lo THEN lo ELSE IF v > hi THEN hi ELSE v

\* norm, rounded to thousandths.
Norm(ch) == Bounded(Nearest(1000 * (ch - SbusMid), IF ch >= SbusMid THEN SbusMax - SbusMid
                                                   ELSE SbusMid - SbusMin), -1000, 1000)

NormThrottle(ch) == Bounded(Nearest(1000 * (ch - SbusMin), SbusMax - SbusMin), 0, 1000)

\* kArmThrottleMax is 0.05: compared before any rounding.
ThrottleClass(ch) == IF 20 * (ch - SbusMin) <= SbusMax - SbusMin THEN "low" ELSE "high"

DecodeFrame(f) ==
  LET ch(i) == FromBits(Channel(f, i))
  IN  [ok |-> Plausible(f),
       sticks |-> [roll |-> Norm(ch(0)), pitch |-> Norm(ch(1)), yaw |-> Norm(ch(3)),
                   throttle |-> NormThrottle(ch(2))],
       throttle |-> ThrottleClass(ch(2)), armed_switch |-> ch(4) > SbusMid,
       rx_failsafe |-> FailsafeBit \in f[23], frame_lost |-> FrameLostBit \in f[23]]

\* What the firmware makes of each frame that a scenario can send.
Heard == LET Sent == {<<Sticks(s, t), Flags(s, t)>> : s \in Scenarios, t \in 0..MaxTime}
         IN  [x \in Sent |-> DecodeFrame(Packed(x[1], x[2]))]

HeardAt(s, t) == Heard[<<Sticks(s, t), Flags(s, t)>>]

\* Mutant: the parser's own verdict on the frame is kept.
DecodedOwnVerdict(h, t) ==
  [frame_ok |-> ~h.rx_failsafe, armed_switch |-> h.armed_switch, rx_failsafe |-> h.rx_failsafe,
   frame_lost |-> h.frame_lost, throttle |-> h.throttle, t |-> t]

\* ControlLoop's own frame_ok and time stamp on a frame that has been decoded.
Decoded(h, t) ==
  [frame_ok |-> TRUE, armed_switch |-> h.armed_switch, rx_failsafe |-> h.rx_failsafe,
   frame_lost |-> h.frame_lost, throttle |-> h.throttle, t |-> t]

\* Mutant: a tick without a frame gets the frame before it again.
SampleRepeats(m, t) == Decoded(HeardAt(m.scenario, t), t)

Sample(m, t) == IF Delivered(m, t) /\ HeardAt(m.scenario, t).ok
                THEN Decoded(HeardAt(m.scenario, t), t)
                ELSE NoFrame(t)

\* The plant's IMU: at rest until the motors turn.  An invalid sample's reading
\* is not looked at.
Imu(m, t) ==
  IF m.imu_after > 0 /\ t >= m.imu_after
  THEN [valid |-> FALSE, gyro_ok |-> TRUE, accel_ok |-> TRUE, gyro |-> AnyReading]
  ELSE [valid |-> TRUE, gyro_ok |-> TRUE, accel_ok |-> TRUE,
        gyro |-> IF arm_test \/ motors = "on" THEN Moving ELSE Still]

-----------------------------------------------------------------------------
MissionInit == Init /\ mission \in Missions /\ tick = 0

\* One iteration of both loops: STATE, the control tick, FW_OUT.
PlantTick ==
  /\ tick <= MaxTime
  /\ Stages(Sample(mission, tick), Imu(mission, tick), "ok", tick)
  /\ switch' = TRUE
  /\ tick' = tick + 1
  /\ UNCHANGED mission

\* The plant's n_ticks are over.
Finished == tick > MaxTime /\ UNCHANGED missionvars

MissionNext == PlantTick \/ Finished

MissionSpec == MissionInit /\ [][MissionNext]_missionvars

-----------------------------------------------------------------------------
(* The closed forms.                                                       *)

Never == MaxTime + 1

\* The last tick before t in which a frame arrives, and the first from t on.
FrameBefore(m, t) == ((t - 1) \div m.period) * m.period
FrameFrom(m, t) == ((t + m.period - 1) \div m.period) * m.period

\* The tick in which the motors start.  The low-throttle window is longer than
\* the calibration, so a windowed scenario arms with the first tick after it;
\* "cut" is low only once it has cut; with gaps between frames no streak builds.
ArmAt ==
  IF arm_test THEN 0
  ELSE IF \/ mission.period > 1
          \/ "BootLatch" \in reason
          \/ mission.imu_after \in 1..(CalibSamples - 1) THEN Never
  ELSE IF mission.scenario \in Windowed THEN CalibSamples
  ELSE IF mission.scenario = "cut" THEN 3000
  ELSE Never

\* The tick in which the failsafe comes up.
FailAt ==
  Min({Never}
      \cup {t \in {mission.imu_after + ImuInvalidDebounce - 1} : mission.imu_after > 0}
      \cup {t \in {FrameFrom(mission, 3000)} : mission.scenario = "rx_failsafe"}
      \cup {t \in {FrameBefore(mission, 3000) + RcTimeout} : mission.scenario = "rc_loss"})

\* The first tick whose motors are off again: without --arm-test, a tick
\* without a frame is one in which the switch is off.
EndAt == IF mission.scenario = "rc_loss" /\ ~arm_test THEN Min({3000, FailAt}) ELSE FailAt

\* The motors turn from the tick on in which the mission's script allows it to
\* the one in which its fault is due, and in no other: a windowed scenario
\* does arm inside its window, hover and its like never fly without
\* --arm-test, and a receiver slower than the loop never arms at all.
MotorsFollowScript ==
  tick > 0 => (motors = "on" <=> ArmAt <= now /\ now < EndAt)

\* The failsafe comes up in exactly the tick it is due, whether the craft is
\* armed or not, and in no mission without a fault: a receiver that reports
\* lost frames but delivers them raises none.
FailsafeOnTime == tick > 0 => (active <=> now >= FailAt)

\* What the firmware hears is what the scenario says it commands, to the
\* resolution of a channel, in every tick of every scenario.
CommandSurvivesTheLink ==
  tick > 0 => LET sent  == Cmd(mission.scenario, now)
                  heard == HeardAt(mission.scenario, now).sticks
              IN  \A a \in DOMAIN sent : sent[a] - heard[a] \in -1..1

\* A SIL run is a run of the control loop: whatever ControlLoop promises for
\* every pilot, receiver and sensor holds for the scenarios.
RunsTheControlLoop == Spec

=============================================================================
