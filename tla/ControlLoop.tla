---------------------------- MODULE ControlLoop -----------------------------
(***************************************************************************)
(* ControlLoop::tick (firmware/main/flight/control_loop.cpp): one control  *)
(* tick reads the sensors, runs the failsafe, then the estimator or the    *)
(* calibration, then the mixer's command through the output gate, then the *)
(* LED.  Each stage reads what the stages before it have just written, so  *)
(* a stage's guard is over primed variables of the earlier ones.           *)
(*                                                                         *)
(* Around it: a pilot, whose switch and stick each received frame carries, *)
(* a receiver that may deliver no frame in a tick, an IMU and a battery    *)
(* that may fail, and resets of the processor.  The mixer's command is     *)
(* within the gate's channel check (module Mixer).                         *)
(***************************************************************************)
EXTENDS Integers

CONSTANTS
  RcTimeout, RcFrameLostN, ArmMinGoodFrames, ImuInvalidDebounce,
  Steps, MaxTime,
  CalibSamples, CalibMaxGyro, EstDecim, Gyro

VARIABLES
  armed, active, latched, boot_latched, vbat_nan, arm_test_prev, reason,
  last_good, have_frame, good_frames, lost_count, imu_bad_count, now,
  state, n, sum, bias, invalid_count, imu_valid, decim,
  motors,           \* the last PWM: "off", or "on" with the mixer's duties
  led,              \* the LED's mode
  arm_test,         \* the program's argument: true under sil_runner's --arm-test
  switch            \* the pilot's arm switch at the last tick

fsvars  == <<armed, active, latched, boot_latched, vbat_nan, arm_test_prev, reason,
             last_good, have_frame, good_frames, lost_count, imu_bad_count, now>>
estvars == <<state, n, sum, bias, invalid_count, imu_valid, decim>>
vars == <<fsvars, estvars, motors, led, arm_test, switch>>

Fs  == INSTANCE Failsafe WITH Callers <- {{a} : a \in BOOLEAN}, caller <- {arm_test}
Est == INSTANCE Estimator

\* What its parts assume of their constants.
ASSUME LoopAssumption ==
  /\ RcTimeout \in Nat \ {0} /\ RcFrameLostN \in Nat \ {0}
  /\ ArmMinGoodFrames \in Nat \ {0} /\ ImuInvalidDebounce \in Nat \ {0}
  /\ Steps \subseteq Nat /\ MaxTime \in Nat
  /\ CalibSamples \in Nat \ {0} /\ CalibMaxGyro \in Nat
  /\ EstDecim \in Nat \ {0} /\ Gyro \in (SUBSET Int) \ {{}}

-----------------------------------------------------------------------------
(* Sensors.  A tick without a decoded frame leaves the sample zeroed; one  *)
(* with a frame takes the frame's flags.  Both are stamped with the HAL's  *)
(* clock.                                                                  *)

NoFrame(t) ==
  [frame_ok |-> FALSE, armed_switch |-> FALSE, rx_failsafe |-> FALSE,
   frame_lost |-> FALSE, throttle |-> "low", t |-> t]

Frames(t) ==
  [frame_ok : {TRUE}, armed_switch : {switch'}, rx_failsafe : BOOLEAN,
   frame_lost : BOOLEAN, throttle : {"low", "high"}, t : {t}]

\* Readings without a finite gyro differ in nothing that is looked at.
AnyReading == CHOOSE g \in Gyro : TRUE

ImuSamples ==
  [valid : {TRUE}, gyro_ok : {TRUE}, accel_ok : BOOLEAN, gyro : Gyro]
    \cup {[valid |-> v, gyro_ok |-> ~v, accel_ok |-> TRUE, gyro |-> AnyReading] : v \in BOOLEAN}

-----------------------------------------------------------------------------
(* Stages.                                                                 *)

Estimate(imu) == IF armed' THEN Est!Update(imu) ELSE Est!CalibrateUpdate(imu)

\* Mutant: the gate forgets the estimator's verdict on the IMU.
OutputApplyBlind == motors' = IF armed' /\ ~active' THEN "on" ELSE "off"

\* OutputStage::apply on a command that passes its channel check.
OutputApply == motors' = IF armed' /\ ~active' /\ imu_valid' THEN "on" ELSE "off"

\* Mutant: armed is looked at before the failsafe and the boot latch.
LedSetArmedFirst ==
  led' = CASE armed' -> "Armed"
           [] ~armed' /\ active' -> "Failsafe"
           [] ~armed' /\ ~active' /\ boot_latched' -> "Error"
           [] OTHER -> IF state' # "Done" THEN "Calib" ELSE "Boot"

LedSet ==
  led' = IF boot_latched' THEN "Error"
         ELSE IF active' THEN "Failsafe"
         ELSE IF armed' THEN "Armed"
         ELSE IF state' # "Done" THEN "Calib"
         ELSE "Boot"

Stages(rc, imu, vbat, t) ==
  /\ Fs!Update(rc, Est!ImuBad(imu), vbat, t, state = "Done", arm_test)
  /\ Estimate(imu)
  /\ OutputApply
  /\ LedSet
  /\ UNCHANGED arm_test

-----------------------------------------------------------------------------
\* Power-on, or any later reset: a fresh program, with the PWM pins idle.
Init ==
  /\ arm_test \in BOOLEAN
  /\ Fs!Init
  /\ Est!Init
  /\ motors = "off" /\ led = "Boot"
  /\ switch = FALSE

Restart ==
  /\ Fs!Reset
  /\ Est!Reset
  /\ motors' = "off" /\ led' = "Boot"
  /\ UNCHANGED <<arm_test, switch>>

TickWithFrame ==
  \E step \in Steps, imu \in ImuSamples, vbat \in Fs!Vbat :
    /\ now + step <= MaxTime
    /\ switch' \in BOOLEAN
    /\ \E rc \in Frames(now + step) : Stages(rc, imu, vbat, now + step)

TickWithoutFrame ==
  \E step \in Steps, imu \in ImuSamples, vbat \in Fs!Vbat :
    /\ now + step <= MaxTime
    /\ switch' \in BOOLEAN
    /\ Stages(NoFrame(now + step), imu, vbat, now + step)

Next == Restart \/ TickWithFrame \/ TickWithoutFrame

Spec == Init /\ [][Next]_vars

-----------------------------------------------------------------------------
\* Without --arm-test, motors that turn prove the whole chain behind them:
\* calibration is done, a frame arrived in this very tick with the switch on,
\* no latch stands, and neither IMU debounce is used up.
MotorsNeedEvidence ==
  motors = "on" /\ ~arm_test =>
    /\ state = "Done"
    /\ have_frame /\ last_good = now /\ switch
    /\ reason = {}
    /\ imu_bad_count < ImuInvalidDebounce /\ invalid_count < ImuInvalidDebounce

\* The LED never shows a craft safer than it is: turning motors show as armed,
\* armed never stands for a latched craft, and a boot latch shows as an error
\* (from the first tick on) even when a failsafe is latched on top of it.
LedTellsTruth ==
  /\ motors = "on" => led = "Armed"
  /\ led = "Armed" => armed /\ reason = {}
  /\ "BootLatch" \in reason => led \in {"Boot", "Error"}

\* The two debounces of one IMU count different ticks and may disagree, but not
\* without cause: an armed craft whose motors stand still, as a sum of old bad
\* samples in the estimator's count may have it, has lost the IMU in this tick.
\* It resumes with the first good sample.
StopsForABadSampleOnly == armed /\ motors = "off" => imu_bad_count > 0

\* No flight subtracts a bias that a sample of a flight has reached: a craft is
\* armed with its calibration finished or, under --arm-test, not begun, as the
\* one request of a run comes in its first tick and a craft that a fault has
\* disarmed stays down.
FliesOnEarlierBias == armed => state = IF arm_test THEN "Idle" ELSE "Done"

\* The gyro bias that the controller subtracts is frozen while motors turn, and
\* later flights rely on no sample of this one.  Without --arm-test not even the
\* tick that ends a flight collects anything.  With it, the tick in which a fault
\* ends the flight of a craft whose calibration has not begun does begin it
\* (control_loop.cpp:36-40), on a sample taken with the motors still turning.
BiasFrozenInFlight ==
  [][/\ FliesOnEarlierBias'
     /\ motors = "on" =>
          \/ UNCHANGED <<state, n, sum, bias>>
          \/ arm_test /\ state = "Idle" /\ active' /\ motors' = "off"
          \/ Restart]_vars

\* What the firmware says of a craft in the air (failsafe.cpp:78): armed, with
\* the switch on and no fault latched, it stays armed.
StaysArmedWhileSwitchOn ==
  [][armed /\ switch' /\ reason' = {} => armed' \/ Restart]_vars

=============================================================================
