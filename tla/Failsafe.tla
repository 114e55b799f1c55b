------------------------------ MODULE Failsafe ------------------------------
(***************************************************************************)
(* FailsafeFsm (firmware/main/flight/failsafe.cpp): the arm state machine  *)
(* and the failsafe latches.  One update() runs per control tick, on the   *)
(* decoded RC sample, the IMU sample and the battery voltage of that tick. *)
(*                                                                         *)
(* The HAL's clock is the variable now, in control ticks: update() gets it *)
(* as now_us.  Time stamps of frames never run ahead of it                 *)
(* (ControlLoop::tick stamps a frame with the clock it reads).             *)
(***************************************************************************)
EXTENDS Integers

CONSTANTS
  RcTimeout,         \* kRcTimeoutUs, in ticks
  RcFrameLostN,      \* kRcFrameLostN
  ArmMinGoodFrames,  \* kArmMinGoodFrames
  ImuInvalidDebounce,\* kImuInvalidDebounce
  Callers,           \* the kinds of caller, as the set of values that one
                     \* passes as arm_test: {FALSE} in app_main and plain SIL
                     \* runs, {TRUE} under --arm-test, BOOLEAN for whoever
                     \* calls the host bindings
  Steps,             \* ticks that may pass between two updates
  MaxTime            \* bound on the clock, for model checking

ASSUME TimeAssumption == /\ RcTimeout \in Nat \ {0}
                         /\ MaxTime \in Nat
                         /\ Steps \subseteq Nat
ASSUME CountAssumption == /\ RcFrameLostN \in Nat \ {0}
                          /\ ArmMinGoodFrames \in Nat \ {0}
                          /\ ImuInvalidDebounce \in Nat \ {0}
ASSUME CallersAssumption == Callers \subseteq SUBSET BOOLEAN

VARIABLES
  armed, active, latched, boot_latched, vbat_nan, arm_test_prev,
  reason,            \* reason_: the set of bits that are one
  last_good,         \* last_good_us_
  have_frame, good_frames, lost_count, imu_bad_count,
  now,               \* the HAL's clock at the last update
  caller             \* the program that update() is called from

flags  == <<armed, active, latched, boot_latched, reason>>
counts == <<last_good, have_frame, good_frames, lost_count, imu_bad_count>>
fsmvars == <<flags, counts, vbat_nan, arm_test_prev>>
vars == <<fsmvars, now, caller>>

-----------------------------------------------------------------------------
FaultReason == {"RcTimeout", "RcFlag", "ImuInvalid", "VbatCrit"}
FailsafeReason == FaultReason \cup {"BootLatch"}

\* esp_reset_reason_t: power-on, and the four resets that follow a fault.
ResetReason == {"PowerOn", "IntWdt", "TaskWdt", "Wdt", "Brownout"}
AfterFault == {"IntWdt", "TaskWdt", "Wdt", "Brownout"}

\* throttle: at most kArmThrottleMax or above it; t: the frame's time stamp.
RcSample == [frame_ok : BOOLEAN, armed_switch : BOOLEAN, rx_failsafe : BOOLEAN,
             frame_lost : BOOLEAN, throttle : {"low", "high"}, t : 0..MaxTime]

\* At or above kVbatCrit, below it, or not a finite number.
Vbat == {"ok", "crit", "nan"}

TypeOK ==
  /\ armed \in BOOLEAN /\ active \in BOOLEAN /\ latched \in BOOLEAN
  /\ boot_latched \in BOOLEAN /\ vbat_nan \in BOOLEAN
  /\ arm_test_prev \in BOOLEAN /\ have_frame \in BOOLEAN
  /\ reason \subseteq FailsafeReason
  /\ now \in 0..MaxTime
  /\ last_good \in 0..MaxTime
  /\ good_frames \in Nat
  /\ lost_count \in 0..RcFrameLostN
  /\ imu_bad_count \in 0..ImuInvalidDebounce
  /\ caller \in Callers

-----------------------------------------------------------------------------
(* boot(reset_reason): reset(), then the boot latch after a faulty reset.  *)

Boot(reset_reason) ==
  /\ armed' = FALSE /\ active' = FALSE /\ vbat_nan' = FALSE
  /\ arm_test_prev' = FALSE /\ have_frame' = FALSE
  /\ last_good' = 0 /\ good_frames' = 0 /\ lost_count' = 0 /\ imu_bad_count' = 0
  /\ boot_latched' = (reset_reason \in AfterFault)
  /\ latched' = (reset_reason \in AfterFault)
  /\ reason' = IF reset_reason \in AfterFault THEN {"BootLatch"} ELSE {}
  /\ now' = 0

-----------------------------------------------------------------------------
(* update(), in the order of its sections.                                 *)

\* Mutant: any decoded frame is good, whatever its time stamp.
FreshReplayed(rc) == rc.frame_ok

\* Liveness from virtual time.
Fresh(rc) == rc.frame_ok /\ (have_frame => rc.t > last_good)

ObserveRc(rc) ==
  \/ /\ Fresh(rc)
     /\ good_frames' = good_frames + 1
     /\ last_good' = rc.t
     /\ have_frame' = TRUE
     /\ lost_count' = 0
  \/ /\ ~Fresh(rc)
     /\ good_frames' = 0
     /\ lost_count' = IF rc.frame_lost /\ lost_count < RcFrameLostN
                      THEN lost_count + 1 ELSE lost_count
     /\ UNCHANGED <<last_good, have_frame>>

\* Mutant: the debounce counter does not saturate.
ObserveImuUnbounded(imu_bad) ==
  imu_bad_count' = IF imu_bad THEN imu_bad_count + 1 ELSE 0

\* IMU validity, debounced.
ObserveImu(imu_bad) ==
  imu_bad_count' = IF imu_bad
                   THEN IF imu_bad_count < ImuInvalidDebounce
                        THEN imu_bad_count + 1 ELSE imu_bad_count
                   ELSE 0

\* Mutant: the deadline itself is still in time.
RcTimedOutLate == have_frame /\ now - last_good > RcTimeout

\* The faults that stand, on the counters just brought up to date.
RcTimedOut == have_frame /\ now - last_good >= RcTimeout

ImuInvalid == imu_bad_count >= ImuInvalidDebounce

Faults(rc, vbat) ==
  {r \in FaultReason : \/ r = "RcTimeout" /\ RcTimedOut'
                       \/ r = "RcFlag" /\ rc.rx_failsafe
                       \/ r = "ImuInvalid" /\ ImuInvalid'
                       \/ r = "VbatCrit" /\ vbat = "crit"}

\* Mutant: reason_ = r where the code says reason_ |= r.
LatchOverwrites(f) ==
  /\ latched' = (latched \/ f # {})
  /\ active' = (active \/ f # {})
  /\ reason' = IF f = {} THEN reason ELSE f
  /\ UNCHANGED boot_latched

Latch(f) ==
  /\ latched' = (latched \/ f # {})
  /\ active' = (active \/ f # {})
  /\ reason' = reason \cup f
  /\ UNCHANGED boot_latched

\* Mutant: the request forgets the boot latch.
ArmRequestKeepsBoot ==
  /\ ~arm_test_prev
  /\ armed' = TRUE
  /\ latched' = FALSE /\ active' = FALSE
  /\ reason' = {}
  /\ UNCHANGED boot_latched

\* Mutant: the request acts on the level of arm_test, not on its edge.
ArmRequestOnLevel ==
  /\ armed' = TRUE
  /\ latched' = FALSE /\ boot_latched' = FALSE /\ active' = FALSE
  /\ reason' = {}

\* arm_test rises: the explicit request clears every latch, those this very
\* update set included, and arms.
ArmRequest ==
  /\ ~arm_test_prev
  /\ armed' = TRUE
  /\ latched' = FALSE /\ boot_latched' = FALSE /\ active' = FALSE
  /\ reason' = {}

\* arm_test stays up: armed until something latches.
ArmHeld(f) ==
  /\ arm_test_prev
  /\ Latch(f)
  /\ armed' = (armed /\ ~latched' /\ ~active')

\* The pilot's switch: what it takes to stay armed...
MayStayArmed(rc) == /\ rc.frame_ok /\ rc.armed_switch
                    /\ ~latched' /\ ~boot_latched' /\ ~ImuInvalid'

\* Mutant: the streak is compared before this frame is counted in.
MayArmOffByOne(rc, calibrated) == /\ calibrated
                                  /\ good_frames' >= ArmMinGoodFrames - 1
                                  /\ rc.throttle = "low"

\* ... and what more to arm.
MayArm(rc, calibrated) == /\ calibrated
                          /\ good_frames' >= ArmMinGoodFrames
                          /\ rc.throttle = "low"

\* Mutant: the switch is evaluated before this update's latches.
ArmBySwitchFirst(rc, calibrated, f) ==
  /\ Latch(f)
  /\ armed' = (/\ rc.frame_ok /\ rc.armed_switch
               /\ ~latched /\ ~boot_latched /\ ~active
               /\ armed \/ MayArm(rc, calibrated))

ArmBySwitch(rc, calibrated, f) ==
  /\ Latch(f)
  /\ armed' = (/\ MayStayArmed(rc)
               /\ armed \/ MayArm(rc, calibrated)
               /\ ~active')

Update(rc, imu_bad, vbat, now_us, calibrated, arm_test) ==
  /\ now' = now_us
  /\ ObserveRc(rc)
  /\ ObserveImu(imu_bad)
  /\ vbat_nan' = (vbat = "nan")
  /\ \/ arm_test /\ ArmRequest
     \/ arm_test /\ ArmHeld(Faults(rc, vbat))
     \/ ~arm_test /\ ArmBySwitch(rc, calibrated, Faults(rc, vbat))
  /\ arm_test_prev' = arm_test

-----------------------------------------------------------------------------
\* main() has called boot() before its first update().
Init ==
  /\ caller \in Callers
  /\ armed = FALSE /\ active = FALSE /\ vbat_nan = FALSE
  /\ arm_test_prev = FALSE /\ have_frame = FALSE
  /\ last_good = 0 /\ good_frames = 0 /\ lost_count = 0 /\ imu_bad_count = 0
  /\ boot_latched \in BOOLEAN
  /\ latched = boot_latched
  /\ reason = IF boot_latched THEN {"BootLatch"} ELSE {}
  /\ now = 0

\* A reset at any time starts the program, and its clock, over.
Reset == \E reset_reason \in ResetReason : Boot(reset_reason)

Tick ==
  \E step \in Steps, rc \in RcSample, imu_bad \in BOOLEAN, vbat \in Vbat,
     calibrated \in BOOLEAN, arm_test \in caller :
    /\ now + step <= MaxTime
    /\ rc.t <= now + step
    /\ Update(rc, imu_bad, vbat, now + step, calibrated, arm_test)

Next == (Reset \/ Tick) /\ UNCHANGED caller

Spec == Init /\ [][Next]_vars

-----------------------------------------------------------------------------
\* A fault the craft is in the middle of, whatever the latches say.
Standing == \/ have_frame /\ now - last_good >= RcTimeout
            \/ imu_bad_count = ImuInvalidDebounce

\* The three latch flags and the reason bits are written apart and must tell
\* one story: latched_ iff there is a reason, active_ iff there is a reason
\* other than the boot latch, boot_latched_ iff the boot latch is one.
LatchesAgree ==
  /\ latched <=> reason # {}
  /\ active <=> reason \cap FaultReason # {}
  /\ boot_latched <=> "BootLatch" \in reason

\* Armed and latched exclude each other at the end of every update(), whatever
\* order the latch, the arm request and the switch were evaluated in.
ArmedIsClean == armed => ~latched /\ ~active /\ ~boot_latched

\* A run of good frames is a run of distinct time stamps: a frame replayed
\* with its old t_us cannot build the streak that arming asks for (T7.9).
StreakIsFresh ==
  /\ good_frames > 0 => have_frame /\ last_good >= good_frames - 1
  /\ armed /\ caller = {FALSE} => last_good >= ArmMinGoodFrames - 1

\* Without --arm-test, a silent receiver or a dead IMU is latched in the very
\* update that sees the deadline pass, and nothing clears it while it lasts.
StandingFaultIsActive == caller = {FALSE} => (Standing => active)

\* An update() that ends with a fault standing and the craft armed can only be
\* the one in which an explicit arm request rose: no held request and no
\* switch overrides a fault.
OnlyRequestOverridesFault ==
  [][(armed /\ Standing)' => arm_test_prev' /\ ~arm_test_prev]_vars

\* A latch is never lost: only a reset or an explicit arm request clears a
\* reason, so without --arm-test a failsafe lasts until the next reset.
LatchIsSticky ==
  [][reason \subseteq reason' \/ Reset \/ (arm_test_prev' /\ ~arm_test_prev)]_vars

GateMode == IF latched THEN "Locked" ELSE IF armed THEN "Armed" ELSE "Safe"
GateStreak == IF good_frames < ArmMinGoodFrames THEN good_frames ELSE ArmMinGoodFrames

Gate == INSTANCE ArmGate WITH MinStreak <- ArmMinGoodFrames,
                              override  <- TRUE \in caller,
                              mode      <- GateMode,
                              streak    <- GateStreak

\* The latches, clocks and counters implement the gate the output stage
\* relies on: no arming without the streak, no way out of a lockout.
ImplementsGate == Gate!Spec

=============================================================================
