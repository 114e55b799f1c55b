------------------------- MODULE ControlLoopProofs --------------------------
(***************************************************************************)
(* Theorems about the control loop: it drives the failsafe and the         *)
(* estimator within the interface their own theorems are about, so those   *)
(* hold in the loop too, and from them follows what the motors, the LED    *)
(* and the gyro bias may be.                                               *)
(***************************************************************************)
EXTENDS ControlLoop, TLAPS

FsP == INSTANCE FailsafeProofs WITH Callers <- {{a} : a \in BOOLEAN}, caller <- {arm_test}
EsP == INSTANCE EstimatorProofs

-----------------------------------------------------------------------------
(* What the parts assume of their constants.                               *)

LEMMA FailsafeAssumptions ==
  FsP!TimeAssumption /\ FsP!CountAssumption /\ FsP!CallersAssumption
BY LoopAssumption DEF FsP!TimeAssumption, FsP!CountAssumption, FsP!CallersAssumption

LEMMA EstimatorAssumptions == EsP!CalibAssumption /\ EsP!FusionAssumption
BY LoopAssumption DEF EsP!CalibAssumption, EsP!FusionAssumption

\* A tick, with the frame it may have had.
Tick ==
  \E step \in Steps, imu \in ImuSamples, vbat \in Fs!Vbat :
    /\ now + step <= MaxTime
    /\ switch' \in BOOLEAN
    /\ \E rc \in Frames(now + step) \cup {NoFrame(now + step)} :
         Stages(rc, imu, vbat, now + step)

LEMMA NextIsTick == Next <=> Restart \/ Tick
<1>1. TickWithFrame => Tick
  BY DEF TickWithFrame, Tick
<1>2. TickWithoutFrame => Tick
  BY DEF TickWithoutFrame, Tick
<1>3. Tick => TickWithFrame \/ TickWithoutFrame
  BY DEF TickWithFrame, TickWithoutFrame, Tick
<1> QED
  BY <1>1, <1>2, <1>3 DEF Next


\* The samples the loop makes are samples its parts know.
LEMMA RcSamplesFit ==
  ASSUME NEW t \in 0..MaxTime, switch' \in BOOLEAN
  PROVE  Frames(t) \cup {NoFrame(t)} \subseteq FsP!RcSample
<1>1. ASSUME NEW rc \in Frames(t) PROVE rc \in FsP!RcSample
  BY DEF Frames, FsP!RcSample
<1>2. NoFrame(t) \in FsP!RcSample
  BY DEF NoFrame, FsP!RcSample
<1> QED
  BY <1>1, <1>2

LEMMA ImuSamplesFit == ImuSamples \subseteq EsP!ImuSample
<1>1. AnyReading \in Gyro
  BY LoopAssumption DEF AnyReading
<1>2. ASSUME NEW imu \in [valid : {TRUE}, gyro_ok : {TRUE}, accel_ok : BOOLEAN, gyro : Gyro]
      PROVE  imu \in EsP!ImuSample
  BY <1>2 DEF EsP!ImuSample
<1>3. ASSUME NEW v \in BOOLEAN
      PROVE  [valid |-> v, gyro_ok |-> ~v, accel_ok |-> TRUE, gyro |-> AnyReading]
               \in EsP!ImuSample
  BY <1>1 DEF EsP!ImuSample
<1> QED
  BY <1>2, <1>3 DEF ImuSamples

\* What a tick does to its parts, for one set of inputs.
LEMMA TickStages ==
  ASSUME Tick, now \in 0..MaxTime
  PROVE  \E step \in Steps, rc \in FsP!RcSample, imu \in EsP!ImuSample, vbat \in Fs!Vbat :
           /\ now + step <= MaxTime /\ rc.t = now + step
           /\ rc.armed_switch => rc.frame_ok /\ switch'
           /\ Stages(rc, imu, vbat, now + step)
<1>1. PICK step \in Steps, imu \in ImuSamples, vbat \in Fs!Vbat :
        /\ now + step <= MaxTime
        /\ switch' \in BOOLEAN
        /\ \E rc \in Frames(now + step) \cup {NoFrame(now + step)} :
             Stages(rc, imu, vbat, now + step)
  BY DEF Tick
<1>2. PICK rc \in Frames(now + step) \cup {NoFrame(now + step)} :
        Stages(rc, imu, vbat, now + step)
  BY <1>1
<1>3. now + step \in 0..MaxTime
  BY <1>1, LoopAssumption
<1>4. rc \in FsP!RcSample
  BY <1>1, <1>3, RcSamplesFit
<1>5. rc.t = now + step /\ (rc.armed_switch => rc.frame_ok /\ switch')
  <2>1. CASE rc \in Frames(now + step)
    <3>1. rc.t = now + step /\ rc.frame_ok = TRUE /\ rc.armed_switch = switch'
      BY <2>1 DEF Frames
    <3> QED
      BY <3>1, Zenon
  <2>2. CASE rc = NoFrame(now + step)
    <3>1. rc.t = now + step /\ rc.armed_switch = FALSE
      BY <2>2 DEF NoFrame
    <3> QED
      BY <3>1, Zenon
  <2> QED
    BY <2>1, <2>2
<1>6. imu \in EsP!ImuSample
  BY ImuSamplesFit
<1> QED
  BY <1>1, <1>2, <1>4, <1>5, <1>6

-----------------------------------------------------------------------------
(* The loop's steps are steps of its parts.                                *)

LEMMA SameFailsafe ==
  ASSUME NEW rc, NEW bad, NEW vbat, NEW t, NEW done
  PROVE  /\ Fs!Update(rc, bad, vbat, t, done, arm_test) <=>
              FsP!Update(rc, bad, vbat, t, done, arm_test)
         /\ Fs!Reset <=> FsP!Reset
         /\ Fs!Init <=> FsP!Init
BY DEF Fs!Update, Fs!ObserveRc, Fs!Fresh, Fs!ObserveImu, Fs!ArmRequest, Fs!ArmHeld,
       Fs!ArmBySwitch, Fs!Latch, Fs!Faults, Fs!FaultReason, Fs!RcTimedOut, Fs!ImuInvalid,
       Fs!MayArm, Fs!MayStayArmed, Fs!Reset, Fs!ResetReason, Fs!Boot, Fs!AfterFault, Fs!Init,
       FsP!Update, FsP!ObserveRc, FsP!Fresh, FsP!ObserveImu, FsP!ArmRequest, FsP!ArmHeld,
       FsP!ArmBySwitch, FsP!Latch, FsP!Faults, FsP!FaultReason, FsP!RcTimedOut, FsP!ImuInvalid,
       FsP!MayArm, FsP!MayStayArmed, FsP!Reset, FsP!ResetReason, FsP!Boot, FsP!AfterFault, FsP!Init

LEMMA SameEstimator ==
  ASSUME NEW imu
  PROVE  /\ Est!Update(imu) <=> EsP!Update(imu)
         /\ Est!CalibrateUpdate(imu) <=> EsP!CalibrateUpdate(imu)
         /\ Est!Reset <=> EsP!Reset
         /\ Est!Init <=> EsP!Init
BY DEF Est!Update, Est!CalibrateUpdate, Est!Reset, Est!Init, Est!ImuBad, Est!UpdateBad,
       Est!UpdateGood, Est!Collect, Est!RestartCollection, Est!GyroUsable, Est!Magnitude,
       Est!calibvars, Est!fusionvars,
       EsP!Update, EsP!CalibrateUpdate, EsP!Reset, EsP!Init, EsP!ImuBad, EsP!UpdateBad,
       EsP!UpdateGood, EsP!Collect, EsP!RestartCollection, EsP!GyroUsable, EsP!Magnitude,
       EsP!calibvars, EsP!fusionvars

\* The clock is within its bound, so a frame's time stamp is one.
ClockInv == now \in 0..MaxTime

LEMMA TickFailsafe ==
  ASSUME Tick, ClockInv
  PROVE  FsP!Tick /\ UNCHANGED arm_test
<1>1. PICK step \in Steps, rc \in FsP!RcSample, imu \in EsP!ImuSample, vbat \in Fs!Vbat :
        /\ now + step <= MaxTime /\ rc.t = now + step
        /\ Stages(rc, imu, vbat, now + step)
  BY TickStages DEF ClockInv
<1> DEFINE bad == Est!ImuBad(imu)
           done == state = "Done"
<1>2. FsP!Update(rc, bad, vbat, now + step, done, arm_test) /\ UNCHANGED arm_test
  BY <1>1, SameFailsafe DEF Stages
<1>3. bad \in BOOLEAN /\ done \in BOOLEAN /\ arm_test \in {arm_test} /\ vbat \in FsP!Vbat
  BY DEF Est!ImuBad, Fs!Vbat, FsP!Vbat
<1>4. rc.t <= now + step
  BY <1>1, LoopAssumption DEF ClockInv
<1> HIDE DEF bad, done
<1> QED
  BY <1>1, <1>2, <1>3, <1>4 DEF FsP!Tick

LEMMA TickEstimator ==
  ASSUME Tick, ClockInv
  PROVE  EsP!Calibrating \/ EsP!Updating
<1>1. PICK step \in Steps, rc \in FsP!RcSample, imu \in EsP!ImuSample, vbat \in Fs!Vbat :
        Stages(rc, imu, vbat, now + step)
  BY TickStages DEF ClockInv
<1>2. Est!Update(imu) \/ Est!CalibrateUpdate(imu)
  BY <1>1 DEF Stages, Estimate
<1> QED
  BY <1>2, SameEstimator DEF EsP!Calibrating, EsP!Updating

LEMMA RestartParts ==
  ASSUME Restart
  PROVE  FsP!Reset /\ EsP!Reset /\ UNCHANGED arm_test
BY SameFailsafe, SameEstimator DEF Restart

LEMMA StepFailsafe == ClockInv /\ [Next]_vars => [FsP!Next]_(FsP!vars)
<1> SUFFICES ASSUME ClockInv, [Next]_vars PROVE [FsP!Next]_(FsP!vars)
  OBVIOUS
<1>1. CASE Restart
  BY <1>1, RestartParts DEF FsP!Next
<1>2. CASE Tick
  BY <1>2, TickFailsafe DEF FsP!Next
<1>3. CASE UNCHANGED vars
  BY <1>3 DEF vars, fsvars, FsP!vars, FsP!fsmvars, FsP!flags, FsP!counts
<1> QED
  BY <1>1, <1>2, <1>3, NextIsTick

LEMMA StepEstimator == ClockInv /\ [Next]_vars => [EsP!Next]_(EsP!vars)
<1> SUFFICES ASSUME ClockInv, [Next]_vars PROVE [EsP!Next]_(EsP!vars)
  OBVIOUS
<1>1. CASE Restart
  BY <1>1, RestartParts DEF EsP!Next
<1>2. CASE Tick
  BY <1>2, TickEstimator DEF EsP!Next
<1>3. CASE UNCHANGED vars
  BY <1>3 DEF vars, estvars, EsP!vars, EsP!calibvars, EsP!fusionvars
<1> QED
  BY <1>1, <1>2, <1>3, NextIsTick

LEMMA InitParts == Init => FsP!Init /\ EsP!Init /\ ClockInv
<1>1. Init => FsP!Init /\ EsP!Init
  BY SameFailsafe, SameEstimator DEF Init
<1>2. FsP!Init => ClockInv
  BY LoopAssumption DEF FsP!Init, ClockInv
<1> QED
  BY <1>1, <1>2

LEMMA ClockStep == ClockInv /\ [Next]_vars => ClockInv'
<1> SUFFICES ASSUME ClockInv, [Next]_vars PROVE ClockInv'
  OBVIOUS
<1>1. CASE Restart
  <2>1. now' = 0
    BY <1>1, RestartParts, Zenon DEF FsP!Reset, FsP!Boot
  <2> QED
    BY <2>1, LoopAssumption DEF ClockInv
<1>2. CASE Tick
  <2>1. PICK step \in Steps : now + step <= MaxTime /\ now' = now + step
    BY <1>2, TickStages DEF ClockInv, Stages, Fs!Update
  <2> QED
    BY <2>1, LoopAssumption DEF ClockInv
<1>3. CASE UNCHANGED vars
  BY <1>3 DEF vars, fsvars, ClockInv
<1> QED
  BY <1>1, <1>2, <1>3, NextIsTick

LEMMA Clock == Spec => []ClockInv
BY InitParts, ClockStep, PTL DEF Spec

\* The loop drives the failsafe within the interface that Failsafe models:
\* every behaviour of the loop is one of the state machine.
THEOREM UsesFailsafe == Spec => FsP!Spec
BY InitParts, StepFailsafe, Clock, PTL DEF Spec, FsP!Spec

\* ... and the estimator within the interface that Estimator models.
THEOREM UsesEstimator == Spec => EsP!Spec
BY InitParts, StepEstimator, Clock, PTL DEF Spec, EsP!Spec

-----------------------------------------------------------------------------
(* What their theorems say holds in the loop.                              *)

LEMMA FailsafeHolds == Spec => []FsP!IInv
<1>1. FsP!Spec => []FsP!IInv
  BY FsP!Invariance, FailsafeAssumptions
<1> QED
  BY <1>1, UsesFailsafe, PTL

\* The bias of a loop's flight is made of still samples, as the estimator's is
\* whatever its caller does.
THEOREM LoopStillBias == Spec => []Est!BiasIsOfStillSamples
<1>1. EsP!Spec => []EsP!BiasIsOfStillSamples
  BY EsP!StillBias, EstimatorAssumptions
<1>2. EsP!BiasIsOfStillSamples => Est!BiasIsOfStillSamples
  BY DEF EsP!BiasIsOfStillSamples, Est!BiasIsOfStillSamples, EsP!Magnitude, Est!Magnitude
<1> QED
  BY <1>1, <1>2, UsesEstimator, PTL

-----------------------------------------------------------------------------
(* The stages after the failsafe.                                          *)

\* What the failsafe's own invariant gives the later stages of a tick.
LEMMA FailsafeFacts ==
  ASSUME FsP!IInv
  PROVE  /\ armed => reason = {} /\ ~active /\ ~boot_latched
         /\ boot_latched <=> "BootLatch" \in reason
         /\ armed \in BOOLEAN /\ active \in BOOLEAN /\ boot_latched \in BOOLEAN
         /\ imu_bad_count \in 0..ImuInvalidDebounce
         /\ last_good <= now /\ now \in Int /\ last_good \in Int
         /\ have_frame \in BOOLEAN
BY DEF FsP!IInv, FsP!TypeOK, FsP!LatchesAgree, FsP!ArmedIsClean, FsP!ClockInv

\* Without --arm-test, an armed craft is calibrated; what motors and LED show
\* follows from the parts of the same tick.
ArmedIsCalibrated == armed /\ ~arm_test => state = "Done"

\* With it, a craft is armed by the request of the first tick, before any
\* calibration, and then until a fault latches, which nothing clears.
ArmedOnce == arm_test =>
               /\ armed \/ ~arm_test_prev => state = "Idle"
               /\ arm_test_prev => armed \/ latched

LoopInv == /\ arm_test \in BOOLEAN
           /\ ArmedIsCalibrated /\ ArmedOnce
           /\ motors = "on" => armed
           /\ MotorsNeedEvidence /\ LedTellsTruth /\ StopsForABadSampleOnly

\* A tick armed by the switch had a frame, calibration, and a sound IMU.
LEMMA ArmedTick ==
  ASSUME FsP!IInv, FsP!IInv', ArmedIsCalibrated, NEW rc \in FsP!RcSample, NEW bad,
         NEW vbat, rc.t = now', rc.armed_switch => rc.frame_ok /\ switch',
         Fs!Update(rc, bad, vbat, now', state = "Done", arm_test),
         UNCHANGED arm_test, armed', ~arm_test
  PROVE  /\ state = "Done"
         /\ have_frame' /\ last_good' = now' /\ switch'
         /\ imu_bad_count' < ImuInvalidDebounce
<1>1. Fs!ArmBySwitch(rc, state = "Done", Fs!Faults(rc, vbat))
  BY DEF Fs!Update
<1>2. Fs!MayStayArmed(rc) /\ (armed \/ state = "Done")
  BY <1>1 DEF Fs!ArmBySwitch, Fs!MayArm
<1>3. state = "Done"
  BY <1>2 DEF ArmedIsCalibrated
<1>4. rc.frame_ok /\ switch'
  BY <1>2 DEF Fs!MayStayArmed
<1>5. imu_bad_count' < ImuInvalidDebounce
  <2>1. imu_bad_count' \in 0..ImuInvalidDebounce
    BY DEF FsP!IInv, FsP!TypeOK
  <2>2. ~(imu_bad_count' >= ImuInvalidDebounce)
    BY <1>2, Zenon DEF Fs!MayStayArmed, Fs!ImuInvalid
  <2> QED
    BY <2>1, <2>2, LoopAssumption
<1>6. have_frame' /\ last_good' = now'
  <2>1. CASE Fs!Fresh(rc)
    BY <2>1 DEF Fs!Update, Fs!ObserveRc
  <2>2. CASE ~Fs!Fresh(rc)
    <3>1. have_frame /\ ~(rc.t > last_good) /\ have_frame' = have_frame
          /\ last_good' = last_good
      BY <1>4, <2>2 DEF Fs!Fresh, Fs!Update, Fs!ObserveRc
    <3>2. last_good' <= now' /\ now' \in Int /\ last_good' \in Int
      BY DEF FsP!IInv, FsP!TypeOK, FsP!ClockInv
    <3> QED
      BY <3>1, <3>2
  <2> QED
    BY <2>1, <2>2
<1> QED
  BY <1>3, <1>4, <1>5, <1>6

\* Under a constant arm_test a tick arms once; later ones can only disarm, and
\* do so for a fault that they latch.
LEMMA RequestedTick ==
  ASSUME FsP!IInv, ArmedOnce, NEW rc, NEW bad, NEW vbat, NEW t, NEW done,
         Fs!Update(rc, bad, vbat, t, done, arm_test), arm_test
  PROVE  /\ arm_test_prev'
         /\ armed' \/ latched'
         /\ armed' => state = "Idle"
         /\ armed /\ ~armed' => active'
<1>1. arm_test_prev' = arm_test
  BY DEF Fs!Update
<1>2. CASE Fs!ArmRequest
  BY <1>1, <1>2 DEF Fs!ArmRequest, ArmedOnce
<1>3. CASE Fs!ArmHeld(Fs!Faults(rc, vbat))
  <2> DEFINE f == Fs!Faults(rc, vbat)
  <2>1. /\ arm_test_prev /\ armed' = (armed /\ ~latched' /\ ~active')
        /\ latched' = (latched \/ f # {}) /\ active' = (active \/ f # {})
    BY <1>3 DEF Fs!ArmHeld, Fs!Latch
  <2>2. armed => ~latched /\ ~active
    BY DEF FsP!IInv, FsP!ArmedIsClean
  <2> HIDE DEF f
  <2> QED
    BY <1>1, <2>1, <2>2 DEF ArmedOnce
<1> QED
  BY <1>2, <1>3 DEF Fs!Update

LEMMA TickLoop ==
  ASSUME FsP!IInv, FsP!IInv', LoopInv, ClockInv, Tick
  PROVE  LoopInv'
<1>1. PICK step \in Steps, rc \in FsP!RcSample, imu \in EsP!ImuSample, vbat \in Fs!Vbat :
        /\ rc.t = now + step
        /\ rc.armed_switch => rc.frame_ok /\ switch'
        /\ Stages(rc, imu, vbat, now + step)
  BY TickStages DEF ClockInv
<1> DEFINE bad == Est!ImuBad(imu)
<1>2. /\ Fs!Update(rc, bad, vbat, now', state = "Done", arm_test)
      /\ UNCHANGED arm_test /\ rc.t = now'
      /\ Estimate(imu) /\ OutputApply /\ LedSet
  BY <1>1 DEF Stages, Fs!Update
<1>3. /\ armed' => reason' = {} /\ ~active' /\ ~boot_latched'
      /\ boot_latched' <=> "BootLatch" \in reason'
      /\ armed' \in BOOLEAN /\ active' \in BOOLEAN /\ boot_latched' \in BOOLEAN
  BY DEF FsP!IInv, FsP!TypeOK, FsP!LatchesAgree, FsP!ArmedIsClean
<1>4. armed' /\ ~arm_test =>
        /\ state = "Done"
        /\ have_frame' /\ last_good' = now' /\ switch'
        /\ imu_bad_count' < ImuInvalidDebounce
  BY <1>1, <1>2, ArmedTick DEF LoopInv
<1>5. armed' => Est!Update(imu)
  BY <1>2 DEF Estimate
<1>6. Est!Update(imu) => /\ state' = state
                         /\ imu_valid' => invalid_count' < ImuInvalidDebounce
                         /\ ~imu_valid' => bad
  <2>1. Est!UpdateBad => (imu_valid' => invalid_count' < ImuInvalidDebounce)
    BY Zenon DEF Est!UpdateBad
  <2>2. Est!UpdateGood => imu_valid' /\ invalid_count' < ImuInvalidDebounce
    BY LoopAssumption DEF Est!UpdateGood
  <2>3. Est!Update(imu) => /\ state' = state
                           /\ (bad /\ Est!UpdateBad) \/ Est!UpdateGood
    BY DEF Est!Update, Est!calibvars
  <2> QED
    BY <2>1, <2>2, <2>3
<1>7. motors' = "on" <=> armed' /\ imu_valid'
  BY <1>2, <1>3 DEF OutputApply
<1>8. ArmedIsCalibrated'
  BY <1>2, <1>4, <1>5, <1>6 DEF ArmedIsCalibrated
<1>9. MotorsNeedEvidence'
  BY <1>2, <1>3, <1>4, <1>5, <1>6, <1>7 DEF MotorsNeedEvidence
<1>10. LedTellsTruth'
  BY <1>2, <1>3, <1>7 DEF LedTellsTruth, LedSet
<1>11. StopsForABadSampleOnly'
  <2> SUFFICES ASSUME armed', motors' = "off" PROVE imu_bad_count' > 0
    BY DEF StopsForABadSampleOnly
  <2>1. bad
    BY <1>5, <1>6, <1>7
  <2>2. imu_bad_count \in 0..ImuInvalidDebounce
    BY FailsafeFacts
  <2>3. imu_bad_count' = IF imu_bad_count < ImuInvalidDebounce
                         THEN imu_bad_count + 1 ELSE imu_bad_count
    BY <1>2, <2>1 DEF Fs!Update, Fs!ObserveImu
  <2> QED
    BY <2>2, <2>3, LoopAssumption
<1>12. ArmedOnce'
  <2> SUFFICES ASSUME arm_test PROVE ArmedOnce'
    BY <1>2 DEF ArmedOnce
  <2>1. arm_test_prev' /\ (armed' \/ latched') /\ (armed' => state = "Idle")
    BY <1>2, RequestedTick DEF LoopInv
  <2> QED
    BY <2>1, <1>5, <1>6 DEF ArmedOnce
<1> QED
  BY <1>2, <1>7, <1>8, <1>9, <1>10, <1>11, <1>12 DEF LoopInv

LEMMA RestartLoop ==
  ASSUME LoopInv, Restart
  PROVE  LoopInv'
<1>1. /\ ~armed' /\ ~arm_test_prev' /\ motors' = "off" /\ led' = "Boot"
      /\ state' = "Idle" /\ UNCHANGED arm_test
  BY RestartParts, Zenon DEF Restart, FsP!Reset, FsP!Boot, EsP!Reset
<1> QED
  BY <1>1 DEF LoopInv, ArmedIsCalibrated, ArmedOnce, MotorsNeedEvidence, LedTellsTruth,
              StopsForABadSampleOnly

LEMMA InitLoop == Init => LoopInv
<1>1. (Fs!Init => armed = FALSE /\ arm_test_prev = FALSE) /\ (Est!Init => state = "Idle")
  BY DEF Fs!Init, Est!Init
<1> QED
  BY <1>1 DEF Init, LoopInv, ArmedIsCalibrated, ArmedOnce, MotorsNeedEvidence, LedTellsTruth,
              StopsForABadSampleOnly

LEMMA NextLoop == FsP!IInv /\ FsP!IInv' /\ ClockInv /\ LoopInv /\ [Next]_vars => LoopInv'
<1> SUFFICES ASSUME FsP!IInv, FsP!IInv', ClockInv, LoopInv, [Next]_vars PROVE LoopInv'
  OBVIOUS
<1>1. CASE Restart
  BY <1>1, RestartLoop
<1>2. CASE Tick
  BY <1>2, TickLoop
<1>3. CASE UNCHANGED vars
  BY <1>3 DEF vars, fsvars, estvars, LoopInv, ArmedIsCalibrated, ArmedOnce, MotorsNeedEvidence,
              LedTellsTruth, StopsForABadSampleOnly
<1> QED
  BY <1>1, <1>2, <1>3, NextIsTick

\* What relates the stages of a tick, in every state of the loop
\* (control_loop.cpp:10-91).
THEOREM LoopInvariance == Spec => []LoopInv
BY InitLoop, NextLoop, FailsafeHolds, Clock, PTL DEF Spec

-----------------------------------------------------------------------------
\* Without --arm-test, motors turn only on a calibrated craft that heard its
\* pilot in this very tick, with every debounce and latch clear.
THEOREM MotorEvidence == Spec => []MotorsNeedEvidence
<1>1. LoopInv => MotorsNeedEvidence
  BY DEF LoopInv
<1> QED
  BY <1>1, LoopInvariance, PTL

\* The LED shows turning motors, and hides no latch.
THEOREM HonestLed == Spec => []LedTellsTruth
<1>1. LoopInv => LedTellsTruth
  BY DEF LoopInv
<1> QED
  BY <1>1, LoopInvariance, PTL

\* Only a bad IMU sample in the same tick stops the motors of an armed craft.
THEOREM StopCause == Spec => []StopsForABadSampleOnly
<1>1. LoopInv => StopsForABadSampleOnly
  BY DEF LoopInv
<1> QED
  BY <1>1, LoopInvariance, PTL

\* No flight subtracts a bias that a sample of a flight has reached: a craft is
\* armed with its calibration finished or, under --arm-test, not begun.
THEOREM EarlierBias == Spec => []FliesOnEarlierBias
<1>1. LoopInv => FliesOnEarlierBias
  BY DEF LoopInv, ArmedIsCalibrated, ArmedOnce, FliesOnEarlierBias
<1> QED
  BY <1>1, LoopInvariance, PTL

\* No sample taken while motors turn reaches the calibration, save that of the
\* tick in which a fault ends a flight that --arm-test began uncalibrated;
\* and no flight subtracts a bias that such a sample has reached.
THEOREM FrozenBias == Spec => BiasFrozenInFlight
<1> DEFINE Frozen == motors = "on" =>
             \/ UNCHANGED <<state, n, sum, bias>>
             \/ arm_test /\ state = "Idle" /\ active' /\ motors' = "off"
             \/ Restart
<1>1. ASSUME LoopInv, ClockInv, FsP!IInv, [Next]_vars PROVE [Frozen]_vars
  <2>1. CASE Tick /\ motors = "on"
    <3>1. PICK step \in Steps, rc \in FsP!RcSample, imu \in EsP!ImuSample, vbat \in Fs!Vbat :
            Stages(rc, imu, vbat, now + step)
      BY <1>1, <2>1, TickStages DEF ClockInv
    <3>2. armed
      BY <1>1, <2>1 DEF LoopInv
    <3>3. CASE armed'
      BY <3>1, <3>3 DEF Stages, Estimate, Est!Update, Est!calibvars
    <3>4. CASE ~armed' /\ ~arm_test
      <4>1. state = "Done" /\ Est!CalibrateUpdate(imu)
        BY <1>1, <2>1, <3>1, <3>4 DEF LoopInv, MotorsNeedEvidence, Stages, Estimate
      <4> QED
        BY <4>1 DEF Est!CalibrateUpdate, Est!calibvars
    <3>5. CASE ~armed' /\ arm_test
      <4>1. state = "Idle"
        BY <1>1, <3>2, <3>5 DEF LoopInv, ArmedOnce
      <4>2. active'
        BY <1>1, <3>1, <3>2, <3>5, RequestedTick DEF LoopInv, Stages
      <4>3. motors' = "off"
        BY <3>1, <3>5 DEF Stages, OutputApply
      <4> QED
        BY <3>5, <4>1, <4>2, <4>3
    <3> QED
      BY <1>1, <3>3, <3>4, <3>5 DEF LoopInv
  <2> QED
    BY <1>1, <2>1, NextIsTick
<1> QED
  BY <1>1, LoopInvariance, Clock, FailsafeHolds, EarlierBias, PTL DEF Spec, BiasFrozenInFlight

=============================================================================
