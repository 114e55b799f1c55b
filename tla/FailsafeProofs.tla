--------------------------- MODULE FailsafeProofs ---------------------------
(***************************************************************************)
(* Theorems about Failsafe, for every timeout, debounce and streak length, *)
(* every kind of caller and every clock bound.                     *)
(***************************************************************************)
EXTENDS Failsafe, TLAPS

-----------------------------------------------------------------------------
LEMMA LongStreak ==
  ASSUME NEW streak \in Int, NEW stamp \in Int, NEW least \in Nat \ {0},
         streak > 0 => stamp >= streak - 1, streak >= least
  PROVE  stamp >= least - 1
OBVIOUS

\* A fault set only ever holds fault reasons: the boot latch is boot()'s.
LEMMA FaultsAreFaults ==
  ASSUME NEW rc, NEW vbat
  PROVE  Faults(rc, vbat) \subseteq FaultReason
BY DEF Faults

\* What update()'s first section does to the streak and the last good frame.
ClockInv ==
  /\ last_good <= now
  /\ ~have_frame => good_frames = 0 /\ last_good = 0
  /\ good_frames > 0 => have_frame /\ last_good >= good_frames - 1

RcTyped ==
  /\ have_frame \in BOOLEAN
  /\ now \in 0..MaxTime /\ last_good \in 0..MaxTime
  /\ good_frames \in Nat /\ lost_count \in 0..RcFrameLostN

LEMMA ObserveRcStep ==
  ASSUME RcTyped, ClockInv, NEW rc \in RcSample, NEW t \in 0..MaxTime,
         now <= t, rc.t <= t, now' = t, ObserveRc(rc)
  PROVE  RcTyped' /\ ClockInv' /\ last_good' >= last_good
<1>1. rc.t \in 0..MaxTime
  BY DEF RcSample
<1>2. CASE Fresh(rc)
  <2>1. good_frames' = good_frames + 1 /\ last_good' = rc.t /\ have_frame' = TRUE
        /\ lost_count' = 0
    BY <1>2 DEF ObserveRc
  <2>2. good_frames > 0 => rc.t > last_good
    BY <1>2 DEF Fresh, ClockInv
  <2>3. last_good <= rc.t
    BY <1>1, <1>2, TimeAssumption DEF Fresh, ClockInv, RcTyped
  <2> QED
    BY <1>1, <2>1, <2>2, <2>3, TimeAssumption, CountAssumption DEF RcTyped, ClockInv
<1>3. CASE ~Fresh(rc)
  <2>1. good_frames' = 0 /\ last_good' = last_good /\ have_frame' = have_frame
        /\ lost_count' = IF rc.frame_lost /\ lost_count < RcFrameLostN
                         THEN lost_count + 1 ELSE lost_count
    BY <1>3 DEF ObserveRc
  <2> QED
    BY <2>1, TimeAssumption, CountAssumption DEF RcTyped, ClockInv
<1> QED
  BY <1>2, <1>3

LEMMA ObserveImuStep ==
  ASSUME imu_bad_count \in 0..ImuInvalidDebounce, NEW imu_bad \in BOOLEAN,
         ObserveImu(imu_bad)
  PROVE  imu_bad_count' \in 0..ImuInvalidDebounce
BY CountAssumption DEF ObserveImu

-----------------------------------------------------------------------------
\* The arm section, whichever branch runs, leaves the latches in agreement.
FlagsTyped ==
  /\ armed \in BOOLEAN /\ active \in BOOLEAN /\ latched \in BOOLEAN
  /\ boot_latched \in BOOLEAN /\ reason \subseteq FailsafeReason

LEMMA LatchStep ==
  ASSUME FlagsTyped, LatchesAgree, NEW f \in SUBSET FaultReason, Latch(f)
  PROVE  /\ LatchesAgree'
         /\ active' \in BOOLEAN /\ latched' \in BOOLEAN /\ boot_latched' \in BOOLEAN
         /\ reason' \subseteq FailsafeReason /\ reason \subseteq reason'
         /\ boot_latched' => latched'
         /\ f # {} => active'
BY DEF FlagsTyped, LatchesAgree, Latch, FaultReason, FailsafeReason

LEMMA ArmStep ==
  ASSUME FlagsTyped, LatchesAgree, NEW f \in SUBSET FaultReason,
         NEW rc, NEW calibrated,
         ArmRequest \/ ArmHeld(f) \/ ArmBySwitch(rc, calibrated, f)
  PROVE  FlagsTyped' /\ LatchesAgree' /\ ArmedIsClean'
<1>1. CASE ArmRequest
  BY <1>1 DEF ArmRequest, FlagsTyped, LatchesAgree, ArmedIsClean, FaultReason
<1>2. CASE ArmHeld(f)
  <2>1. Latch(f) /\ armed' = (armed /\ ~latched' /\ ~active')
    BY <1>2 DEF ArmHeld
  <2> QED
    BY <2>1, LatchStep DEF FlagsTyped, ArmedIsClean
<1>3. CASE ArmBySwitch(rc, calibrated, f)
  <2>1. Latch(f) /\ armed' \in BOOLEAN
    BY <1>3 DEF ArmBySwitch
  <2>2. armed' => ~latched' /\ ~boot_latched' /\ ~active'
    BY <1>3 DEF ArmBySwitch, MayStayArmed
  <2> QED
    BY <2>1, <2>2, LatchStep DEF FlagsTyped, ArmedIsClean
<1> QED
  BY <1>1, <1>2, <1>3

-----------------------------------------------------------------------------
\* Where no caller passes arm_test, the faults of this update are latched and
\* an armed craft has a streak behind it.
FlightInv ==
  caller = {FALSE} => /\ ~arm_test_prev
                      /\ Standing => active
                      /\ armed => last_good >= ArmMinGoodFrames - 1

IInv == TypeOK /\ LatchesAgree /\ ArmedIsClean /\ ClockInv /\ FlightInv

LEMMA InitIInv == Init => IInv
<1> SUFFICES ASSUME Init PROVE IInv
  OBVIOUS
<1> USE DEF Init
<1>1. TypeOK
  <2>1. /\ now \in 0..MaxTime /\ last_good \in 0..MaxTime /\ good_frames \in Nat
        /\ lost_count \in 0..RcFrameLostN /\ imu_bad_count \in 0..ImuInvalidDebounce
    BY TimeAssumption, CountAssumption
  <2>2. reason \subseteq FailsafeReason
    BY DEF FailsafeReason
  <2> QED
    BY <2>1, <2>2 DEF TypeOK
<1>2. LatchesAgree /\ ArmedIsClean
  BY DEF LatchesAgree, ArmedIsClean, FaultReason
<1>3. ClockInv
  BY DEF ClockInv
<1>4. FlightInv
  <2>1. imu_bad_count # ImuInvalidDebounce
    BY CountAssumption
  <2> QED
    BY <2>1 DEF FlightInv, Standing
<1> QED
  BY <1>1, <1>2, <1>3, <1>4 DEF IInv

LEMMA ResetIInv ==
  ASSUME caller \in Callers, Reset, UNCHANGED caller
  PROVE  IInv'
<1>1. PICK r \in ResetReason : Boot(r)
  BY DEF Reset
<1>2. TypeOK'
  <2>1. /\ now' \in 0..MaxTime /\ last_good' \in 0..MaxTime /\ good_frames' \in Nat
        /\ lost_count' \in 0..RcFrameLostN /\ imu_bad_count' \in 0..ImuInvalidDebounce
    BY <1>1, TimeAssumption, CountAssumption DEF Boot
  <2>2. reason' \subseteq FailsafeReason
    BY <1>1 DEF Boot, FailsafeReason
  <2>3. /\ armed' \in BOOLEAN /\ active' \in BOOLEAN /\ vbat_nan' \in BOOLEAN
        /\ arm_test_prev' \in BOOLEAN /\ have_frame' \in BOOLEAN
    BY <1>1 DEF Boot
  <2>4. latched' \in BOOLEAN /\ boot_latched' \in BOOLEAN
    BY <1>1 DEF Boot
  <2>5. caller' \in Callers
    OBVIOUS
  <2> QED
    BY <2>1, <2>2, <2>3, <2>4, <2>5 DEF TypeOK
<1>3. LatchesAgree' /\ ArmedIsClean'
  BY <1>1 DEF Boot, LatchesAgree, ArmedIsClean, FaultReason
<1>4. ClockInv'
  BY <1>1 DEF Boot, ClockInv
<1>5. FlightInv'
  <2>1. imu_bad_count' # ImuInvalidDebounce
    BY <1>1, CountAssumption DEF Boot
  <2> QED
    BY <1>1, <2>1 DEF Boot, FlightInv, Standing
<1> QED
  BY <1>2, <1>3, <1>4, <1>5 DEF IInv

\* A fault that stands once the counters are up to date is in the fault set.
LEMMA StandingIsFault ==
  ASSUME TypeOK', Standing', NEW rc, NEW vbat
  PROVE  Faults(rc, vbat) # {}
BY CountAssumption
   DEF TypeOK, Standing, Faults, RcTimedOut, ImuInvalid, FaultReason

LEMMA TickIInv ==
  ASSUME IInv, Tick, UNCHANGED caller
  PROVE  IInv'
<1>1. PICK step \in Steps, rc \in RcSample, imu_bad \in BOOLEAN, vbat \in Vbat,
           calibrated \in BOOLEAN, arm_test \in caller :
        /\ now + step <= MaxTime
        /\ rc.t <= now + step
        /\ Update(rc, imu_bad, vbat, now + step, calibrated, arm_test)
  BY DEF Tick
<1> DEFINE f == Faults(rc, vbat)
           t == now + step
<1>2. t \in 0..MaxTime /\ now <= t /\ rc.t <= t /\ now' = t
  BY <1>1, TimeAssumption DEF IInv, TypeOK, Update
<1>3. RcTyped' /\ ClockInv' /\ last_good' >= last_good
  <2> HIDE DEF t
  <2>1. RcTyped /\ ClockInv
    BY DEF IInv, TypeOK, RcTyped
  <2>2. ObserveRc(rc)
    BY <1>1 DEF Update
  <2> QED
    BY <1>2, <2>1, <2>2, ObserveRcStep
<1>4. imu_bad_count' \in 0..ImuInvalidDebounce
  BY <1>1, ObserveImuStep DEF IInv, TypeOK, Update
<1>5. f \in SUBSET FaultReason
  BY FaultsAreFaults
<1>6. FlagsTyped' /\ LatchesAgree' /\ ArmedIsClean'
  <2>1. FlagsTyped /\ LatchesAgree
    BY DEF IInv, TypeOK, FlagsTyped
  <2>2. ArmRequest \/ ArmHeld(f) \/ ArmBySwitch(rc, calibrated, f)
    BY <1>1 DEF Update
  <2> QED
    BY <1>5, <2>1, <2>2, ArmStep
<1>7. TypeOK'
  <2>1. caller' \in Callers
    BY DEF IInv, TypeOK
  <2>2. vbat_nan' \in BOOLEAN /\ arm_test_prev' \in BOOLEAN
    BY <1>1, CallersAssumption DEF Update, IInv, TypeOK
  <2> QED
    BY <1>3, <1>4, <1>6, <2>1, <2>2 DEF TypeOK, RcTyped, FlagsTyped
<1>8. FlightInv'
  <2> SUFFICES ASSUME caller = {FALSE} PROVE FlightInv'
    BY DEF FlightInv
  <2>1. ~arm_test_prev' /\ ArmBySwitch(rc, calibrated, f)
    BY <1>1 DEF Update
  <2>2. Standing' => active'
    <3>1. f # {} => active'
      BY <2>1 DEF ArmBySwitch, Latch
    <3> QED
      BY <1>7, <3>1, StandingIsFault
  <2>3. armed' => last_good' >= ArmMinGoodFrames - 1
    <3>1. CASE armed
      <4>1. last_good >= ArmMinGoodFrames - 1
        BY <3>1 DEF IInv, FlightInv
      <4>2. last_good \in Int /\ last_good' \in Int
        BY <1>3 DEF IInv, TypeOK, RcTyped
      <4> QED
        BY <1>3, <4>1, <4>2, CountAssumption
    <3>2. CASE ~armed
      <4>1. armed' => good_frames' >= ArmMinGoodFrames
        BY <2>1, <3>2 DEF ArmBySwitch, MayArm
      <4>2. good_frames' \in Int /\ last_good' \in Int
        BY <1>3 DEF RcTyped
      <4>3. good_frames' > 0 => last_good' >= good_frames' - 1
        BY <1>3 DEF ClockInv
      <4> QED
        BY <4>1, <4>2, <4>3, CountAssumption, LongStreak
    <3> QED
      BY <3>1, <3>2
  <2> QED
    BY <2>1, <2>2, <2>3 DEF FlightInv
<1> QED
  BY <1>3, <1>6, <1>7, <1>8 DEF IInv

LEMMA StutterIInv ==
  ASSUME IInv, UNCHANGED vars
  PROVE  IInv'
BY DEF IInv, TypeOK, LatchesAgree, ArmedIsClean, ClockInv, FlightInv, Standing,
       vars, fsmvars, flags, counts

LEMMA NextIInv ==
  ASSUME IInv, [Next]_vars
  PROVE  IInv'
BY ResetIInv, TickIInv, StutterIInv DEF Next, IInv, TypeOK

\* The inductive invariant holds in every reachable state.
THEOREM Invariance == Spec => []IInv
BY InitIInv, NextIInv, PTL DEF Spec

-----------------------------------------------------------------------------
\* Every variable keeps its type: no counter passes its bound.
THEOREM TypeCorrect == Spec => []TypeOK
<1>1. IInv => TypeOK
  BY DEF IInv
<1> QED
  BY <1>1, Invariance, PTL

\* The three latch flags and the reason bits never disagree.
THEOREM LatchAgreement == Spec => []LatchesAgree
<1>1. IInv => LatchesAgree
  BY DEF IInv
<1> QED
  BY <1>1, Invariance, PTL

\* The craft is never armed over a latch.
THEOREM CleanArming == Spec => []ArmedIsClean
<1>1. IInv => ArmedIsClean
  BY DEF IInv
<1> QED
  BY <1>1, Invariance, PTL

\* No replayed frame counts towards the streak that arming takes.
THEOREM NoReplayedStreak == Spec => []StreakIsFresh
<1>1. IInv => StreakIsFresh
  BY DEF IInv, ClockInv, FlightInv, StreakIsFresh
<1> QED
  BY <1>1, Invariance, PTL

\* Without --arm-test, a timeout or a dead IMU is latched as long as it lasts.
THEOREM FaultIsLatched == Spec => []StandingFaultIsActive
<1>1. IInv => StandingFaultIsActive
  BY DEF IInv, FlightInv, StandingFaultIsActive
<1> QED
  BY <1>1, Invariance, PTL

-----------------------------------------------------------------------------
\* The three ways the arm section can go, under the invariant.
LEMMA TickCases ==
  ASSUME IInv, Tick, UNCHANGED caller
  PROVE  \E rc \in RcSample, f \in SUBSET FaultReason, calibrated \in BOOLEAN :
           /\ ObserveRc(rc)
           /\ Standing' => f # {}
           /\ \/ ArmRequest /\ arm_test_prev' = TRUE /\ TRUE \in caller
              \/ ArmHeld(f)
              \/ ArmBySwitch(rc, calibrated, f)
<1>1. PICK step \in Steps, rc \in RcSample, imu_bad \in BOOLEAN, vbat \in Vbat,
           calibrated \in BOOLEAN, arm_test \in caller :
             Update(rc, imu_bad, vbat, now + step, calibrated, arm_test)
  BY DEF Tick
<1> DEFINE f == Faults(rc, vbat)
<1>2. f \in SUBSET FaultReason
  BY FaultsAreFaults
<1>3. Standing' => f # {}
  BY TickIInv, StandingIsFault DEF IInv
<1>4. ObserveRc(rc)
  BY <1>1 DEF Update
<1>5. \/ ArmRequest /\ arm_test_prev' = TRUE /\ TRUE \in caller
      \/ ArmHeld(f)
      \/ ArmBySwitch(rc, calibrated, f)
  <2> HIDE DEF f
  <2>1. arm_test_prev' = arm_test /\ arm_test \in BOOLEAN
    BY <1>1, CallersAssumption DEF Update, IInv, TypeOK
  <2>2. \/ arm_test /\ ArmRequest
        \/ arm_test /\ ArmHeld(f)
        \/ ~arm_test /\ ArmBySwitch(rc, calibrated, f)
    BY <1>1 DEF Update, f
  <2> QED
    BY <2>1, <2>2
<1> HIDE DEF f
<1> QED
  BY <1>2, <1>3, <1>4, <1>5

\* Only the rising edge of an arm request leaves the craft armed in a fault.
THEOREM RequestOverrides == Spec => OnlyRequestOverridesFault
<1> DEFINE A == (armed /\ Standing)' => arm_test_prev' /\ ~arm_test_prev
<1>1. ASSUME IInv, [Next]_vars PROVE [A]_vars
  <2>1. CASE Reset
    BY <2>1 DEF Reset, Boot
  <2>2. CASE Tick /\ UNCHANGED caller
    <3>1. PICK rc \in RcSample, f \in SUBSET FaultReason, calibrated \in BOOLEAN :
            /\ Standing' => f # {}
            /\ \/ ArmRequest /\ arm_test_prev' = TRUE
               \/ ArmHeld(f)
               \/ ArmBySwitch(rc, calibrated, f)
      BY <1>1, <2>2, TickCases
    <3>2. CASE ArmRequest /\ arm_test_prev' = TRUE
      BY <3>2 DEF ArmRequest
    <3>3. CASE ArmHeld(f)
      BY <3>1, <3>3 DEF ArmHeld, Latch
    <3>4. CASE ArmBySwitch(rc, calibrated, f)
      BY <3>1, <3>4 DEF ArmBySwitch, Latch
    <3> QED
      BY <3>1, <3>2, <3>3, <3>4
  <2>3. CASE UNCHANGED vars
    BY <2>3
  <2> QED
    BY <1>1, <2>1, <2>2, <2>3 DEF Next
<1> QED
  BY <1>1, Invariance, PTL DEF Spec, OnlyRequestOverridesFault

\* A reason is cleared by a reset or by the rising edge of a request alone.
THEOREM StickyLatch == Spec => LatchIsSticky
<1> DEFINE A == reason \subseteq reason' \/ Reset \/ (arm_test_prev' /\ ~arm_test_prev)
<1>1. ASSUME IInv, [Next]_vars PROVE [A]_vars
  <2>1. CASE Tick /\ UNCHANGED caller
    <3>1. PICK rc \in RcSample, f \in SUBSET FaultReason, calibrated \in BOOLEAN :
            \/ ArmRequest /\ arm_test_prev' = TRUE
            \/ ArmHeld(f)
            \/ ArmBySwitch(rc, calibrated, f)
      BY <1>1, <2>1, TickCases
    <3>2. CASE ArmRequest /\ arm_test_prev' = TRUE
      BY <3>2 DEF ArmRequest
    <3>3. CASE Latch(f)
      BY <3>3 DEF Latch
    <3> QED
      BY <3>1, <3>2, <3>3 DEF ArmHeld, ArmBySwitch
  <2> QED
    BY <1>1, <2>1 DEF Next
<1> QED
  BY <1>1, Invariance, PTL DEF Spec, LatchIsSticky

-----------------------------------------------------------------------------
(* Failsafe implements ArmGate.                                            *)

LEMMA GateInit == Init => Gate!Init
<1> SUFFICES ASSUME Init PROVE Gate!Init
  OBVIOUS
<1>1. GateMode \in {"Safe", "Locked"}
  BY DEF Init, GateMode
<1>2. GateStreak = 0
  BY CountAssumption DEF Init, GateStreak
<1> QED
  BY <1>1, <1>2 DEF Gate!Init

LEMMA GateRestart ==
  ASSUME Reset
  PROVE  Gate!Restart
<1>1. PICK r \in ResetReason : Boot(r)
  BY DEF Reset
<1>2. GateMode' \in {"Safe", "Locked"}
  BY <1>1 DEF Boot, GateMode
<1>3. GateStreak' = 0
  BY <1>1, CountAssumption DEF Boot, GateStreak
<1> QED
  BY <1>2, <1>3 DEF Gate!Restart

\* The streak that the gate sees is the code's, cut off where arming is
\* possible.
LEMMA GateObserve ==
  ASSUME good_frames \in Nat, NEW rc, ObserveRc(rc)
  PROVE  Gate!Observe
<1>1. good_frames' = good_frames + 1 \/ good_frames' = 0
  BY DEF ObserveRc
<1>2. CASE good_frames' = 0
  <2>1. GateStreak' = 0
    BY <1>2, CountAssumption DEF GateStreak
  <2> QED
    BY <2>1 DEF Gate!Observe
<1>3. CASE good_frames' = good_frames + 1
  <2>1. CASE good_frames < ArmMinGoodFrames
    <3>1. GateStreak = good_frames /\ GateStreak < ArmMinGoodFrames
      BY <2>1 DEF GateStreak
    <3>2. GateStreak' = good_frames + 1
      BY <1>3, <2>1, CountAssumption DEF GateStreak
    <3> QED
      BY <3>1, <3>2 DEF Gate!Observe
  <2>2. CASE ~(good_frames < ArmMinGoodFrames)
    <3>1. GateStreak = ArmMinGoodFrames
      BY <2>2 DEF GateStreak
    <3>2. GateStreak' = ArmMinGoodFrames
      BY <1>3, <2>2, CountAssumption DEF GateStreak
    <3> QED
      BY <3>1, <3>2 DEF Gate!Observe
  <2> QED
    BY <2>1, <2>2
<1> QED
  BY <1>1, <1>2, <1>3

LEMMA GateTick ==
  ASSUME IInv, IInv', Tick, UNCHANGED caller
  PROVE  Gate!Next
<1>1. PICK rc \in RcSample, f \in SUBSET FaultReason, calibrated \in BOOLEAN :
        /\ ObserveRc(rc)
        /\ \/ ArmRequest /\ TRUE \in caller
           \/ ArmHeld(f)
           \/ ArmBySwitch(rc, calibrated, f)
  BY TickCases
<1>2. Gate!Observe
  BY <1>1, GateObserve DEF IInv, TypeOK
<1>3. ~latched' => ~active'
  BY DEF IInv, LatchesAgree
<1>4. CASE latched'
  BY <1>2, <1>4 DEF GateMode, Gate!Next, Gate!LockOut
<1>5. CASE ~latched' /\ ArmRequest /\ TRUE \in caller
  <2>1. GateMode' = "Armed"
    BY <1>5 DEF ArmRequest, GateMode
  <2> QED
    BY <1>2, <1>5, <2>1 DEF Gate!Next, Gate!Request
<1>6. CASE ~latched' /\ ArmHeld(f)
  <2>1. ~latched /\ armed' = armed
    BY <1>3, <1>6 DEF ArmHeld, Latch, IInv, TypeOK
  <2>2. GateMode' = GateMode
    BY <1>6, <2>1 DEF GateMode
  <2> QED
    BY <1>2, <2>2 DEF Gate!Next, Gate!Stay
<1>7. CASE ~latched' /\ ArmBySwitch(rc, calibrated, f)
  <2>1. ~latched
    BY <1>7 DEF ArmBySwitch, Latch
  <2>2. CASE armed' = armed
    <3>1. GateMode' = GateMode
      BY <1>7, <2>1, <2>2 DEF GateMode
    <3> QED
      BY <1>2, <3>1 DEF Gate!Next, Gate!Stay
  <2>3. CASE ~armed' /\ armed
    <3>1. GateMode = "Armed" /\ GateMode' = "Safe"
      BY <1>7, <2>1, <2>3 DEF GateMode
    <3> QED
      BY <1>2, <3>1 DEF Gate!Next, Gate!Disarm
  <2>4. CASE armed' /\ ~armed
    <3>1. GateMode = "Safe" /\ GateMode' = "Armed"
      BY <1>7, <2>1, <2>4 DEF GateMode
    <3>2. good_frames' >= ArmMinGoodFrames /\ good_frames' \in Nat
      BY <1>7, <2>4 DEF ArmBySwitch, MayArm, IInv, TypeOK
    <3>3. GateStreak' = ArmMinGoodFrames
      BY <3>2, CountAssumption DEF GateStreak
    <3> QED
      BY <1>2, <3>1, <3>3 DEF Gate!Next, Gate!Arm
  <2>5. armed \in BOOLEAN /\ armed' \in BOOLEAN
    BY DEF IInv, TypeOK
  <2> QED
    BY <2>2, <2>3, <2>4, <2>5, Zenon
<1> QED
  BY <1>1, <1>4, <1>5, <1>6, <1>7

\* Every behaviour of the state machine is one of the abstract gate: arming
\* takes an unbroken streak, and a lockout ends by a restart or a request.
THEOREM GateRefinement == Spec => ImplementsGate
<1>1. ASSUME IInv, IInv', [Next]_vars PROVE [Gate!Next]_(Gate!vars)
  <2>1. CASE Reset /\ UNCHANGED caller
    <3>1. Gate!Restart
      BY <2>1, GateRestart
    <3> QED
      BY <2>1, <3>1 DEF Gate!Next
  <2>2. CASE Tick /\ UNCHANGED caller
    BY <1>1, <2>2, GateTick
  <2>3. CASE UNCHANGED vars
    BY <2>3 DEF vars, fsmvars, flags, counts, Gate!vars, GateMode, GateStreak
  <2> QED
    BY <1>1, <2>1, <2>2, <2>3 DEF Next
<1> QED
  BY <1>1, GateInit, Invariance, PTL DEF Spec, ImplementsGate, Gate!Spec

=============================================================================
