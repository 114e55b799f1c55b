-------------------------- MODULE EstimatorProofs ---------------------------
(***************************************************************************)
(* For every number of samples, motion limit, decimation and debounce, and *)
(* for any order of calls: the estimator is well typed, and its bias is    *)
(* made of still samples only.                                             *)
(***************************************************************************)
EXTENDS Estimator, TLAPS

-----------------------------------------------------------------------------
(* The arithmetic of a magnitude.                                          *)

LEMMA MagnitudeBound ==
  ASSUME NEW x \in Int, NEW b \in Int
  PROVE  Magnitude(x) <= b <=> -b <= x /\ x <= b
BY DEF Magnitude

LEMMA OneMore ==
  ASSUME NEW k \in Int, NEW c \in Int
  PROVE  (k + 1) * c = k * c + c
OBVIOUS

\* A still sample adds at most one limit to what was collected.
LEMMA StillSampleAdds ==
  ASSUME NEW s \in Int, NEW g \in Int, NEW k \in Nat,
         Magnitude(s) <= k * CalibMaxGyro, Magnitude(g) <= CalibMaxGyro
  PROVE  Magnitude(s + g) <= (k + 1) * CalibMaxGyro
<1> DEFINE b == k * CalibMaxGyro
<1>1. /\ CalibMaxGyro \in Int /\ b \in Int
      /\ (k + 1) * CalibMaxGyro = b + CalibMaxGyro
  BY CalibAssumption, OneMore
<1> HIDE DEF b
<1>2. /\ -b <= s /\ s <= b
      /\ -CalibMaxGyro <= g /\ g <= CalibMaxGyro
  BY <1>1, MagnitudeBound DEF b
<1>3. /\ -(b + CalibMaxGyro) <= s + g /\ s + g <= b + CalibMaxGyro
      /\ s + g \in Int /\ b + CalibMaxGyro \in Int
  BY <1>1, <1>2
<1> QED
  BY <1>1, <1>3, MagnitudeBound

-----------------------------------------------------------------------------
\* A collection that is not done has room for another sample.
RoomForMore == state # "Done" => n < CalibSamples

IInv == TypeOK /\ RoomForMore /\ BiasIsOfStillSamples

CalibInv ==
  /\ state \in {"Idle", "Collect", "Done"} /\ n \in 0..CalibSamples
  /\ sum \in Int /\ bias \in Int
  /\ RoomForMore /\ BiasIsOfStillSamples

FusionInv ==
  /\ invalid_count \in 0..ImuInvalidDebounce
  /\ imu_valid \in BOOLEAN
  /\ decim \in 0..(EstDecim - 1)

LEMMA IInvParts == IInv <=> CalibInv /\ FusionInv
BY DEF IInv, CalibInv, FusionInv, TypeOK

\* Nothing collected weighs nothing.
LEMMA ZeroBound ==
  ASSUME NEW k \in Nat
  PROVE  Magnitude(0) <= k * CalibMaxGyro
<1>1. k * CalibMaxGyro \in Nat
  BY CalibAssumption
<1> QED
  BY <1>1 DEF Magnitude

LEMMA FreshIInv ==
  ASSUME state = "Idle" /\ n = 0 /\ sum = 0 /\ bias = 0,
         invalid_count = 0 /\ imu_valid = TRUE /\ decim = 0
  PROVE  IInv
<1>1. Magnitude(0) <= 0 * CalibMaxGyro /\ Magnitude(0) <= CalibSamples * CalibMaxGyro
  BY ZeroBound, CalibAssumption
<1> QED
  BY <1>1, CalibAssumption, FusionAssumption
     DEF IInv, TypeOK, RoomForMore, BiasIsOfStillSamples

LEMMA InitIInv == Init => IInv
BY FreshIInv DEF Init

LEMMA CollectStep ==
  ASSUME CalibInv, state # "Done", NEW imu \in ImuSample,
         Magnitude(imu.gyro) <= CalibMaxGyro, Collect(imu)
  PROVE  CalibInv'
<1>1. imu.gyro \in Int /\ n \in Nat /\ n + 1 <= CalibSamples
  <2>1. imu.gyro \in Gyro
    BY DEF ImuSample
  <2>2. n \in Nat /\ n < CalibSamples
    BY DEF CalibInv, RoomForMore
  <2>3. CalibSamples \in Int
    BY CalibAssumption
  <2>4. imu.gyro \in Int
    BY <2>1, CalibAssumption
  <2>5. n + 1 <= CalibSamples
    BY <2>2, <2>3
  <2> QED
    BY <2>2, <2>4, <2>5
<1>2. Magnitude(sum + imu.gyro) <= (n + 1) * CalibMaxGyro
  BY <1>1, StillSampleAdds DEF CalibInv, BiasIsOfStillSamples
<1>3. n' = n + 1 /\ sum' = sum + imu.gyro
  BY DEF Collect
<1>4. Magnitude(sum') <= n' * CalibMaxGyro
  BY <1>2, <1>3
<1>5. CASE n + 1 >= CalibSamples
  <2>1. n' = CalibSamples /\ state' = "Done" /\ bias' = sum'
    BY <1>1, <1>3, <1>5, CalibAssumption DEF Collect
  <2>2. Magnitude(bias') <= CalibSamples * CalibMaxGyro
    BY <1>4, <2>1
  <2> QED
    BY <1>1, <1>3, <1>4, <2>1, <2>2, CalibAssumption
       DEF CalibInv, RoomForMore, BiasIsOfStillSamples
<1>6. CASE ~(n + 1 >= CalibSamples)
  <2>1. state' = "Collect" /\ bias' = bias /\ n' < CalibSamples
    BY <1>1, <1>3, <1>6, CalibAssumption DEF Collect
  <2> QED
    BY <1>1, <1>3, <1>4, <2>1, CalibAssumption
       DEF CalibInv, RoomForMore, BiasIsOfStillSamples
<1> QED
  BY <1>5, <1>6

LEMMA RestartStep ==
  ASSUME CalibInv, RestartCollection
  PROVE  CalibInv'
<1>1. Magnitude(0) <= 0 * CalibMaxGyro
  BY ZeroBound
<1> QED
  BY <1>1, CalibAssumption
     DEF CalibInv, RestartCollection, RoomForMore, BiasIsOfStillSamples

\* calibrateUpdate keeps the collection honest and leaves the fusion alone.
LEMMA CalibratingIInv ==
  ASSUME IInv, NEW imu \in ImuSample, CalibrateUpdate(imu)
  PROVE  IInv'
<1>1. FusionInv'
  BY IInvParts DEF CalibrateUpdate, fusionvars, FusionInv
<1>2. ASSUME UNCHANGED calibvars PROVE CalibInv'
  BY <1>2, IInvParts DEF calibvars, CalibInv, RoomForMore, BiasIsOfStillSamples
<1>3. ASSUME state # "Done", state' = "Collect", UNCHANGED <<n, sum, bias>> PROVE CalibInv'
  BY <1>3, IInvParts DEF CalibInv, RoomForMore, BiasIsOfStillSamples
<1>4. ASSUME RestartCollection PROVE CalibInv'
  BY <1>4, IInvParts, RestartStep
<1>5. ASSUME state # "Done", Magnitude(imu.gyro) <= CalibMaxGyro, Collect(imu)
      PROVE  CalibInv'
  BY <1>5, IInvParts, CollectStep
<1>6. CalibInv'
  BY <1>2, <1>3, <1>4, <1>5, IInvParts DEF CalibrateUpdate
<1>7. CalibInv' /\ FusionInv' => IInv'
  BY DEF IInv, CalibInv, FusionInv, TypeOK
<1> QED
  BY <1>1, <1>6, <1>7

\* update never touches the collection, and its counters saturate.
LEMMA UpdatingIInv ==
  ASSUME IInv, NEW imu \in ImuSample, Update(imu)
  PROVE  IInv'
<1>1. CalibInv'
  BY IInvParts DEF Update, calibvars, CalibInv, RoomForMore, BiasIsOfStillSamples
<1>2. ASSUME UpdateBad PROVE FusionInv'
  BY <1>2, IInvParts, FusionAssumption DEF UpdateBad, FusionInv
<1>3. ASSUME UpdateGood PROVE FusionInv'
  BY <1>3, IInvParts, FusionAssumption DEF UpdateGood, FusionInv
<1>4. CalibInv' /\ FusionInv' => IInv'
  BY DEF IInv, CalibInv, FusionInv, TypeOK
<1> QED
  BY <1>1, <1>2, <1>3, <1>4 DEF Update

LEMMA ResetIInv ==
  ASSUME Reset
  PROVE  IInv'
<1>1. Magnitude(0) <= 0 * CalibMaxGyro /\ Magnitude(0) <= CalibSamples * CalibMaxGyro
  BY ZeroBound, CalibAssumption
<1> QED
  BY <1>1, CalibAssumption, FusionAssumption
     DEF Reset, IInv, TypeOK, RoomForMore, BiasIsOfStillSamples

LEMMA NextIInv == IInv /\ [Next]_vars => IInv'
<1> SUFFICES ASSUME IInv, [Next]_vars PROVE IInv'
  OBVIOUS
<1>1. CASE Reset
  BY <1>1, ResetIInv
<1>2. CASE Calibrating
  BY <1>2, CalibratingIInv DEF Calibrating
<1>3. CASE Updating
  BY <1>3, UpdatingIInv DEF Updating
<1>4. CASE UNCHANGED vars
  BY <1>4 DEF vars, calibvars, fusionvars, IInv, TypeOK, RoomForMore, BiasIsOfStillSamples
<1> QED
  BY <1>1, <1>2, <1>3, <1>4 DEF Next

\* The collection in bounds after any calls in any order (estimator.cpp).
THEOREM Invariance == Spec => []IInv
BY InitIInv, NextIInv, PTL DEF Spec

\* Every reachable state is well typed: the collection never outgrows its
\* size, the debounce and the decimation counter stay within theirs.
THEOREM TypeCorrect == Spec => []TypeOK
<1>1. IInv => TypeOK
  BY DEF IInv
<1> QED
  BY <1>1, Invariance, PTL

\* Whatever moving samples, gaps and resets come between, the bias that flight
\* control subtracts is one that still samples can add up to.
THEOREM StillBias == Spec => []BiasIsOfStillSamples
<1>1. IInv => BiasIsOfStillSamples
  BY DEF IInv
<1> QED
  BY <1>1, Invariance, PTL

=============================================================================
