----------------------------- MODULE Estimator ------------------------------
(***************************************************************************)
(* ComplementaryEstimator (firmware/main/flight/estimator.cpp): the boot   *)
(* calibration of the gyro, the debounced validity of the IMU and the      *)
(* decimation of the fusion.                                               *)
(*                                                                         *)
(* One gyro axis stands for three: a reading is an integer, and a reading  *)
(* beyond CalibMaxGyro is motion.  The fused attitude itself is left out:  *)
(* nothing below depends on it.                                            *)
(***************************************************************************)
EXTENDS Integers

CONSTANTS
  CalibSamples,        \* kCalibSamples
  CalibMaxGyro,        \* kCalibMaxGyroRps, in units of the readings
  EstDecim,            \* kEstDecim
  ImuInvalidDebounce,  \* kImuInvalidDebounce
  Gyro                 \* the readings a gyro may return

ASSUME CalibAssumption == /\ CalibSamples \in Nat \ {0}
                          /\ CalibMaxGyro \in Nat
                          /\ Gyro \subseteq Int
ASSUME FusionAssumption == /\ EstDecim \in Nat \ {0}
                           /\ ImuInvalidDebounce \in Nat \ {0}

VARIABLES
  state,          \* state_
  n, sum,         \* n_ and sum_: the samples collected since the last motion
  bias,           \* bias_, in units of 1/CalibSamples of a reading
  invalid_count, imu_valid, decim

calibvars == <<state, n, sum, bias>>
fusionvars == <<invalid_count, imu_valid, decim>>
vars == <<calibvars, fusionvars>>

\* valid: the read succeeded; gyro_ok, accel_ok: the axes are finite numbers.
ImuSample == [valid : BOOLEAN, gyro_ok : BOOLEAN, accel_ok : BOOLEAN, gyro : Gyro]

Magnitude(x) == IF x < 0 THEN -x ELSE x

TypeOK ==
  /\ state \in {"Idle", "Collect", "Done"}
  /\ n \in 0..CalibSamples
  /\ sum \in Int /\ bias \in Int
  /\ invalid_count \in 0..ImuInvalidDebounce
  /\ imu_valid \in BOOLEAN
  /\ decim \in 0..(EstDecim - 1)

-----------------------------------------------------------------------------
\* reset(), which is also how the object is constructed.
Init ==
  /\ state = "Idle" /\ n = 0 /\ sum = 0 /\ bias = 0
  /\ invalid_count = 0 /\ imu_valid = TRUE /\ decim = 0

Reset ==
  /\ state' = "Idle" /\ n' = 0 /\ sum' = 0 /\ bias' = 0
  /\ invalid_count' = 0 /\ imu_valid' = TRUE /\ decim' = 0

-----------------------------------------------------------------------------
(* calibrateUpdate(imu)                                                    *)

GyroUsable(imu) == imu.valid /\ imu.gyro_ok

\* Mutant: motion restarts the count but not the sum.
RestartCollectionKeepsSum ==
  /\ state' = "Collect"
  /\ n' = 0
  /\ UNCHANGED <<sum, bias>>

RestartCollection ==
  /\ state' = "Collect"
  /\ n' = 0 /\ sum' = 0
  /\ UNCHANGED bias

Collect(imu) ==
  /\ sum' = sum + imu.gyro
  /\ n' = n + 1
  /\ state' = IF n + 1 >= CalibSamples THEN "Done" ELSE "Collect"
  /\ bias' = IF n + 1 >= CalibSamples THEN sum + imu.gyro ELSE bias

\* Mutant: a finished calibration starts over on the next call.
CalibrateUpdateAgain(imu) ==
  /\ UNCHANGED fusionvars
  /\ IF state = "Done" THEN RestartCollection
     ELSE IF GyroUsable(imu) THEN Collect(imu) ELSE UNCHANGED calibvars

\* A sample without a gyro reading neither counts nor restarts anything.
CalibrateUpdate(imu) ==
  /\ UNCHANGED fusionvars
  /\ \/ state = "Done" /\ UNCHANGED calibvars
     \/ /\ state # "Done" /\ ~GyroUsable(imu)
        /\ state' = "Collect"
        /\ UNCHANGED <<n, sum, bias>>
     \/ /\ state # "Done" /\ GyroUsable(imu)
        /\ Magnitude(imu.gyro) > CalibMaxGyro
        /\ RestartCollection
     \/ /\ state # "Done" /\ GyroUsable(imu)
        /\ Magnitude(imu.gyro) <= CalibMaxGyro
        /\ Collect(imu)

-----------------------------------------------------------------------------
(* update(imu, dt), with dt the control period                             *)

ImuBad(imu) == ~imu.valid \/ ~imu.gyro_ok \/ ~imu.accel_ok

UpdateBad ==
  /\ invalid_count' = IF invalid_count < ImuInvalidDebounce
                      THEN invalid_count + 1 ELSE invalid_count
  /\ imu_valid' = (invalid_count' < ImuInvalidDebounce)
  /\ UNCHANGED decim

\* Mutant: the decimation counter is not cleared by the fusion it triggers.
UpdateGoodKeepsDecim ==
  /\ invalid_count' = 0 /\ imu_valid' = TRUE
  /\ decim' = decim + 1

\* Mutant: a good sample restarts the count but not the verdict.
UpdateGoodKeepsVerdict ==
  /\ invalid_count' = 0
  /\ decim' = IF decim + 1 < EstDecim THEN decim + 1 ELSE 0
  /\ UNCHANGED imu_valid

UpdateGood ==
  /\ invalid_count' = 0 /\ imu_valid' = TRUE
  /\ decim' = IF decim + 1 < EstDecim THEN decim + 1 ELSE 0

Update(imu) ==
  /\ UNCHANGED calibvars
  /\ \/ ImuBad(imu) /\ UpdateBad
     \/ ~ImuBad(imu) /\ UpdateGood

-----------------------------------------------------------------------------
\* The interface lets its callers interleave the operations at will.
Calibrating == \E imu \in ImuSample : CalibrateUpdate(imu)
Updating == \E imu \in ImuSample : Update(imu)

Next == Reset \/ Calibrating \/ Updating

Spec == Init /\ [][Next]_vars

-----------------------------------------------------------------------------
\* No moving sample ever weighs on the bias: what was collected, and the bias
\* made of it, stay within what that many still samples can add up to.
BiasIsOfStillSamples ==
  /\ Magnitude(sum) <= n * CalibMaxGyro
  /\ Magnitude(bias) <= CalibSamples * CalibMaxGyro
  /\ state = "Done" => n = CalibSamples /\ bias = sum

=============================================================================
