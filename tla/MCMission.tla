----------------------------- MODULE MCMission ------------------------------
(***************************************************************************)
(* Mission with the firmware's own limits and 3.3 s of every scenario of   *)
(* rc.py, on a receiver that sends in every tick; and, on one scenario of  *)
(* each kind, a receiver of 14 ms and an IMU that fails before, at and     *)
(* after the end of the calibration.                                       *)
(***************************************************************************)
EXTENDS Mission

Readings == {0, 1, 2}

AllMissions ==
  [scenario : Scenarios, period : {1}, imu_after : {0}]
    \cup [scenario : {"att_hover", "rc_loss", "rx_failsafe"}, period : {14}, imu_after : {0}]
    \cup [scenario : {"att_hover", "cut"}, period : {1}, imu_after : {100, 200, 1500}]
=============================================================================
