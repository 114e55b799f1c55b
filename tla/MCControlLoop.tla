--------------------------- MODULE MCControlLoop ----------------------------
(***************************************************************************)
(* ControlLoop on small constants: two samples to calibrate, two frames to *)
(* arm, two bad samples to give up on the IMU, two silent ticks to time    *)
(* out; the clock leaves room to calibrate, arm, disarm, arm again, fail.  *)
(***************************************************************************)
EXTENDS ControlLoop

StillAndMoving == {1, 2}
=============================================================================
