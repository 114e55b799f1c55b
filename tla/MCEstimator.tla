---------------------------- MODULE MCEstimator -----------------------------
(***************************************************************************)
(* Estimator on three calibration samples and readings on both sides of    *)
(* the motion limit, in both directions.                                   *)
(***************************************************************************)
EXTENDS Estimator

Readings == {-2, -1, 0, 1, 2}
=============================================================================
