------------------------------ MODULE MCCascade ------------------------------
(***************************************************************************)
(* Cascade with a full duty of four units and the largest output limit     *)
(* that leaves a single axis unclipped.  The sticks are centred, deflected *)
(* on one axis or on all, or not finite; the craft turns, or its gyro      *)
(* fails; the estimate is level, tilted either way, or not finite.         *)
(* Open-loop commands go one unit beyond each limit, so that no, one or    *)
(* both sides of the mix saturate, and may be NaN.                         *)
(***************************************************************************)
EXTENDS Cascade

CONSTANT nan

OpenLoopCommands == {-5, -4, -1, 0, 2, 4, 5, nan}

All(v)       == [a \in Axis |-> v]
Only(axis, v) == [a \in Axis |-> IF a = axis THEN v ELSE 0]

Sticks == {All(v) : v \in {0, 1, nan}}
            \cup {Only("roll", -1), Only("pitch", 1), Only("yaw", -1)}
Rates  == {All(0), All(nan), Only("roll", -1), Only("pitch", 1)}
Angles == {All(0), All(nan), Only("roll", 3), Only("pitch", -3)}
DTerms == {All(0), Only("yaw", 1)}
=============================================================================
