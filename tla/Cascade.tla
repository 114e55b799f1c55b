------------------------------- MODULE Cascade -------------------------------
(***************************************************************************)
(* The control section of ControlLoop::tick.  In its open-loop mode the    *)
(* mixer gets the program's arguments, or the sticks.  In its two closed-  *)
(* loop modes sticks become rate set points, directly or through the       *)
(* attitude controller, and RateController (firmware/main/flight/pid.cpp)  *)
(* turns them into commands to the mixer with one Pid per axis.  Each Pid  *)
(* integrates its error unless the previous mix saturated on the side that *)
(* the sign of the error stands for.                                       *)
(*                                                                         *)
(* In fixed point, as in module Mixer; a value that is not finite is NaN.  *)
(* The D term, a filter of the measurements, may be anything in DTerm.     *)
(* Nothing tells the controllers whether the craft is armed.               *)
(***************************************************************************)
EXTENDS Mixer

CONSTANTS
  Command,                            \* --thr, --roll, --pitch and --yaw
  Kp, Ki, ILimit, OutLimit,           \* of each rate Pid; Ki is for one tick
  MaxRate, MaxAtt, AttKp, AttLimit,   \* stick scales; the attitude controller
  Throttle, Stick, Rate, Angle, DTerm \* inputs: throttles, and functions of the axis

Axis == {"roll", "pitch", "yaw"}

ASSUME GainAssumption ==
  {Kp, Ki, ILimit, OutLimit, MaxRate, MaxAtt, AttKp, AttLimit} \subseteq Nat
ASSUME InputAssumption ==
  /\ Command \subseteq Int \cup {NaN}
  /\ Throttle \subseteq 0..One /\ DTerm \subseteq [Axis -> Int]
  /\ Stick \subseteq [Axis -> (-1)..1 \cup {NaN}]
  /\ Rate \cup Angle \subseteq [Axis -> Int \cup {NaN}]

VARIABLES
  mode,                \* --mode: "open-loop", "rate" or "attitude"
  ol_from_rc, ol,      \* --ol-from-rc, and the open-loop command of the arguments
  i,                   \* i_ of each axis
  last_shift,          \* last_shift_
  stick, sp, cmd       \* of the last tick: sticks, rate set points, what the Pids returned

args == <<mode, ol_from_rc, ol>>
ctlvars == <<i, last_shift>>
vars == <<args, ctlvars, stick, sp, cmd, mixvars>>

Commands == [thr : Command, roll : Command, pitch : Command, yaw : Command]
Idle == [thr |-> 0, roll |-> 0, pitch |-> 0, yaw |-> 0]

TypeOK ==
  /\ MixTypeOK
  /\ mode \in {"open-loop", "rate", "attitude"}
  /\ ol_from_rc \in BOOLEAN /\ ol \in Commands \cup {Idle}
  /\ i \in [Axis -> (-ILimit)..ILimit]
  /\ last_shift \in Int
  /\ stick \in [Axis -> (-1)..1 \cup {NaN}]
  /\ sp \in [Axis -> IF mode = "attitude" THEN (-AttLimit)..AttLimit ELSE (-MaxRate)..MaxRate]
  /\ cmd \in [Axis -> (-OutLimit)..OutLimit]

-----------------------------------------------------------------------------
Limit(v, bound) == IF v > bound THEN bound ELSE IF v < -bound THEN -bound ELSE v

Finite(v) == IF v = NaN THEN 0 ELSE v

\* rc_stick_to_rate_sp
StickToRate(s) == [a \in Axis |-> MaxRate * Finite(s[a])]

\* rc_stick_to_att_sp
StickToAtt(s) == [a \in Axis |-> IF a = "yaw" THEN 0 ELSE MaxAtt * Finite(s[a])]

\* AttitudeController::update.  The gain of yaw is 0, whatever its error.
Attitude(att_sp, est) ==
  [a \in Axis |-> IF a = "yaw" \/ est[a] = NaN THEN 0
                  ELSE Limit(AttKp * (att_sp[a] - est[a]), AttLimit)]

-----------------------------------------------------------------------------
\* Mutant: each flag blocks the errors of the other sign.
BlockSwapped(e, sat_pos, sat_neg) == (sat_pos /\ e < 0) \/ (sat_neg /\ e > 0)

Block(e, sat_pos, sat_neg) == (sat_pos /\ e > 0) \/ (sat_neg /\ e < 0)

Integrate(acc, e, sat_pos, sat_neg) ==
  IF Block(e, sat_pos, sat_neg) THEN acc ELSE Limit(acc + Ki * e, ILimit)

\* Mutant: the output has no clamp.
OutputUnlimited(acc, e, dterm) == Kp * e + acc + dterm

Output(acc, e, dterm) == Limit(Kp * e + acc + dterm, OutLimit)

\* RateController::update.  An axis whose rate is not finite is left alone, and
\* commands nothing.
RateUpdate(thr, meas, dterm) ==
  /\ i' = [a \in Axis |->
             IF meas[a] = NaN THEN i[a]
             ELSE Integrate(i[a], sp'[a] - meas[a], last_shift < 0, last_shift > 0)]
  /\ cmd' = [a \in Axis |->
               IF meas[a] = NaN THEN 0 ELSE Output(i'[a], sp'[a] - meas[a], dterm[a])]
  /\ Write(thr, cmd'["roll"], cmd'["pitch"], cmd'["yaw"])
  /\ last_shift' = shift'

-----------------------------------------------------------------------------
\* The arguments of the open loop have their defaults in the other modes.
Init ==
  /\ mode \in {"open-loop", "rate", "attitude"}
  /\ ol_from_rc \in (IF mode = "open-loop" THEN BOOLEAN ELSE {FALSE})
  /\ ol \in IF mode = "open-loop" /\ ~ol_from_rc THEN Commands ELSE {Idle}
  /\ i = [a \in Axis |-> 0] /\ last_shift = 0
  /\ stick = [a \in Axis |-> 0] /\ sp = [a \in Axis |-> 0] /\ cmd = [a \in Axis |-> 0]
  /\ MixInit

\* A stick at full deflection is a full duty.
Duty(s) == IF s = NaN THEN NaN ELSE One * s

\* No controller runs, so none keeps state.
OpenLoop ==
  /\ mode = "open-loop"
  /\ stick' \in Stick
  /\ \E thr \in Throttle :
       IF ol_from_rc
       THEN Write(thr, Duty(stick'["roll"]), Duty(stick'["pitch"]), Duty(stick'["yaw"]))
       ELSE Write(ol.thr, ol.roll, ol.pitch, ol.yaw)
  /\ UNCHANGED <<args, ctlvars, sp, cmd>>

RateOnly ==
  /\ mode = "rate"
  /\ stick' \in Stick
  /\ sp' = StickToRate(stick')
  /\ \E thr \in Throttle, meas \in Rate, dterm \in DTerm : RateUpdate(thr, meas, dterm)
  /\ UNCHANGED args

AttitudeMode ==
  /\ mode = "attitude"
  /\ stick' \in Stick
  /\ \E est \in Angle : sp' = Attitude(StickToAtt(stick'), est)
  /\ \E thr \in Throttle, meas \in Rate, dterm \in DTerm : RateUpdate(thr, meas, dterm)
  /\ UNCHANGED args

\* RateController::reset, which callers of the host bindings use.
Reset ==
  /\ i' = [a \in Axis |-> 0] /\ last_shift' = 0
  /\ UNCHANGED <<args, stick, sp, cmd, mixvars>>

Next == OpenLoop \/ RateOnly \/ AttitudeMode \/ Reset

Spec == Init /\ [][Next]_vars

-----------------------------------------------------------------------------
\* Where one side of the last mix saturated and the other had room, the next
\* tick integrates nothing in the direction that stands for that side: no
\* integrator grows after the high side, and none shrinks after the low one.
HeldOnTheSaturatedSide ==
  [][last_shift # 0 /\ Hi(mixed) - Lo(mixed) <= One =>
       \/ /\ Hi(mixed) > One => \A a \in Axis : i'[a] <= i[a]
          /\ Lo(mixed) < 0 => \A a \in Axis : i'[a] >= i[a]
       \/ Reset]_vars

\* A rate_out_limit of at most half a full duty leaves every command that uses
\* a single axis unclipped: its torque is what the controller asked for.
SingleAxisIsKept ==
  (/\ mode # "open-loop" /\ 2 * OutLimit <= One
   /\ \E a \in Axis : \A b \in Axis \ {a} : cmd[b] = 0)
  => \A m \in Motor : mot[m] = mixed[m] + shift

\* The sign with which each axis drives each motor (mixer.hpp:5-10).
Sign == [roll |-> <<-1, -1, 1, 1>>, pitch |-> <<1, -1, 1, -1>>, yaw |-> <<-1, 1, 1, -1>>]

\* "Hold I while saturated in the error's direction" (pid.cpp:44): no Pid
\* integrates on in the direction in which its command is already driving a
\* saturated motor further past its limit.
NoWindup ==
  [][last_shift # 0 =>
       \/ \A a \in Axis, m \in Motor :
            LET drive == Sign[a][m] * cmd[a]
                step  == Sign[a][m] * (i'[a] - i[a])
            IN  /\ mixed[m] > One /\ drive > 0 => step <= 0
                /\ mixed[m] < 0 /\ drive < 0 => step >= 0
       \/ Reset]_vars

\* "Yaw is always a rate command" (pid.hpp:50-51), in attitude mode too.
YawStickIsRate == mode # "open-loop" => sp["yaw"] = MaxRate * Finite(stick["yaw"])

=============================================================================
