------------------------------- MODULE Mixer --------------------------------
(***************************************************************************)
(* QuadXMixer (firmware/main/flight/mixer.cpp) in fixed point: a duty of   *)
(* 1.0 is One units, and a command that is not a finite number is NaN.     *)
(* Every sum and shift of the code is exact here.                          *)
(***************************************************************************)
EXTENDS Integers

CONSTANTS One,       \* units of a full duty
          NaN        \* a command that is not a finite number

ASSUME UnitAssumption == One \in Nat \ {0}
ASSUME NaNAssumption == NaN \notin Int

VARIABLES mixed,     \* m[4]: the sums, before desaturation
          shift,     \* what write() returns
          mot        \* what write() leaves in PwmCmd::mot

mixvars == <<mixed, shift, mot>>

Motor == 1..4

MixTypeOK == /\ mixed \in [Motor -> Int]
             /\ shift \in Int
             /\ mot \in [Motor -> 0..One]

-----------------------------------------------------------------------------
\* clampf
Clamp(v, lo, hi) ==
  IF v = NaN THEN 0 ELSE IF v < lo THEN lo ELSE IF v > hi THEN hi ELSE v

Mix(thr, roll, pitch, yaw) ==
  LET t == Clamp(thr, 0, One)
      r == Clamp(roll, -One, One)
      p == Clamp(pitch, -One, One)
      y == Clamp(yaw, -One, One)
  IN  <<t - r + p - y, t - r - p + y, t + r + p + y, t + r - p - y>>

Hi(m) == CHOOSE h \in {m[k] : k \in Motor} : \A k \in Motor : m[k] <= h
Lo(m) == CHOOSE l \in {m[k] : k \in Motor} : \A k \in Motor : l <= m[k]

\* Mutant: only the high side is desaturated.
DesaturateHighOnly(m) == IF Hi(m) > One THEN One - Hi(m) ELSE 0

\* desaturate: pull the high side down to One, then lift the low side to 0.
Desaturate(m) ==
  LET down == IF Hi(m) > One THEN One - Hi(m) ELSE 0
  IN  IF Lo(m) + down < 0 THEN down - (Lo(m) + down) ELSE down

\* Mutant: the channels are written without their final clamp.
WriteUnclamped(thr, roll, pitch, yaw) ==
  /\ mixed' = Mix(thr, roll, pitch, yaw)
  /\ shift' = Desaturate(mixed')
  /\ mot' = [k \in Motor |-> mixed'[k] + shift']

Write(thr, roll, pitch, yaw) ==
  /\ mixed' = Mix(thr, roll, pitch, yaw)
  /\ shift' = Desaturate(mixed')
  /\ mot' = [k \in Motor |-> Clamp(mixed'[k] + shift', 0, One)]

-----------------------------------------------------------------------------
\* Before the first write(): a zeroed PwmCmd.
MixInit == /\ mixed = [k \in Motor |-> 0]
           /\ shift = 0
           /\ mot = [k \in Motor |-> 0]

-----------------------------------------------------------------------------
\* The desaturation contract, wherever it can be kept: if the sums span no
\* more than a full duty, no channel is clipped, so the differences between
\* motors, which are the torques asked for, come out unchanged.
TorqueIsKept ==
  Hi(mixed) - Lo(mixed) <= One => \A k \in Motor : mot[k] = mixed[k] + shift

\* The sign that anti-windup reads is the side that saturated.
ShiftSignTellsSide ==
  Hi(mixed) - Lo(mixed) <= One => /\ shift < 0 <=> Hi(mixed) > One
                                  /\ shift > 0 <=> Lo(mixed) < 0

\* When the sums span more than a full duty, all of it is used: the weakest
\* motor stands still and the strongest runs at full duty.
FullAuthority ==
  Hi(mixed) - Lo(mixed) > One => Hi(mot) = One /\ Lo(mot) = 0

=============================================================================
