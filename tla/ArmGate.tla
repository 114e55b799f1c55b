------------------------------ MODULE ArmGate -------------------------------
(***************************************************************************)
(* What FailsafeFsm promises the output stage, with no clock and no        *)
(* reasons: the motors are locked out, safe, or armed.  Arming takes a     *)
(* streak of MinStreak fresh frames; a lockout is left by a restart only,  *)
(* or, where the caller may override, by an explicit arm request.          *)
(***************************************************************************)
EXTENDS Naturals

CONSTANT MinStreak    \* fresh frames in a row that arming takes

VARIABLES mode, streak,
          override    \* may the caller request arming (--arm-test)?
vars == <<mode, streak, override>>

Mode == {"Safe", "Armed", "Locked"}

TypeOK == mode \in Mode /\ streak \in 0..MinStreak /\ override \in BOOLEAN

Init == mode \in {"Safe", "Locked"} /\ streak = 0 /\ override \in BOOLEAN

\* Each update sees a fresh frame or misses one.
Observe == \/ streak' = 0
           \/ streak < MinStreak /\ streak' = streak + 1
           \/ streak = MinStreak /\ streak' = MinStreak

Arm     == mode = "Safe" /\ streak' = MinStreak /\ mode' = "Armed"
Disarm  == mode = "Armed" /\ mode' = "Safe"
LockOut == mode' = "Locked"
Stay    == mode' = mode
Request == override /\ mode' = "Armed"

Restart == mode' \in {"Safe", "Locked"} /\ streak' = 0

Next == /\ \/ Restart
           \/ Observe /\ (Arm \/ Disarm \/ LockOut \/ Stay \/ Request)
        /\ UNCHANGED override

Spec == Init /\ [][Next]_vars
=============================================================================
