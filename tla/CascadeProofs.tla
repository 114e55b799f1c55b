--------------------------- MODULE CascadeProofs ----------------------------
(***************************************************************************)
(* Theorems about Cascade, for all gains, limits and scales, every set of  *)
(* sticks, rates and commands, and all three modes: every value is within  *)
(* its limit, and what the mixer's desaturation keeps and reports.         *)
(***************************************************************************)
EXTENDS Cascade, TLAPS

-----------------------------------------------------------------------------
(* The mixer: what one write() leaves behind is in range, and keeps the    *)
(* contract of the desaturation.                                           *)

LEMMA ClampType ==
  ASSUME NEW v \in Int \cup {NaN}, NEW lo \in Int, NEW hi \in Int, lo <= 0, 0 <= hi
  PROVE  Clamp(v, lo, hi) \in lo..hi
BY NaNAssumption DEF Clamp

\* clampf leaves alone what is within its limits.
LEMMA ClampKeeps ==
  ASSUME NEW lo \in Int, NEW hi \in Int, NEW v \in lo..hi
  PROVE  Clamp(v, lo, hi) = v
BY NaNAssumption DEF Clamp

LEMMA HiOfFour ==
  ASSUME NEW m \in [Motor -> Int]
  PROVE  /\ Hi(m) \in {m[k] : k \in Motor}
         /\ Hi(m) \in Int
         /\ \A k \in Motor : m[k] <= Hi(m)
<1> DEFINE P(h) == \A k \in Motor : m[k] <= h
           S == {m[k] : k \in Motor}
<1>1. \E h \in S : P(h)
  <2>1. m[1] \in Int /\ m[2] \in Int /\ m[3] \in Int /\ m[4] \in Int
    BY DEF Motor
  <2>2. m[1] \in S /\ m[2] \in S /\ m[3] \in S /\ m[4] \in S
    BY DEF Motor
  <2>3. ASSUME NEW h \in Int, m[1] <= h, m[2] <= h, m[3] <= h, m[4] <= h PROVE P(h)
    BY <2>3 DEF Motor
  <2>4. \/ m[2] <= m[1] /\ m[3] <= m[1] /\ m[4] <= m[1]
        \/ m[1] <= m[2] /\ m[3] <= m[2] /\ m[4] <= m[2]
        \/ m[1] <= m[3] /\ m[2] <= m[3] /\ m[4] <= m[3]
        \/ m[1] <= m[4] /\ m[2] <= m[4] /\ m[3] <= m[4]
    BY <2>1
  <2>5. \A k \in Motor : m[k] <= m[k]
    OBVIOUS
  <2> HIDE DEF P, S
  <2> QED
    BY <2>1, <2>2, <2>3, <2>4, <2>5 DEF Motor
<1>2. Hi(m) \in S /\ P(Hi(m))
  <2> HIDE DEF P, S
  <2>1. Hi(m) = CHOOSE h \in S : P(h)
    BY DEF Hi, P, S
  <2> QED
    BY <1>1, <2>1
<1> QED
  BY <1>2

LEMMA LoOfFour ==
  ASSUME NEW m \in [Motor -> Int]
  PROVE  /\ Lo(m) \in {m[k] : k \in Motor}
         /\ Lo(m) \in Int
         /\ \A k \in Motor : Lo(m) <= m[k]
<1> DEFINE P(l) == \A k \in Motor : l <= m[k]
           S == {m[k] : k \in Motor}
<1>1. \E l \in S : P(l)
  <2>1. m[1] \in Int /\ m[2] \in Int /\ m[3] \in Int /\ m[4] \in Int
    BY DEF Motor
  <2>2. m[1] \in S /\ m[2] \in S /\ m[3] \in S /\ m[4] \in S
    BY DEF Motor
  <2>3. ASSUME NEW l \in Int, l <= m[1], l <= m[2], l <= m[3], l <= m[4] PROVE P(l)
    BY <2>3 DEF Motor
  <2>4. \/ m[1] <= m[2] /\ m[1] <= m[3] /\ m[1] <= m[4]
        \/ m[2] <= m[1] /\ m[2] <= m[3] /\ m[2] <= m[4]
        \/ m[3] <= m[1] /\ m[3] <= m[2] /\ m[3] <= m[4]
        \/ m[4] <= m[1] /\ m[4] <= m[2] /\ m[4] <= m[3]
    BY <2>1
  <2>5. \A k \in Motor : m[k] <= m[k]
    OBVIOUS
  <2> HIDE DEF P, S
  <2> QED
    BY <2>1, <2>2, <2>3, <2>4, <2>5 DEF Motor
<1>2. Lo(m) \in S /\ P(Lo(m))
  <2> HIDE DEF P, S
  <2>1. Lo(m) = CHOOSE l \in S : P(l)
    BY DEF Lo, P, S
  <2> QED
    BY <1>1, <2>1
<1> QED
  BY <1>2

LEMMA MixType ==
  ASSUME NEW thr \in Int \cup {NaN}, NEW roll \in Int \cup {NaN},
         NEW pitch \in Int \cup {NaN}, NEW yaw \in Int \cup {NaN}
  PROVE  Mix(thr, roll, pitch, yaw) \in [Motor -> Int]
<1> DEFINE t == Clamp(thr, 0, One)
           r == Clamp(roll, -One, One)
           p == Clamp(pitch, -One, One)
           y == Clamp(yaw, -One, One)
<1>1. t \in Int
  <2>1. t \in 0..One
    BY ClampType, UnitAssumption, NaNAssumption
  <2> QED
    BY <2>1, UnitAssumption
<1>2. r \in Int /\ p \in Int /\ y \in Int
  <2>1. -One \in Int /\ One \in Int /\ -One <= 0 /\ 0 <= One
    BY UnitAssumption
  <2>2. r \in (-One)..One /\ p \in (-One)..One /\ y \in (-One)..One
    BY <2>1, ClampType, NaNAssumption
  <2> QED
    BY <2>2
<1>3. Mix(thr, roll, pitch, yaw) =
        <<t - r + p - y, t - r - p + y, t + r + p + y, t + r - p - y>>
  BY DEF Mix
<1> HIDE DEF t, r, p, y
<1> QED
  BY <1>1, <1>2, <1>3 DEF Motor

\* What desaturation comes to, by which side of the duty range is exceeded.
LEMMA DesaturateCases ==
  ASSUME NEW m \in [Motor -> Int]
  PROVE  /\ Desaturate(m) \in Int
         /\ Hi(m) <= One /\ Lo(m) >= 0 => Desaturate(m) = 0
         /\ Hi(m) > One /\ Lo(m) + One >= Hi(m) => Desaturate(m) = One - Hi(m)
         /\ Lo(m) < 0 => Desaturate(m) = -Lo(m)
         /\ Lo(m) + One < Hi(m) => Desaturate(m) = -Lo(m)
<1>1. Hi(m) \in Int /\ Lo(m) \in Int
  BY HiOfFour, LoOfFour
<1>2. Lo(m) <= Hi(m)
  BY HiOfFour, LoOfFour DEF Motor
<1>3. CASE Hi(m) > One
  <2>1. Desaturate(m) = IF Lo(m) + (One - Hi(m)) < 0
                        THEN (One - Hi(m)) - (Lo(m) + (One - Hi(m)))
                        ELSE One - Hi(m)
    BY <1>3 DEF Desaturate
  <2> QED
    BY <1>1, <1>2, <1>3, <2>1, UnitAssumption
<1>4. CASE ~(Hi(m) > One)
  <2>1. Desaturate(m) = IF Lo(m) + 0 < 0 THEN 0 - (Lo(m) + 0) ELSE 0
    BY <1>4 DEF Desaturate
  <2> QED
    BY <1>1, <1>2, <1>4, <2>1, UnitAssumption
<1> QED
  BY <1>3, <1>4

\* Sums that span no more than a full duty all fit once they are shifted.
LEMMA ShiftedSumsFit ==
  ASSUME NEW m \in [Motor -> Int], Hi(m) - Lo(m) <= One, NEW k \in Motor
  PROVE  m[k] + Desaturate(m) \in 0..One
<1>1. Hi(m) \in Int /\ Lo(m) \in Int /\ m[k] \in Int
  BY HiOfFour, LoOfFour
<1>2. Lo(m) <= m[k] /\ m[k] <= Hi(m)
  BY HiOfFour, LoOfFour
<1>3. \/ Desaturate(m) = 0 /\ Hi(m) <= One /\ Lo(m) >= 0
      \/ Desaturate(m) = One - Hi(m)
      \/ Desaturate(m) = -Lo(m)
  BY <1>1, DesaturateCases, UnitAssumption
<1> QED
  BY <1>1, <1>2, <1>3, UnitAssumption

-----------------------------------------------------------------------------
\* What every write() leaves behind.
Written == /\ mixed \in [Motor -> Int]
           /\ shift = Desaturate(mixed)
           /\ mot = [k \in Motor |-> Clamp(mixed[k] + shift, 0, One)]

LEMMA InitWritten ==
  ASSUME MixInit
  PROVE  Written
<1>1. mixed \in [Motor -> Int] /\ \A k \in Motor : mixed[k] = 0
  BY DEF MixInit
<1>2. Hi(mixed) = 0 /\ Lo(mixed) = 0
  BY <1>1, HiOfFour, LoOfFour
<1>3. Desaturate(mixed) = 0
  BY <1>1, <1>2, DesaturateCases, UnitAssumption
<1>4. shift = 0 /\ mot = [k \in Motor |-> 0]
  BY DEF MixInit
<1>5. \A k \in Motor : Clamp(mixed[k] + shift, 0, One) = 0
  BY <1>1, <1>4, UnitAssumption, NaNAssumption DEF Clamp
<1> QED
  BY <1>1, <1>3, <1>4, <1>5 DEF Written

LEMMA WriteWritten ==
  ASSUME NEW thr \in Int \cup {NaN}, NEW roll \in Int \cup {NaN},
         NEW pitch \in Int \cup {NaN}, NEW yaw \in Int \cup {NaN},
         Write(thr, roll, pitch, yaw)
  PROVE  Written'
BY MixType DEF Write, Written

LEMMA WrittenType == Written => MixTypeOK
<1> SUFFICES ASSUME Written PROVE MixTypeOK
  OBVIOUS
<1>1. mixed \in [Motor -> Int] /\ shift \in Int
  BY DesaturateCases DEF Written
<1>2. \A k \in Motor : Clamp(mixed[k] + shift, 0, One) \in 0..One
  <2> TAKE k \in Motor
  <2>1. mixed[k] + shift \in Int \cup {NaN}
    BY <1>1
  <2>2. 0 \in Int /\ One \in Int /\ 0 <= 0 /\ 0 <= One
    BY UnitAssumption
  <2> QED
    BY <2>1, <2>2, ClampType
<1> QED
  BY <1>1, <1>2 DEF Written, MixTypeOK

LEMMA WrittenTorque == Written => TorqueIsKept
<1> SUFFICES ASSUME Written, Hi(mixed) - Lo(mixed) <= One, NEW k \in Motor
             PROVE  mot[k] = mixed[k] + shift
  BY DEF TorqueIsKept
<1>1. mixed[k] + shift \in 0..One
  BY ShiftedSumsFit DEF Written
<1>2. Clamp(mixed[k] + shift, 0, One) = mixed[k] + shift
  BY <1>1, ClampKeeps, UnitAssumption
<1> QED
  BY <1>2 DEF Written

LEMMA WrittenSign == Written => ShiftSignTellsSide
<1> SUFFICES ASSUME Written, Hi(mixed) - Lo(mixed) <= One
             PROVE  /\ shift < 0 <=> Hi(mixed) > One
                    /\ shift > 0 <=> Lo(mixed) < 0
  BY DEF ShiftSignTellsSide
<1>1. Hi(mixed) \in Int /\ Lo(mixed) \in Int
  BY HiOfFour, LoOfFour DEF Written
<1>2. /\ shift \in Int
      /\ Hi(mixed) <= One /\ Lo(mixed) >= 0 => shift = 0
      /\ Hi(mixed) > One => shift = One - Hi(mixed)
      /\ Lo(mixed) < 0 => shift = -Lo(mixed)
  BY <1>1, DesaturateCases, UnitAssumption DEF Written
<1> QED
  BY <1>1, <1>2, UnitAssumption

\* Sums that do not fit end at both limits.
LEMMA WrittenAuthority == Written => FullAuthority
<1> SUFFICES ASSUME Written, Hi(mixed) - Lo(mixed) > One
             PROVE  Hi(mot) = One /\ Lo(mot) = 0
  BY DEF FullAuthority
<1>1. Hi(mixed) \in Int /\ Lo(mixed) \in Int
  BY HiOfFour, LoOfFour DEF Written
<1>2. shift = -Lo(mixed)
  <2>1. Lo(mixed) + One < Hi(mixed)
    BY <1>1, UnitAssumption
  <2> QED
    BY <2>1, DesaturateCases DEF Written
<1>3. PICK h \in Motor : mixed[h] = Hi(mixed)
  BY HiOfFour DEF Written
<1>4. PICK l \in Motor : mixed[l] = Lo(mixed)
  BY LoOfFour DEF Written
<1>5. mot[h] = One
  <2>1. mixed[h] + shift \in Int /\ mixed[h] + shift > One
    BY <1>1, <1>2, <1>3, UnitAssumption
  <2> QED
    BY <2>1, UnitAssumption, NaNAssumption DEF Written, Clamp
<1>6. mot[l] = 0
  <2>1. mixed[l] + shift = 0
    BY <1>1, <1>2, <1>4
  <2> QED
    BY <2>1, UnitAssumption, NaNAssumption DEF Written, Clamp
<1>7. mot \in [Motor -> 0..One] /\ mot \in [Motor -> Int]
  BY WrittenType, UnitAssumption DEF MixTypeOK
<1>8. Hi(mot) \in 0..One /\ Lo(mot) \in 0..One /\ One <= Hi(mot) /\ Lo(mot) <= 0
  BY <1>5, <1>6, <1>7, HiOfFour, LoOfFour
<1> QED
  BY <1>8, UnitAssumption

-----------------------------------------------------------------------------
(* The controllers' helpers.                                               *)

LEMMA GainTypes ==
  /\ Kp \in Nat /\ Ki \in Nat /\ ILimit \in Nat /\ OutLimit \in Nat
  /\ MaxRate \in Nat /\ MaxAtt \in Nat /\ AttKp \in Nat /\ AttLimit \in Nat
BY GainAssumption

LEMMA LimitType ==
  ASSUME NEW v \in Int, NEW bound \in Nat
  PROVE  Limit(v, bound) \in (-bound)..bound
BY DEF Limit

\* Scaling and adding stay within the integers.
LEMMA ProductType ==
  ASSUME NEW k \in Nat, NEW e \in Int
  PROVE  k * e \in Int /\ (e <= 0 => k * e <= 0) /\ (e >= 0 => k * e >= 0)
OBVIOUS

LEMMA IntegrateType ==
  ASSUME NEW acc \in (-ILimit)..ILimit, NEW e \in Int, NEW p, NEW n
  PROVE  Integrate(acc, e, p, n) \in (-ILimit)..ILimit
<1>1. acc + Ki * e \in Int
  BY GainTypes, ProductType
<1> QED
  BY <1>1, GainTypes, LimitType DEF Integrate

\* A step whose error is not positive does not raise the integrator, and one
\* whose error is not negative does not lower it.
LEMMA IntegrateFollows ==
  ASSUME NEW acc \in (-ILimit)..ILimit, NEW e \in Int, NEW p, NEW n
  PROVE  /\ e <= 0 => Integrate(acc, e, p, n) <= acc
         /\ e >= 0 => Integrate(acc, e, p, n) >= acc
<1>1. Ki * e \in Int /\ (e <= 0 => Ki * e <= 0) /\ (e >= 0 => Ki * e >= 0)
  BY GainTypes, ProductType
<1> DEFINE d == Ki * e
<1>2. d \in Int /\ (e <= 0 => d <= 0) /\ (e >= 0 => d >= 0)
  BY <1>1
<1>3. Integrate(acc, e, p, n) \in {acc, Limit(acc + d, ILimit)}
  BY DEF Integrate
<1> HIDE DEF d
<1> QED
  BY <1>2, <1>3, GainTypes DEF Limit

\* A blocked step leaves the integrator alone.
LEMMA IntegrateBlocked ==
  ASSUME NEW acc \in (-ILimit)..ILimit, NEW e \in Int, NEW p \in BOOLEAN, NEW n \in BOOLEAN
  PROVE  /\ p => Integrate(acc, e, p, n) <= acc
         /\ n => Integrate(acc, e, p, n) >= acc
<1>1. CASE Block(e, p, n)
  BY <1>1, GainTypes DEF Integrate
<1>2. CASE ~Block(e, p, n)
  BY <1>2, IntegrateFollows DEF Block
<1> QED
  BY <1>1, <1>2

LEMMA OutputType ==
  ASSUME NEW acc \in Int, NEW e \in Int, NEW d \in Int
  PROVE  Output(acc, e, d) \in (-OutLimit)..OutLimit
<1>1. Kp * e + acc + d \in Int
  BY GainTypes, ProductType
<1> QED
  BY <1>1, GainTypes, LimitType DEF Output

LEMMA FiniteType ==
  ASSUME NEW s \in (-1)..1 \cup {NaN}
  PROVE  Finite(s) \in (-1)..1
BY NaNAssumption DEF Finite

LEMMA RateSetPoints ==
  ASSUME NEW s \in [Axis -> (-1)..1 \cup {NaN}]
  PROVE  StickToRate(s) \in [Axis -> (-MaxRate)..MaxRate]
<1> SUFFICES ASSUME NEW a \in Axis PROVE MaxRate * Finite(s[a]) \in (-MaxRate)..MaxRate
  BY DEF StickToRate
<1>1. Finite(s[a]) \in {-1, 0, 1}
  BY FiniteType
<1> QED
  BY <1>1, GainTypes

LEMMA AttitudeSetPoints ==
  ASSUME NEW s \in [Axis -> (-1)..1 \cup {NaN}], NEW est \in [Axis -> Int \cup {NaN}]
  PROVE  Attitude(StickToAtt(s), est) \in [Axis -> (-AttLimit)..AttLimit]
<1>1. StickToAtt(s) \in [Axis -> Int]
  <2> SUFFICES ASSUME NEW a \in Axis PROVE MaxAtt * Finite(s[a]) \in Int
    BY DEF StickToAtt
  <2> QED
    BY FiniteType, GainTypes, ProductType
<1>2. ASSUME NEW a \in Axis, est[a] # NaN
      PROVE  Limit(AttKp * (StickToAtt(s)[a] - est[a]), AttLimit) \in (-AttLimit)..AttLimit
  <2>1. StickToAtt(s)[a] - est[a] \in Int
    BY <1>1, <1>2
  <2>2. AttKp * (StickToAtt(s)[a] - est[a]) \in Int
    BY <2>1, GainTypes, ProductType
  <2> QED
    BY <2>2, GainTypes, LimitType
<1>3. 0 \in (-AttLimit)..AttLimit
  BY GainTypes
<1> QED
  BY <1>2, <1>3 DEF Attitude

\* A command within the output limits reaches the mixer as it is, so that a
\* single axis spreads the four sums over at most twice the limit.
LEMMA SingleAxisSpan ==
  ASSUME NEW thr \in 0..One \cup {NaN}, NEW c \in [Axis -> (-OutLimit)..OutLimit],
         2 * OutLimit <= One, NEW a \in Axis, \A b \in Axis \ {a} : c[b] = 0
  PROVE  LET m == Mix(thr, c["roll"], c["pitch"], c["yaw"])  IN  Hi(m) - Lo(m) <= One
<1> DEFINE m == Mix(thr, c["roll"], c["pitch"], c["yaw"])
           t == Clamp(thr, 0, One)
<1>1. ASSUME NEW b \in Axis PROVE c[b] \in Int /\ Clamp(c[b], -One, One) = c[b]
  <2>1. c[b] \in (-One)..One
    BY GainTypes, UnitAssumption
  <2> QED
    BY <2>1, ClampKeeps, UnitAssumption
<1>2. t \in Int
  BY ClampType, UnitAssumption, NaNAssumption
<1>3. m = <<t - c["roll"] + c["pitch"] - c["yaw"], t - c["roll"] - c["pitch"] + c["yaw"],
            t + c["roll"] + c["pitch"] + c["yaw"], t + c["roll"] - c["pitch"] - c["yaw"]>>
  BY <1>1 DEF Mix, Axis
<1>4. /\ c["roll"] \in Int /\ c["pitch"] \in Int /\ c["yaw"] \in Int
      /\ \/ c["pitch"] = 0 /\ c["yaw"] = 0
         \/ c["roll"] = 0 /\ c["yaw"] = 0
         \/ c["roll"] = 0 /\ c["pitch"] = 0
  BY <1>1 DEF Axis
<1>5. \A b \in Axis : 2 * c[b] <= One /\ -One <= 2 * c[b]
  BY GainTypes, UnitAssumption
<1> HIDE DEF t
<1>6. m \in [Motor -> Int]
  BY <1>2, <1>3, <1>4 DEF Motor
<1>7. \A j, k \in Motor : m[j] - m[k] <= One
  <2>1. /\ 2 * c["roll"] <= One /\ -One <= 2 * c["roll"]
        /\ 2 * c["pitch"] <= One /\ -One <= 2 * c["pitch"]
        /\ 2 * c["yaw"] <= One /\ -One <= 2 * c["yaw"]
    BY <1>5 DEF Axis
  <2>2. /\ m[1] = t - c["roll"] + c["pitch"] - c["yaw"]
        /\ m[2] = t - c["roll"] - c["pitch"] + c["yaw"]
        /\ m[3] = t + c["roll"] + c["pitch"] + c["yaw"]
        /\ m[4] = t + c["roll"] - c["pitch"] - c["yaw"]
    BY <1>3
  <2> DEFINE Close(x, y) == x - y <= One /\ y - x <= One
  <2>3. /\ Close(m[1], m[2]) /\ Close(m[1], m[3]) /\ Close(m[1], m[4])
        /\ Close(m[2], m[3]) /\ Close(m[2], m[4]) /\ Close(m[3], m[4])
    <3> HIDE DEF m
    <3>1. CASE c["pitch"] = 0 /\ c["yaw"] = 0
      BY <1>2, <1>4, <2>1, <2>2, <3>1, UnitAssumption
    <3>2. CASE c["roll"] = 0 /\ c["yaw"] = 0
      BY <1>2, <1>4, <2>1, <2>2, <3>2, UnitAssumption
    <3>3. CASE c["roll"] = 0 /\ c["pitch"] = 0
      BY <1>2, <1>4, <2>1, <2>2, <3>3, UnitAssumption
    <3> QED
      BY <1>4, <3>1, <3>2, <3>3
  <2>4. \A k \in Motor : m[k] - m[k] <= One
    <3> HIDE DEF m
    <3> QED
      BY <1>6, UnitAssumption
  <2> HIDE DEF m
  <2>5. \A k \in Motor : k = 1 \/ k = 2 \/ k = 3 \/ k = 4
    BY DEF Motor
  <2> QED
    BY <2>3, <2>4, <2>5
<1> HIDE DEF m
<1>8. Hi(m) - Lo(m) <= One
  BY <1>6, <1>7, HiOfFour, LoOfFour
<1> QED
  BY <1>8 DEF m

-----------------------------------------------------------------------------
(* The inductive invariant: what the mixer wrote is what desaturation      *)
(* makes of its sums, the sums are those of the commands, and the shift    *)
(* anti-windup reads is the mixer's, or none.                              *)

Commanded == mode # "open-loop" =>
  \E thr \in 0..One \cup {NaN} : mixed = Mix(thr, cmd["roll"], cmd["pitch"], cmd["yaw"])

ModeShift == last_shift \in {0, shift} /\ (mode = "open-loop" => last_shift = 0)

IInv == /\ TypeOK
        /\ Written
        /\ Commanded
        /\ ModeShift

\* One RateController::update with set points within any limit.
LEMMA RateUpdateStep ==
  ASSUME TypeOK, sp' \in [Axis -> Int],
         NEW thr \in Throttle, NEW meas \in Rate, NEW dterm \in DTerm,
         RateUpdate(thr, meas, dterm)
  PROVE  /\ i' \in [Axis -> (-ILimit)..ILimit]
         /\ cmd' \in [Axis -> (-OutLimit)..OutLimit]
         /\ Written' /\ MixTypeOK'
         /\ \E t \in 0..One \cup {NaN} : mixed' = Mix(t, cmd'["roll"], cmd'["pitch"], cmd'["yaw"])
         /\ last_shift' = shift'
         /\ last_shift < 0 => \A a \in Axis : i'[a] <= i[a]
         /\ last_shift > 0 => \A a \in Axis : i'[a] >= i[a]
<1> DEFINE p == last_shift < 0
           n == last_shift > 0
           step(a) == IF meas[a] = NaN THEN i[a] ELSE Integrate(i[a], sp'[a] - meas[a], p, n)
<1>1. /\ meas \in [Axis -> Int \cup {NaN}] /\ dterm \in [Axis -> Int]
      /\ thr \in 0..One /\ i \in [Axis -> (-ILimit)..ILimit]
  BY InputAssumption DEF TypeOK
<1>2. ASSUME NEW a \in Axis
      PROVE  /\ step(a) \in (-ILimit)..ILimit
             /\ p => step(a) <= i[a]
             /\ n => step(a) >= i[a]
  <2>1. i[a] \in (-ILimit)..ILimit /\ p \in BOOLEAN /\ n \in BOOLEAN
    BY <1>1
  <2>2. CASE meas[a] = NaN
    BY <2>1, <2>2, GainTypes
  <2>3. CASE meas[a] # NaN
    <3>1. sp'[a] - meas[a] \in Int
      BY <1>1, <2>3
    <3> DEFINE e == sp'[a] - meas[a]
    <3> HIDE DEF e, p, n
    <3>2. /\ Integrate(i[a], e, p, n) \in (-ILimit)..ILimit
          /\ p => Integrate(i[a], e, p, n) <= i[a]
          /\ n => Integrate(i[a], e, p, n) >= i[a]
      BY <2>1, <3>1, IntegrateType, IntegrateBlocked DEF e
    <3> QED
      BY <2>3, <3>2 DEF e
  <2> QED
    BY <2>2, <2>3
<1>3. i' = [a \in Axis |-> step(a)]
  BY DEF RateUpdate
<1>4. \A a \in Axis : i'[a] = step(a)
  BY <1>3
<1> HIDE DEF step
<1>5. i' \in [Axis -> (-ILimit)..ILimit]
  BY <1>2, <1>3
<1>6. cmd' \in [Axis -> (-OutLimit)..OutLimit]
  <2>1. ASSUME NEW a \in Axis, meas[a] # NaN
        PROVE  Output(i'[a], sp'[a] - meas[a], dterm[a]) \in (-OutLimit)..OutLimit
    <3>1. i'[a] \in Int /\ sp'[a] - meas[a] \in Int /\ dterm[a] \in Int
      BY <1>1, <1>5, <2>1, GainTypes
    <3> QED
      BY <3>1, OutputType
  <2>2. 0 \in (-OutLimit)..OutLimit
    BY GainTypes
  <2>3. cmd' = [a \in Axis |->
               IF meas[a] = NaN THEN 0 ELSE Output(i'[a], sp'[a] - meas[a], dterm[a])]
    BY DEF RateUpdate
  <2> QED
    BY <2>1, <2>2, <2>3
<1>7. Write(thr, cmd'["roll"], cmd'["pitch"], cmd'["yaw"]) /\ last_shift' = shift'
  BY DEF RateUpdate
<1>8. Written'
  <2>1. cmd'["roll"] \in Int /\ cmd'["pitch"] \in Int /\ cmd'["yaw"] \in Int /\ thr \in Int
    BY <1>1, <1>6, GainTypes, UnitAssumption DEF Axis
  <2> QED
    BY <1>7, <2>1, WriteWritten
<1>9. MixTypeOK'
  BY <1>8, WrittenType, PTL
<1>10. mixed' = Mix(thr, cmd'["roll"], cmd'["pitch"], cmd'["yaw"])
  BY <1>7 DEF Write
<1> QED
  BY <1>1, <1>2, <1>4, <1>5, <1>6, <1>7, <1>8, <1>9, <1>10

LEMMA InitIInv == Init => IInv
<1> SUFFICES ASSUME Init PROVE IInv
  OBVIOUS
<1>1. Written
  BY InitWritten DEF Init
<1>2. MixTypeOK
  BY <1>1, WrittenType
<1>3. TypeOK
  <2>1. /\ 0 \in (-ILimit)..ILimit /\ 0 \in (-OutLimit)..OutLimit
        /\ 0 \in (-MaxRate)..MaxRate /\ 0 \in (-AttLimit)..AttLimit
    BY GainTypes
  <2>2. ol_from_rc \in BOOLEAN /\ ol \in Commands \cup {Idle}
    BY DEF Init
  <2> QED
    BY <1>2, <2>1, <2>2 DEF Init, TypeOK
<1>4. Commanded
  <2>1. Mix(0, 0, 0, 0) = <<0, 0, 0, 0>>
    BY UnitAssumption, NaNAssumption DEF Mix, Clamp
  <2>2. mixed = <<0, 0, 0, 0>>
    BY DEF Init, MixInit, Motor
  <2>3. cmd["roll"] = 0 /\ cmd["pitch"] = 0 /\ cmd["yaw"] = 0
    BY DEF Init, Axis
  <2> QED
    BY <2>1, <2>2, <2>3, UnitAssumption DEF Commanded
<1> QED
  BY <1>1, <1>3, <1>4 DEF IInv, Init, ModeShift

LEMMA NextIInv == IInv /\ [Next]_vars => IInv'
<1> SUFFICES ASSUME IInv, [Next]_vars PROVE IInv'
  OBVIOUS
<1>0. TypeOK
  BY DEF IInv
<1>1. CASE OpenLoop
  <2>1. PICK thr \in Int \cup {NaN}, roll \in Int \cup {NaN},
             pitch \in Int \cup {NaN}, yaw \in Int \cup {NaN} : Write(thr, roll, pitch, yaw)
    <3>1. CASE ol_from_rc
      <4>1. ASSUME NEW a \in Axis PROVE Duty(stick'[a]) \in Int \cup {NaN}
        BY <1>1, InputAssumption, UnitAssumption DEF OpenLoop, Duty
      <4>2. "roll" \in Axis /\ "pitch" \in Axis /\ "yaw" \in Axis
        BY DEF Axis
      <4>3. PICK thr \in Throttle :
              Write(thr, Duty(stick'["roll"]), Duty(stick'["pitch"]), Duty(stick'["yaw"]))
        BY <1>1, <3>1 DEF OpenLoop
      <4>4. thr \in Int
        BY InputAssumption, UnitAssumption
      <4> QED
        BY <4>1, <4>2, <4>3, <4>4
    <3>2. CASE ~ol_from_rc
      <4>1. /\ ol.thr \in Int \cup {NaN} /\ ol.roll \in Int \cup {NaN}
            /\ ol.pitch \in Int \cup {NaN} /\ ol.yaw \in Int \cup {NaN}
        <5>1. CASE ol \in Commands
          BY <5>1, InputAssumption DEF Commands
        <5>2. CASE ol = Idle
          BY <5>2 DEF Idle
        <5> QED
          BY <1>0, <5>1, <5>2 DEF TypeOK
      <4>2. Write(ol.thr, ol.roll, ol.pitch, ol.yaw)
        BY <1>1, <3>2 DEF OpenLoop
      <4> QED
        BY <4>1, <4>2
    <3> QED
      BY <3>1, <3>2
  <2>2. Written'
    BY <2>1, WriteWritten
  <2>3. MixTypeOK'
    BY <2>2, WrittenType, PTL
  <2>4. mode = "open-loop" /\ last_shift = 0
    BY <1>1 DEF OpenLoop, IInv, ModeShift
  <2>5. TypeOK'
    BY <1>0, <1>1, <2>3, InputAssumption DEF TypeOK, OpenLoop, args, ctlvars
  <2> QED
    BY <1>1, <2>2, <2>4, <2>5 DEF IInv, OpenLoop, Commanded, ModeShift, args, ctlvars
<1>2. CASE RateOnly
  <2>1. stick' \in [Axis -> (-1)..1 \cup {NaN}]
    BY <1>2, InputAssumption DEF RateOnly
  <2>2. sp' \in [Axis -> (-MaxRate)..MaxRate]
    BY <1>2, <2>1, RateSetPoints DEF RateOnly
  <2>3. sp' \in [Axis -> Int]
    BY <2>2, GainTypes
  <2>4. PICK thr \in Throttle, meas \in Rate, dterm \in DTerm : RateUpdate(thr, meas, dterm)
    BY <1>2 DEF RateOnly
  <2>5. /\ i' \in [Axis -> (-ILimit)..ILimit]
        /\ cmd' \in [Axis -> (-OutLimit)..OutLimit]
        /\ Written' /\ MixTypeOK'
        /\ \E t \in 0..One \cup {NaN} : mixed' = Mix(t, cmd'["roll"], cmd'["pitch"], cmd'["yaw"])
        /\ last_shift' = shift'
    BY <1>0, <2>3, <2>4, RateUpdateStep
  <2>6. mode = "rate" /\ UNCHANGED args
    BY <1>2 DEF RateOnly
  <2>7. TypeOK'
    BY <1>0, <2>1, <2>2, <2>5, <2>6 DEF TypeOK, args, MixTypeOK
  <2> QED
    BY <2>5, <2>6, <2>7 DEF IInv, Commanded, ModeShift, args
<1>3. CASE AttitudeMode
  <2>1. stick' \in [Axis -> (-1)..1 \cup {NaN}]
    BY <1>3, InputAssumption DEF AttitudeMode
  <2>2. sp' \in [Axis -> (-AttLimit)..AttLimit]
    <3>1. PICK est \in Angle : sp' = Attitude(StickToAtt(stick'), est)
      BY <1>3 DEF AttitudeMode
    <3>2. est \in [Axis -> Int \cup {NaN}]
      BY InputAssumption
    <3> QED
      BY <2>1, <3>1, <3>2, AttitudeSetPoints
  <2>3. sp' \in [Axis -> Int]
    BY <2>2, GainTypes
  <2>4. PICK thr \in Throttle, meas \in Rate, dterm \in DTerm : RateUpdate(thr, meas, dterm)
    BY <1>3 DEF AttitudeMode
  <2>5. /\ i' \in [Axis -> (-ILimit)..ILimit]
        /\ cmd' \in [Axis -> (-OutLimit)..OutLimit]
        /\ Written' /\ MixTypeOK'
        /\ \E t \in 0..One \cup {NaN} : mixed' = Mix(t, cmd'["roll"], cmd'["pitch"], cmd'["yaw"])
        /\ last_shift' = shift'
    BY <1>0, <2>3, <2>4, RateUpdateStep
  <2>6. mode = "attitude" /\ UNCHANGED args
    BY <1>3 DEF AttitudeMode
  <2>7. TypeOK'
    BY <1>0, <2>1, <2>2, <2>5, <2>6 DEF TypeOK, args, MixTypeOK
  <2> QED
    BY <2>5, <2>6, <2>7 DEF IInv, Commanded, ModeShift, args
<1>4. CASE Reset
  <2>1. TypeOK'
    BY <1>0, <1>4, GainTypes DEF Reset, TypeOK, MixTypeOK, args, mixvars
  <2> QED
    BY <1>4, <2>1 DEF IInv, Reset, Commanded, ModeShift, Written, args, mixvars
<1>5. CASE UNCHANGED vars
  BY <1>0, <1>5 DEF IInv, TypeOK, Written, Commanded, ModeShift, MixTypeOK,
                    vars, args, ctlvars, mixvars
<1> QED
  BY <1>1, <1>2, <1>3, <1>4, <1>5 DEF Next

\* What is known after each tick and each reset (control_loop.cpp:48-74, pid.cpp,
\* mixer.cpp).
THEOREM Invariant == Spec => []IInv
BY InitIInv, NextIInv, PTL DEF Spec

-----------------------------------------------------------------------------
(* The theorems.                                                           *)

\* Whatever the gains, the inputs and the mode, every integrator, set point,
\* command and duty stays within its limit (pid.cpp:48, 53, mixer.cpp:36-45).
THEOREM TypeCorrect == Spec => []TypeOK
BY Invariant, PTL DEF IInv

\* Sums that fit the duty range are never clipped (mixer.cpp:24-45).
THEOREM TorqueKept == Spec => []TorqueIsKept
BY Invariant, WrittenTorque, PTL DEF IInv

\* The sign of the shift is the side that saturated (mixer.hpp:31).
THEOREM ShiftSign == Spec => []ShiftSignTellsSide
BY Invariant, WrittenSign, PTL DEF IInv

\* Sums that do not fit use the whole duty range (mixer.cpp:24-45).
THEOREM Authority == Spec => []FullAuthority
BY Invariant, WrittenAuthority, PTL DEF IInv

\* With rate_out_limit at most half a full duty, a command on one axis reaches
\* the motors unclipped at every throttle (config.hpp, pid.cpp:53).
THEOREM SingleAxis == Spec => []SingleAxisIsKept
<1>1. IInv => SingleAxisIsKept
  <2> SUFFICES ASSUME IInv, mode # "open-loop", 2 * OutLimit <= One,
                      NEW a \in Axis, \A b \in Axis \ {a} : cmd[b] = 0
               PROVE  \A m \in Motor : mot[m] = mixed[m] + shift
    BY DEF SingleAxisIsKept
  <2>1. PICK thr \in 0..One \cup {NaN} : mixed = Mix(thr, cmd["roll"], cmd["pitch"], cmd["yaw"])
    BY DEF IInv, Commanded
  <2>2. Hi(mixed) - Lo(mixed) <= One
    BY <2>1, SingleAxisSpan DEF IInv, TypeOK
  <2> QED
    BY <2>2, WrittenTorque DEF IInv, TorqueIsKept
<1> QED
  BY <1>1, Invariant, PTL

\* No integrator moves towards the side on which the last mix saturated
\* (pid.cpp:44-49): the sign of the shift, the block and the clamp agree.
THEOREM Held == Spec => HeldOnTheSaturatedSide
<1>1. ASSUME IInv, [Next]_vars, last_shift # 0, Hi(mixed) - Lo(mixed) <= One
      PROVE  \/ /\ Hi(mixed) > One => \A a \in Axis : i'[a] <= i[a]
                /\ Lo(mixed) < 0 => \A a \in Axis : i'[a] >= i[a]
             \/ Reset
  <2>0. TypeOK
    BY <1>1 DEF IInv
  <2>1. \A a \in Axis : i[a] \in Int
    BY <2>0, GainTypes DEF TypeOK
  <2>2. CASE i' = i
    BY <2>1, <2>2
  <2>3. CASE RateOnly \/ AttitudeMode
    <3>1. sp' \in [Axis -> Int]
      <4>1. TypeOK'
        BY <1>1, NextIInv DEF IInv
      <4> QED
        BY <4>1, GainTypes DEF TypeOK
    <3>2. PICK thr \in Throttle, meas \in Rate, dterm \in DTerm : RateUpdate(thr, meas, dterm)
      BY <2>3 DEF RateOnly, AttitudeMode
    <3>3. /\ last_shift < 0 => \A a \in Axis : i'[a] <= i[a]
          /\ last_shift > 0 => \A a \in Axis : i'[a] >= i[a]
      BY <2>0, <3>1, <3>2, RateUpdateStep
    <3>4. /\ Hi(mixed) > One => last_shift < 0
          /\ Lo(mixed) < 0 => last_shift > 0
      <4>1. last_shift = shift
        BY <1>1 DEF IInv, ModeShift
      <4>2. (shift < 0 <=> Hi(mixed) > One) /\ (shift > 0 <=> Lo(mixed) < 0)
        BY <1>1, WrittenSign DEF IInv, ShiftSignTellsSide
      <4> QED
        BY <4>1, <4>2
    <3> QED
      BY <3>3, <3>4
  <2>4. \/ i' = i
        \/ RateOnly \/ AttitudeMode
        \/ Reset
    BY <1>1 DEF Next, OpenLoop, vars, ctlvars
  <2> QED
    BY <2>2, <2>3, <2>4
<1> QED
  BY <1>1, Invariant, PTL DEF Spec, HeldOnTheSaturatedSide

=============================================================================
