----------------------------- MODULE WireProofs -----------------------------
(***************************************************************************)
(* Theorems about the messages, for every message and every damage.  The   *)
(* firmware's table and zlib's bits make one CRC, so that both languages   *)
(* judge every line alike.  A struct's memory is what the format and the   *)
(* order of the values make of it, so that a field is read where it was    *)
(* written, and the sizes compared in the handshake are the structs'.  The *)
(* CRC notices every change of one byte, as each step of it can be undone, *)
(* so that one blow to a message does not get past the readers.            *)
(***************************************************************************)
EXTENDS Wire, TLAPS, NaturalsInduction, WellFoundedInduction, SequenceTheorems

-----------------------------------------------------------------------------
(* Running from one element to the next.                                   *)

LEMMA UpwardInduction ==
  ASSUME NEW n \in Nat, NEW set, 0 \in set,
         \A i \in 0..n : i > 0 /\ i - 1 \in set => i \in set
  PROVE  0..n \subseteq set
<1> SUFFICES ASSUME NEW m \in 0..n, m \notin set PROVE FALSE
  OBVIOUS
<1> DEFINE D == {k \in Nat : k <= n /\ k \notin set}
<1>1. m \in D
  OBVIOUS
<1>2. PICK k \in D : \A l \in D : ~(<<l, k>> \in OpToRel(<, Nat))
  BY <1>1, WFMin, NatLessThanWellFounded
<1>3. \A l \in D : ~(l < k)
  BY <1>2 DEF OpToRel
<1>4. k \in Nat /\ k <= n /\ k \notin set /\ k # 0
  OBVIOUS
<1>5. k - 1 \in Nat /\ k - 1 < k /\ k - 1 <= n
  BY <1>4
<1>6. k - 1 \in set
  BY <1>3, <1>5
<1> QED
  BY <1>4, <1>6

\* One step of an operation, and what it takes to run it over a sequence.
Do(op, x, y) == op[<<x, y>>]

Runs(op, base, seq, B, E) == op \in [B \X E -> B] /\ base \in B /\ seq \in Seq(E)

LEMMA DoType ==
  ASSUME NEW B, NEW E, NEW op \in [B \X E -> B]
  PROVE  \A x \in B, y \in E : Do(op, x, y) \in B
BY DEF Do

\* f is a run of the first m steps.
Solves(f, m, op, base, seq, B) ==
  /\ f \in [0..Len(seq) -> B]
  /\ f[0] = base
  /\ \A i \in 1..m : f[i] = Do(op, f[i - 1], seq[i])

LEMMA OneStepMore ==
  ASSUME NEW op, NEW base, NEW seq, NEW B, NEW E, Runs(op, base, seq, B, E),
         NEW m \in 1..Len(seq), NEW f, Solves(f, m - 1, op, base, seq, B)
  PROVE  \E g : Solves(g, m, op, base, seq, B)
<1> DEFINE n == Len(seq)
           next == Do(op, f[m - 1], seq[m])
           g == [f EXCEPT ![m] = next]
<1>1. n \in Nat /\ m \in 0..n /\ m - 1 \in 0..n /\ m # 0
  BY DEF Runs
<1>2. f[m - 1] \in B /\ seq[m] \in E
  <2>1. f \in [0..n -> B] /\ seq \in Seq(E)
    BY DEF Solves, Runs
  <2>2. f[m - 1] \in B
    BY <1>1, <2>1
  <2> QED
    BY <2>1, <2>2
<1>3. next \in B
  BY <1>2, DoType DEF Runs
<1> HIDE DEF next
<1>4. g \in [0..n -> B] /\ g[m] = next /\ \A k \in 0..n : k # m => g[k] = f[k]
  BY <1>1, <1>3 DEF Solves
<1> HIDE DEF g
<1>5. ASSUME NEW i \in 1..m PROVE g[i] = Do(op, g[i - 1], seq[i])
  <2>1. i \in 0..n /\ i - 1 \in 0..n /\ i - 1 # m
    BY <1>1
  <2>2. g[i - 1] = f[i - 1]
    BY <1>4, <2>1
  <2>3. CASE i = m
    BY <1>4, <2>2, <2>3 DEF next
  <2>4. CASE i # m
    <3>1. i \in 1..(m - 1)
      BY <1>1, <2>4
    <3>2. f[i] = Do(op, f[i - 1], seq[i])
      BY <3>1 DEF Solves
    <3> QED
      BY <1>4, <2>1, <2>2, <2>4, <3>2
  <2> QED
    BY <2>3, <2>4
<1>6. g[0] = base
  BY <1>1, <1>4 DEF Solves
<1>7. Solves(g, m, op, base, seq, B)
  BY <1>4, <1>5, <1>6 DEF Solves
<1> QED
  BY <1>7

LEMMA RunningHasSolution ==
  ASSUME NEW op, NEW base, NEW seq, NEW B, NEW E, Runs(op, base, seq, B, E)
  PROVE  \E f : Solves(f, Len(seq), op, base, seq, B)
<1> DEFINE n == Len(seq)
           set == {m \in 0..n : \E f : Solves(f, m, op, base, seq, B)}
<1>1. n \in Nat
  BY DEF Runs
<1>2. 0 \in set
  <2>1. Solves([i \in 0..n |-> base], 0, op, base, seq, B)
    BY <1>1 DEF Solves, Runs
  <2> QED
    BY <1>1, <2>1
<1>3. \A m \in 0..n : m > 0 /\ m - 1 \in set => m \in set
  <2> SUFFICES ASSUME NEW m \in 0..n, m > 0, m - 1 \in set PROVE m \in set
    OBVIOUS
  <2>1. m \in 1..n
    BY <1>1
  <2>2. PICK f : Solves(f, m - 1, op, base, seq, B)
    OBVIOUS
  <2>3. \E g : Solves(g, m, op, base, seq, B)
    BY <2>1, <2>2, OneStepMore
  <2> QED
    BY <2>3
<1> HIDE DEF set, n
<1>4. 0..n \subseteq set
  BY <1>1, <1>2, <1>3, UpwardInduction
<1>5. n \in set
  BY <1>1, <1>4
<1> QED
  BY <1>5 DEF set, n

\* Running is what it says.
LEMMA RunningIs ==
  ASSUME NEW op, NEW base, NEW seq, NEW B, NEW E, Runs(op, base, seq, B, E)
  PROVE  Solves(Running(op, base, seq), Len(seq), op, base, seq, B)
<1> DEFINE F == CHOOSE f : f = [i \in 0..Len(seq) |-> IF i = 0 THEN base ELSE Do(op, f[i - 1], seq[i])]
<1>1. PICK f : Solves(f, Len(seq), op, base, seq, B)
  BY RunningHasSolution
<1>2. f = [i \in 0..Len(seq) |-> IF i = 0 THEN base ELSE Do(op, f[i - 1], seq[i])]
  BY <1>1 DEF Solves, Runs
<1>3. F = [i \in 0..Len(seq) |-> IF i = 0 THEN base ELSE Do(op, F[i - 1], seq[i])]
  BY <1>2
<1>4. Running(op, base, seq) = F
  BY DEF Running, Do
<1> HIDE DEF F
<1>5. Len(seq) \in Nat
  BY DEF Runs
<1>6. /\ DOMAIN F = 0..Len(seq) /\ F[0] = base
      /\ \A i \in 1..Len(seq) : F[i] = Do(op, F[i - 1], seq[i])
  BY <1>3, <1>5
<1> DEFINE set == {i \in 0..Len(seq) : F[i] = f[i]}
<1>7. 0 \in set
  BY <1>1, <1>5, <1>6 DEF Solves
<1>8. \A i \in 0..Len(seq) : i > 0 /\ i - 1 \in set => i \in set
  <2> SUFFICES ASSUME NEW i \in 0..Len(seq), i > 0, i - 1 \in set PROVE i \in set
    OBVIOUS
  <2>1. i \in 1..Len(seq) /\ F[i - 1] = f[i - 1]
    BY <1>5
  <2>2. f[i] = Do(op, f[i - 1], seq[i])
    BY <1>1, <2>1 DEF Solves
  <2> QED
    BY <1>6, <2>1, <2>2
<1> HIDE DEF set
<1>9. 0..Len(seq) \subseteq set
  BY <1>5, <1>7, <1>8, UpwardInduction
<1>10. F = f
  <2>1. \A i \in 0..Len(seq) : F[i] = f[i]
    BY <1>9 DEF set
  <2>2. f = [i \in 0..Len(seq) |-> f[i]]
    BY <1>1 DEF Solves
  <2>3. F = [i \in 0..Len(seq) |-> F[i]]
    BY <1>3
  <2> QED
    BY <2>1, <2>2, <2>3
<1> QED
  BY <1>1, <1>4, <1>10

LEMMA OverallType ==
  ASSUME NEW op, NEW base, NEW seq, NEW B, NEW E, Runs(op, base, seq, B, E)
  PROVE  Overall(op, base, seq) \in B
<1>1. Solves(Running(op, base, seq), Len(seq), op, base, seq, B)
  BY RunningIs
<1> QED
  BY <1>1 DEF Overall, Solves, Runs

\* Running over one sequence, and on over another.
LEMMA OverallOfBoth ==
  ASSUME NEW op, NEW base, NEW a, NEW b, NEW B, NEW E,
         Runs(op, base, a, B, E), Runs(op, base, b, B, E)
  PROVE  Overall(op, base, a \o b) = Overall(op, Overall(op, base, a), b)
<1> DEFINE ab == a \o b
           R == Running(op, base, ab)
           A == Running(op, base, a)
           mid == Overall(op, base, a)
           C == Running(op, mid, b)
<1>1. /\ ab \in Seq(E) /\ Len(ab) = Len(a) + Len(b) /\ Len(a) \in Nat /\ Len(b) \in Nat
      /\ \A i \in 1..Len(a) : ab[i] = a[i]
      /\ \A i \in 1..Len(b) : ab[Len(a) + i] = b[i]
  BY DEF Runs
<1>2. R[0] = base /\ \A i \in 1..Len(ab) : R[i] = Do(op, R[i - 1], ab[i])
  <2>1. Runs(op, base, ab, B, E)
    BY <1>1 DEF Runs
  <2>2. Solves(R, Len(ab), op, base, ab, B)
    BY <2>1, RunningIs
  <2> QED
    BY <2>2 DEF Solves
<1>3. A[0] = base /\ \A i \in 1..Len(a) : A[i] = Do(op, A[i - 1], a[i])
  BY RunningIs DEF Solves
<1>4. mid = A[Len(a)] /\ mid \in B
  BY OverallType DEF Overall
<1>5. C[0] = mid /\ \A i \in 1..Len(b) : C[i] = Do(op, C[i - 1], b[i])
  <2>1. Runs(op, mid, b, B, E)
    BY <1>4 DEF Runs
  <2> QED
    BY <2>1, RunningIs DEF Solves
<1> HIDE DEF R, A, C, mid, ab
<1> DEFINE front == {i \in 0..Len(a) : R[i] = A[i]}
           back == {i \in 0..Len(b) : R[Len(a) + i] = C[i]}
<1>6. \A i \in 0..Len(a) : R[i] = A[i]
  <2>1. 0 \in front
    BY <1>1, <1>2, <1>3
  <2>2. \A i \in 0..Len(a) : i > 0 /\ i - 1 \in front => i \in front
    <3> SUFFICES ASSUME NEW i \in 0..Len(a), i > 0, i - 1 \in front PROVE R[i] = A[i]
      OBVIOUS
    <3>1. i \in 1..Len(a) /\ i \in 1..Len(ab) /\ R[i - 1] = A[i - 1]
      BY <1>1
    <3> QED
      BY <1>1, <1>2, <1>3, <3>1
  <2> HIDE DEF front
  <2>3. 0..Len(a) \subseteq front
    BY <1>1, <2>1, <2>2, UpwardInduction
  <2> QED
    BY <2>3 DEF front
<1>7. \A i \in 0..Len(b) : R[Len(a) + i] = C[i]
  <2>1. 0 \in back
    BY <1>1, <1>4, <1>5, <1>6
  <2>2. \A i \in 0..Len(b) : i > 0 /\ i - 1 \in back => i \in back
    <3> SUFFICES ASSUME NEW i \in 0..Len(b), i > 0, i - 1 \in back PROVE R[Len(a) + i] = C[i]
      OBVIOUS
    <3>1. /\ i \in 1..Len(b) /\ Len(a) + i \in 1..Len(ab)
          /\ Len(a) + i - 1 = Len(a) + (i - 1)
          /\ R[Len(a) + (i - 1)] = C[i - 1]
      BY <1>1
    <3>2. R[Len(a) + i] = Do(op, R[Len(a) + (i - 1)], b[i])
      BY <1>1, <1>2, <3>1
    <3>3. C[i] = Do(op, C[i - 1], b[i])
      BY <1>5, <3>1
    <3> QED
      BY <3>1, <3>2, <3>3
  <2> HIDE DEF back
  <2>3. 0..Len(b) \subseteq back
    BY <1>1, <2>1, <2>2, UpwardInduction
  <2> QED
    BY <2>3 DEF back
<1>8. R[Len(ab)] = C[Len(b)]
  BY <1>1, <1>7
<1> QED
  BY <1>8 DEF Overall, R, C, ab, mid

-----------------------------------------------------------------------------
(* The CRC.                                                                *)

LEMMA PolyIsWord == kPoly \subseteq Ones
BY DEF kPoly, Ones

LEMMA ShiftIs ==
  ASSUME NEW c \in SUBSET Ones, NEW k \in 0..8
  PROVE  /\ ShiftRight(c, k) \subseteq Ones
         /\ \A b \in Ones : b \in ShiftRight(c, k) <=> b + k \in c
BY DEF ShiftRight, Ones

LEMMA DifferenceIs ==
  ASSUME NEW x, NEW y
  PROVE  \A b : b \in SymDiff(x, y) <=> ~(b \in x <=> b \in y)
BY DEF SymDiff

\* Each bit after a division.
LEMMA DividedIs ==
  ASSUME NEW c \in SUBSET Ones
  PROVE  /\ Divided(c) \subseteq Ones
         /\ \A b \in Ones : b \in Divided(c) <=> ~(b + 1 \in c <=> 0 \in c /\ b \in kPoly)
<1>1. /\ ShiftRight(c, 1) \subseteq Ones
      /\ \A b \in Ones : b \in ShiftRight(c, 1) <=> b + 1 \in c
  BY ShiftIs
<1>2. CASE 0 \in c
  <2>1. Divided(c) = SymDiff(kPoly, ShiftRight(c, 1))
    BY <1>2 DEF Divided
  <2>2. \A b : b \in Divided(c) <=> ~(b \in kPoly <=> b \in ShiftRight(c, 1))
    BY <2>1, DifferenceIs
  <2> QED
    BY <1>1, <1>2, <2>2, PolyIsWord
<1>3. CASE 0 \notin c
  <2>1. Divided(c) = ShiftRight(c, 1)
    BY <1>3 DEF Divided
  <2> QED
    BY <1>1, <1>3, <2>1
<1> QED
  BY <1>2, <1>3

\* Division is linear.
LEMMA DividedLinear ==
  ASSUME NEW x \in SUBSET Ones, NEW y \in SUBSET Ones
  PROVE  /\ SymDiff(x, y) \in SUBSET Ones
         /\ Divided(SymDiff(x, y)) = SymDiff(Divided(x), Divided(y))
<1>1. SymDiff(x, y) \in SUBSET Ones
  BY DEF SymDiff
<1>2. Divided(SymDiff(x, y)) \subseteq Ones /\ Divided(x) \subseteq Ones /\ Divided(y) \subseteq Ones
  BY <1>1, DividedIs
<1>3. SymDiff(Divided(x), Divided(y)) \subseteq Ones
  BY <1>2 DEF SymDiff
<1>4. ASSUME NEW b \in Ones
      PROVE  b \in Divided(SymDiff(x, y)) <=> b \in SymDiff(Divided(x), Divided(y))
  <2>1. b \in Divided(SymDiff(x, y)) <=>
          ~(b + 1 \in SymDiff(x, y) <=> 0 \in SymDiff(x, y) /\ b \in kPoly)
    BY <1>1, DividedIs
  <2>2. /\ b \in Divided(x) <=> ~(b + 1 \in x <=> 0 \in x /\ b \in kPoly)
        /\ b \in Divided(y) <=> ~(b + 1 \in y <=> 0 \in y /\ b \in kPoly)
    BY DividedIs
  <2>3. /\ b + 1 \in SymDiff(x, y) <=> ~(b + 1 \in x <=> b + 1 \in y)
        /\ 0 \in SymDiff(x, y) <=> ~(0 \in x <=> 0 \in y)
        /\ b \in SymDiff(Divided(x), Divided(y)) <=> ~(b \in Divided(x) <=> b \in Divided(y))
    BY DifferenceIs
  <2> QED
    BY <2>1, <2>2, <2>3
<1> QED
  BY <1>1, <1>2, <1>3, <1>4

LEMMA TwiceLinear ==
  ASSUME NEW x \in SUBSET Ones, NEW y \in SUBSET Ones
  PROVE  /\ Twice(x) \in SUBSET Ones
         /\ Twice(SymDiff(x, y)) = SymDiff(Twice(x), Twice(y))
<1>1. Divided(x) \in SUBSET Ones /\ Divided(y) \in SUBSET Ones
  BY DividedIs
<1> QED
  BY <1>1, DividedIs, DividedLinear DEF Twice

LEMMA EightTimesLinear ==
  ASSUME NEW x \in SUBSET Ones, NEW y \in SUBSET Ones
  PROVE  /\ EightTimes(x) \in SUBSET Ones
         /\ EightTimes(SymDiff(x, y)) = SymDiff(EightTimes(x), EightTimes(y))
<1>1. Twice(x) \in SUBSET Ones /\ Twice(y) \in SUBSET Ones
  BY TwiceLinear
<1>2. Twice(Twice(x)) \in SUBSET Ones /\ Twice(Twice(y)) \in SUBSET Ones
  BY <1>1, TwiceLinear
<1>3. Twice(Twice(Twice(x))) \in SUBSET Ones /\ Twice(Twice(Twice(y))) \in SUBSET Ones
  BY <1>2, TwiceLinear
<1>4. EightTimes(x) \in SUBSET Ones
  BY <1>3, TwiceLinear DEF EightTimes
<1>5. Twice(SymDiff(x, y)) = SymDiff(Twice(x), Twice(y))
  BY TwiceLinear
<1>6. Twice(Twice(SymDiff(x, y))) = SymDiff(Twice(Twice(x)), Twice(Twice(y)))
  BY <1>1, <1>5, TwiceLinear
<1>7. Twice(Twice(Twice(SymDiff(x, y)))) = SymDiff(Twice(Twice(Twice(x))), Twice(Twice(Twice(y))))
  BY <1>2, <1>6, TwiceLinear
<1>8. EightTimes(SymDiff(x, y)) = SymDiff(EightTimes(x), EightTimes(y))
  BY <1>3, <1>7, TwiceLinear DEF EightTimes
<1> QED
  BY <1>4, <1>8

\* A word whose low bits are zero is only shifted.
LEMMA ShiftedTwice ==
  ASSUME NEW x \in SUBSET Ones, NEW k \in {0, 2, 4, 6}, x \cap 0..(k + 1) = {}
  PROVE  Twice(ShiftRight(x, k)) = ShiftRight(x, k + 2)
<1> DEFINE y == ShiftRight(x, k)
           z == ShiftRight(x, k + 1)
<1>1. k \in 0..8 /\ k + 1 \in 0..8 /\ k + 2 \in 0..8
  OBVIOUS
<1>2. /\ y \subseteq Ones /\ \A b \in Ones : b \in y <=> b + k \in x
      /\ z \subseteq Ones /\ \A b \in Ones : b \in z <=> b + (k + 1) \in x
      /\ ShiftRight(x, k + 2) \subseteq Ones
      /\ \A b \in Ones : b \in ShiftRight(x, k + 2) <=> b + (k + 2) \in x
  BY <1>1, ShiftIs
<1>3. k \notin x /\ k + 1 \notin x
  <2>1. k \in 0..(k + 1) /\ k + 1 \in 0..(k + 1)
    OBVIOUS
  <2> QED
    BY <2>1
<1>4. 0 \in Ones /\ 0 + k = k /\ 0 + (k + 1) = k + 1
  BY DEF Ones
<1> HIDE DEF y, z
<1>5. 0 \notin y /\ 0 \notin z
  BY <1>2, <1>3, <1>4
<1>6. Divided(y) = z
  <2>1. /\ Divided(y) \subseteq Ones
        /\ \A b \in Ones : b \in Divided(y) <=> b + 1 \in y
    BY <1>2, <1>5, DividedIs
  <2>2. \A b \in Ones : b + 1 \in y <=> b + (k + 1) \in x
    <3> SUFFICES ASSUME NEW b \in Ones PROVE b + 1 \in y <=> b + (k + 1) \in x
      OBVIOUS
    <3>1. b \in Int /\ (b + 1) + k = b + (k + 1) /\ (b + 1 \in Ones \/ b = 31)
      BY DEF Ones
    <3>2. CASE b + 1 \in Ones
      BY <1>2, <3>1, <3>2
    <3>3. CASE b + 1 \notin Ones
      <4>1. b + (k + 1) \notin Ones
        BY <3>1, <3>3 DEF Ones
      <4> QED
        BY <1>2, <3>3, <4>1
    <3> QED
      BY <3>2, <3>3
  <2> QED
    BY <1>2, <2>1, <2>2
<1>7. Divided(z) = ShiftRight(x, k + 2)
  <2>1. /\ Divided(z) \subseteq Ones
        /\ \A b \in Ones : b \in Divided(z) <=> b + 1 \in z
    BY <1>2, <1>5, DividedIs
  <2>2. \A b \in Ones : b + 1 \in z <=> b + (k + 2) \in x
    <3> SUFFICES ASSUME NEW b \in Ones PROVE b + 1 \in z <=> b + (k + 2) \in x
      OBVIOUS
    <3>1. b \in Int /\ (b + 1) + (k + 1) = b + (k + 2) /\ (b + 1 \in Ones \/ b = 31)
      BY DEF Ones
    <3>2. CASE b + 1 \in Ones
      BY <1>2, <3>1, <3>2
    <3>3. CASE b + 1 \notin Ones
      <4>1. b + (k + 2) \notin Ones
        BY <3>1, <3>3 DEF Ones
      <4> QED
        BY <1>2, <3>3, <4>1
    <3> QED
      BY <3>2, <3>3
  <2> QED
    BY <1>2, <2>1, <2>2
<1> QED
  BY <1>6, <1>7 DEF Twice, y

LEMMA HighBitsShift ==
  ASSUME NEW x \in SUBSET Ones, x \cap 0..7 = {}
  PROVE  EightTimes(x) = ShiftRight(x, 8)
<1>1. x \cap 0..(0 + 1) = {} /\ x \cap 0..(2 + 1) = {} /\ x \cap 0..(4 + 1) = {} /\ x \cap 0..(6 + 1) = {}
  OBVIOUS
<1>2. x = ShiftRight(x, 0)
  <2>1. ShiftRight(x, 0) \subseteq Ones /\ \A b \in Ones : b \in ShiftRight(x, 0) <=> b + 0 \in x
    BY ShiftIs
  <2>2. \A b \in Ones : b + 0 = b
    BY DEF Ones
  <2> QED
    BY <2>1, <2>2
<1>3. Twice(x) = ShiftRight(x, 2)
  <2>1. x \cap 0..1 = {}
    OBVIOUS
  <2>2. Twice(ShiftRight(x, 0)) = ShiftRight(x, 0 + 2)
    BY <1>1, ShiftedTwice
  <2> QED
    BY <1>2, <2>2
<1>4. Twice(ShiftRight(x, 2)) = ShiftRight(x, 4)
  BY <1>1, ShiftedTwice
<1>5. Twice(ShiftRight(x, 4)) = ShiftRight(x, 6)
  BY <1>1, ShiftedTwice
<1>6. Twice(ShiftRight(x, 6)) = ShiftRight(x, 8)
  BY <1>1, ShiftedTwice
<1> QED
  BY <1>3, <1>4, <1>5, <1>6 DEF EightTimes

\* A step by the table is a step on eight bits.
LEMMA TableIsBits == TableStep = BitStep
<1>1. ASSUME NEW crc \in SUBSET Ones, NEW byte \in Byte
      PROVE  SymDiff(BuildTable[SymDiff(crc \cap 0..7, byte)], ShiftRight(crc, 8)) =
               EightTimes(SymDiff(crc, byte))
  <2> DEFINE low == SymDiff(crc \cap 0..7, byte)
             high == crc \ 0..7
  <2>1. low \in Byte /\ low \in SUBSET Ones /\ high \in SUBSET Ones /\ high \cap 0..7 = {}
    BY DEF Byte, Ones, SymDiff
  <2>2. SymDiff(low, high) = SymDiff(crc, byte)
    BY DEF Byte, SymDiff
  <2>3. ShiftRight(high, 8) = ShiftRight(crc, 8)
    BY DEF ShiftRight, Ones
  <2>4. BuildTable[low] = EightTimes(low)
    BY <2>1 DEF BuildTable
  <2> HIDE DEF low, high
  <2>5. EightTimes(SymDiff(low, high)) = SymDiff(EightTimes(low), EightTimes(high))
    BY <2>1, EightTimesLinear
  <2>6. EightTimes(high) = ShiftRight(high, 8)
    BY <2>1, HighBitsShift
  <2>7. SymDiff(BuildTable[low], ShiftRight(crc, 8)) = EightTimes(SymDiff(crc, byte))
    BY <2>2, <2>3, <2>4, <2>5, <2>6
  <2> QED
    BY <2>7 DEF low
<1>2. ASSUME NEW p \in (SUBSET Ones) \X Byte
      PROVE  SymDiff(BuildTable[SymDiff(p[1] \cap 0..7, p[2])], ShiftRight(p[1], 8)) =
               EightTimes(SymDiff(p[1], p[2]))
  BY <1>1
<1> QED
  BY <1>2 DEF TableStep, BitStep

LEMMA BitStepType == BitStep \in [(SUBSET Ones) \X Byte -> SUBSET Ones]
<1>1. ASSUME NEW crc \in SUBSET Ones, NEW byte \in Byte
      PROVE  EightTimes(SymDiff(crc, byte)) \in SUBSET Ones
  <2>1. SymDiff(crc, byte) \in SUBSET Ones
    BY DEF Byte, Ones, SymDiff
  <2> QED
    BY <2>1, EightTimesLinear
<1> QED
  BY <1>1 DEF BitStep

\* crc32Update may be called on the parts of a message one after the other.
LEMMA CrcOfParts ==
  ASSUME NEW a \in Seq(Byte), NEW b \in Seq(Byte)
  PROVE  Crc32Update(Crc32Update(Ones, a), b) = Crc32Update(Ones, a \o b)
<1>1. /\ Runs(BitStep, Ones, a, SUBSET Ones, Byte)
      /\ Runs(BitStep, Ones, b, SUBSET Ones, Byte)
  BY BitStepType DEF Runs
<1> QED
  BY <1>1, OverallOfBoth, TableIsBits DEF Crc32Update

\* The firmware's CRC of a message, made with a table, is zlib's, of every sequence
\* of bytes (sil_wire.cpp:13-38, "matches zlib.crc32" at sil_wire.hpp:127).
THEOREM SameCrc ==
  \A data \in Seq(Byte) : Crc32Final(Crc32Update(Ones, data)) = ZlibCrc32(data)
BY TableIsBits DEF Crc32Final, Crc32Update, ZlibCrc32

-----------------------------------------------------------------------------
(* Sequences joined, and cut again.                                        *)

Cat(S) == [p \in Seq(S) \X Seq(S) |-> p[1] \o p[2]]
Flat(S, parts) == Overall(Cat(S), <<>>, parts)

LEMMA JoinedIsFlat == \A parts : Joined(parts) = Flat(Byte, parts)
BY DEF Joined, Flat, Put, Cat

LEMMA CatIs ==
  ASSUME NEW S
  PROVE  /\ Cat(S) \in [Seq(S) \X Seq(S) -> Seq(S)]
         /\ \A x, y \in Seq(S) : Do(Cat(S), x, y) = x \o y
<1>1. \A p \in Seq(S) \X Seq(S) : p[1] \o p[2] \in Seq(S)
  <2> SUFFICES ASSUME NEW p \in Seq(S) \X Seq(S) PROVE p[1] \o p[2] \in Seq(S)
    OBVIOUS
  <2>1. p[1] \in Seq(S) /\ p[2] \in Seq(S)
    OBVIOUS
  <2> QED
    BY <2>1
<1>2. ASSUME NEW x \in Seq(S), NEW y \in Seq(S) PROVE Do(Cat(S), x, y) = x \o y
  BY DEF Cat, Do
<1> QED
  BY <1>1, <1>2 DEF Cat

\* R joins the parts to x, one after the other.
JoinsUp(R, S, x, parts) ==
  /\ R \in [0..Len(parts) -> Seq(S)] /\ R[0] = x
  /\ \A i \in 1..Len(parts) : R[i] = R[i - 1] \o parts[i]

LEMMA FlatSteps ==
  ASSUME NEW S, NEW x \in Seq(S), NEW parts \in Seq(Seq(S))
  PROVE  JoinsUp(Running(Cat(S), x, parts), S, x, parts)
<1> DEFINE R == Running(Cat(S), x, parts)
<1>1. Runs(Cat(S), x, parts, Seq(S), Seq(S))
  BY CatIs DEF Runs
<1>2. Solves(R, Len(parts), Cat(S), x, parts, Seq(S))
  BY <1>1, RunningIs
<1> HIDE DEF R
<1>3. ASSUME NEW i \in 1..Len(parts) PROVE R[i] = R[i - 1] \o parts[i]
  <2>1. i - 1 \in 0..Len(parts) /\ R \in [0..Len(parts) -> Seq(S)]
    BY <1>2 DEF Solves
  <2>2. R[i - 1] \in Seq(S)
    BY <2>1
  <2>3. parts[i] \in Seq(S)
    OBVIOUS
  <2>4. R[i] = Do(Cat(S), R[i - 1], parts[i])
    BY <1>2 DEF Solves
  <2> QED
    BY <2>2, <2>3, <2>4, CatIs
<1>4. JoinsUp(R, S, x, parts)
  BY <1>2, <1>3 DEF Solves, JoinsUp
<1> QED
  BY <1>4 DEF R

LEMMA FlatIsLast ==
  ASSUME NEW S, NEW parts
  PROVE  Flat(S, parts) = Running(Cat(S), <<>>, parts)[Len(parts)]
BY DEF Flat, Overall

LEMMA FlatType ==
  ASSUME NEW S, NEW parts \in Seq(Seq(S))
  PROVE  Flat(S, parts) \in Seq(S)
<1>1. <<>> \in Seq(S)
  OBVIOUS
<1>2. Runs(Cat(S), <<>>, parts, Seq(S), Seq(S))
  BY <1>1, CatIs DEF Runs
<1> QED
  BY <1>2, OverallType DEF Flat

Associates(S) == \A s, t, u \in Seq(S) : (s \o t) \o u = s \o (t \o u)

LEMMA ConcatAssociates == ASSUME NEW S PROVE Associates(S)
<1> SUFFICES ASSUME NEW s \in Seq(S), NEW t \in Seq(S), NEW u \in Seq(S)
             PROVE  (s \o t) \o u = s \o (t \o u)
  BY DEF Associates
<1> QED
  BY ConcatAssociative, SMTT(60)

\* What was there before stays in front.
LEMMA FlatFrom ==
  ASSUME NEW S, NEW x \in Seq(S), NEW parts \in Seq(Seq(S))
  PROVE  Overall(Cat(S), x, parts) = x \o Flat(S, parts)
<1> DEFINE n == Len(parts)
           X == Running(Cat(S), x, parts)
           R == Running(Cat(S), <<>>, parts)
           set == {i \in 0..n : X[i] = x \o R[i]}
<1>1. n \in Nat /\ <<>> \in Seq(S) /\ parts \in [1..n -> Seq(S)]
  OBVIOUS
<1>2. JoinsUp(X, S, x, parts) /\ Overall(Cat(S), x, parts) = X[n]
  BY FlatSteps DEF Overall
<1>3. JoinsUp(R, S, <<>>, parts) /\ Flat(S, parts) = R[n]
  BY <1>1, FlatSteps, FlatIsLast
<1> HIDE DEF X, R
<1>8. /\ X \in [0..n -> Seq(S)] /\ X[0] = x /\ \A i \in 1..n : X[i] = X[i - 1] \o parts[i]
      /\ R \in [0..n -> Seq(S)] /\ R[0] = <<>> /\ \A i \in 1..n : R[i] = R[i - 1] \o parts[i]
  BY <1>2, <1>3 DEF JoinsUp
<1> HIDE DEF n
<1>4. 0 \in set
  <2>1. x \o <<>> = x
    OBVIOUS
  <2>2. X[0] = x \o R[0]
    BY <1>8, <2>1
  <2> QED
    BY <1>1, <2>2
<1>5. \A i \in 0..n : i > 0 /\ i - 1 \in set => i \in set
  <2> SUFFICES ASSUME NEW i \in 0..n, i > 0, i - 1 \in set PROVE X[i] = x \o R[i]
    OBVIOUS
  <2>1. i \in 1..n /\ i - 1 \in 0..n /\ X[i - 1] = x \o R[i - 1]
    BY <1>1
  <2>2. R[i - 1] \in Seq(S) /\ parts[i] \in Seq(S)
    BY <1>1, <1>8, <2>1
  <2>3. x \o (R[i - 1] \o parts[i]) = (x \o R[i - 1]) \o parts[i]
    <3>1. Associates(S)
      BY ConcatAssociates
    <3> QED
      BY <2>2, <3>1, Zenon DEF Associates
  <2> QED
    BY <1>8, <2>1, <2>3
<1> HIDE DEF set
<1>6. 0..n \subseteq set
  BY <1>1, <1>4, <1>5, UpwardInduction
<1>7. n \in set
  BY <1>1, <1>6
<1> QED
  BY <1>2, <1>3, <1>7 DEF set

LEMMA FlatOfBoth ==
  ASSUME NEW S, NEW a \in Seq(Seq(S)), NEW b \in Seq(Seq(S))
  PROVE  Flat(S, a \o b) = Flat(S, a) \o Flat(S, b)
<1>1. <<>> \in Seq(S) /\ Flat(S, a) \in Seq(S)
  BY FlatType
<1>2. Runs(Cat(S), <<>>, a, Seq(S), Seq(S)) /\ Runs(Cat(S), <<>>, b, Seq(S), Seq(S))
  BY <1>1, CatIs DEF Runs
<1>3. Flat(S, a \o b) = Overall(Cat(S), Flat(S, a), b)
  BY <1>2, OverallOfBoth DEF Flat
<1> QED
  BY <1>1, <1>3, FlatFrom

\* Joining groups that have been joined.
LEMMA FlatOfFlat ==
  ASSUME NEW S, NEW groups \in Seq(Seq(Seq(S)))
  PROVE  Flat(S, [i \in DOMAIN groups |-> Flat(S, groups[i])]) = Flat(S, Flat(Seq(S), groups))
<1> DEFINE n == Len(groups)
           joined == [i \in DOMAIN groups |-> Flat(S, groups[i])]
           R == Running(Cat(S), <<>>, joined)
           V == Running(Cat(Seq(S)), <<>>, groups)
           set == {i \in 0..n : R[i] = Flat(S, V[i])}
<1>1. n \in Nat /\ <<>> \in Seq(S) /\ <<>> \in Seq(Seq(S)) /\ groups \in [1..n -> Seq(Seq(S))]
  OBVIOUS
<1>2. joined \in Seq(Seq(S)) /\ Len(joined) = n /\ \A i \in 1..n : joined[i] = Flat(S, groups[i])
  <2>1. \A i \in 1..n : Flat(S, groups[i]) \in Seq(S)
    BY <1>1, FlatType
  <2> QED
    BY <1>1, <2>1
<1> HIDE DEF joined
<1>9. JoinsUp(R, S, <<>>, joined) /\ Flat(S, joined) = R[n]
  BY <1>1, <1>2, FlatSteps, FlatIsLast
<1>10. JoinsUp(V, Seq(S), <<>>, groups) /\ Flat(Seq(S), groups) = V[n]
  BY <1>1, FlatSteps, FlatIsLast
<1> HIDE DEF R, V
<1>3. /\ R \in [0..n -> Seq(S)] /\ R[0] = <<>>
      /\ \A i \in 1..n : R[i] = R[i - 1] \o joined[i]
  BY <1>2, <1>9 DEF JoinsUp
<1>4. /\ V \in [0..n -> Seq(Seq(S))] /\ V[0] = <<>>
      /\ \A i \in 1..n : V[i] = V[i - 1] \o groups[i]
  BY <1>10 DEF JoinsUp
<1> HIDE DEF n
<1>5. 0 \in set
  <2>1. Flat(S, <<>>) = <<>>
    <3>1. JoinsUp(Running(Cat(S), <<>>, <<>>), S, <<>>, <<>>)
      BY <1>1, FlatSteps
    <3> QED
      BY <3>1, FlatIsLast DEF JoinsUp
  <2> QED
    BY <1>1, <1>3, <1>4, <2>1
<1>6. \A i \in 0..n : i > 0 /\ i - 1 \in set => i \in set
  <2> SUFFICES ASSUME NEW i \in 0..n, i > 0, i - 1 \in set PROVE R[i] = Flat(S, V[i])
    OBVIOUS
  <2>1. i \in 1..n /\ i - 1 \in 0..n /\ R[i - 1] = Flat(S, V[i - 1])
    BY <1>1
  <2>2. V[i - 1] \in Seq(Seq(S)) /\ groups[i] \in Seq(Seq(S))
    BY <1>1, <1>4, <2>1
  <2>3. Flat(S, V[i - 1] \o groups[i]) = Flat(S, V[i - 1]) \o Flat(S, groups[i])
    BY <2>2, FlatOfBoth
  <2> QED
    BY <1>2, <1>3, <1>4, <2>1, <2>3
<1> HIDE DEF set
<1>7. 0..n \subseteq set
  BY <1>1, <1>5, <1>6, UpwardInduction
<1>8. n \in set
  BY <1>1, <1>7
<1> QED
  BY <1>9, <1>10, <1>8 DEF set, joined

\* Of two sequences after each other, a piece of the first, and the second.
LEMMA FrontOf ==
  ASSUME NEW S, NEW a \in Seq(S), NEW b \in Seq(S), NEW m \in Nat, NEW n \in Nat, n <= Len(a)
  PROVE  SubSeq(a \o b, m + 1, n) = SubSeq(a, m + 1, n)
OBVIOUS

LEMMA BackOf ==
  ASSUME NEW S, NEW a \in Seq(S), NEW b \in Seq(S)
  PROVE  SubSeq(a \o b, Len(a) + 1, Len(a) + Len(b)) = b
OBVIOUS

IsBoth(c, a, b) == c = a \o b

LEMMA PieceArrives ==
  ASSUME NEW S, NEW a \in Seq(S), NEW b \in Seq(S), NEW c, IsBoth(c, a, b)
  PROVE  SubSeq(c, Len(a) + 1, Len(a) + Len(b)) = b
BY BackOf, SMTT(60) DEF IsBoth

SamePiece(c, a, m, n) == SubSeq(c, m + 1, n) = SubSeq(a, m + 1, n)

LEMMA PieceStays ==
  ASSUME NEW S, NEW a \in Seq(S), NEW b \in Seq(S), NEW c, IsBoth(c, a, b),
         NEW m \in Nat, NEW n \in Nat, n <= Len(a)
  PROVE  SamePiece(c, a, m, n)
BY FrontOf, SMTT(60) DEF IsBoth, SamePiece

LEMMA EndsAre ==
  ASSUME NEW widths \in Seq(Nat), NEW E, E = Running(Plus, 0, widths)
  PROVE  /\ E \in [0..Len(widths) -> Nat] /\ E[0] = 0
         /\ \A i \in 1..Len(widths) : E[i] = E[i - 1] + widths[i]
<1>1. Runs(Plus, 0, widths, Nat, Nat)
  BY DEF Runs, Plus
<1>2. Solves(E, Len(widths), Plus, 0, widths, Nat)
  BY <1>1, RunningIs
<1>3. ASSUME NEW i \in 1..Len(widths) PROVE E[i] = E[i - 1] + widths[i]
  <2>1. i - 1 \in 0..Len(widths) /\ E \in [0..Len(widths) -> Nat]
    BY <1>2 DEF Solves
  <2>2. E[i - 1] \in Nat /\ widths[i] \in Nat
    BY <2>1
  <2>3. E[i] = Do(Plus, E[i - 1], widths[i])
    BY <1>2 DEF Solves
  <2> QED
    BY <2>2, <2>3 DEF Do, Plus
<1> QED
  BY <1>2, <1>3 DEF Solves

StepsJoin(R, S, parts) ==
  \A i \in 1..Len(parts) :
     /\ R[i - 1] \in Seq(S) /\ parts[i] \in Seq(S) /\ R[i] = R[i - 1] \o parts[i]
     /\ Len(R[i - 1]) \in Nat /\ Len(parts[i]) \in Nat
     /\ Len(R[i]) = Len(R[i - 1]) + Len(parts[i])

LEMMA JoinStep ==
  ASSUME NEW S, NEW x, NEW parts \in Seq(Seq(S)), NEW R, JoinsUp(R, S, x, parts)
  PROVE  StepsJoin(R, S, parts)
<1> SUFFICES ASSUME NEW i \in 1..Len(parts)
             PROVE  /\ R[i - 1] \in Seq(S) /\ parts[i] \in Seq(S) /\ R[i] = R[i - 1] \o parts[i]
                    /\ Len(R[i - 1]) \in Nat /\ Len(parts[i]) \in Nat
                    /\ Len(R[i]) = Len(R[i - 1]) + Len(parts[i])
  BY DEF StepsJoin
<1>1. i - 1 \in 0..Len(parts) /\ R \in [0..Len(parts) -> Seq(S)]
  BY DEF JoinsUp
<1>2. R[i - 1] \in Seq(S)
  BY <1>1
<1>3. parts \in [1..Len(parts) -> Seq(S)]
  OBVIOUS
<1>4. parts[i] \in Seq(S)
  BY <1>3
<1>5. R[i] = R[i - 1] \o parts[i]
  BY DEF JoinsUp
<1> QED
  BY <1>2, <1>4, <1>5

\* The widths are those of the parts, or of the first of them.
WidthsOf(widths, parts) ==
  /\ widths \in Seq(Nat) /\ Len(widths) <= Len(parts)
  /\ \A i \in 1..Len(widths) : widths[i] = Len(parts[i])

\* How long what has been joined is, after each part.
SameLengths(R, E, n) == \A i \in 0..n : Len(R[i]) = E[i]

LEMMA LengthsAdd ==
  ASSUME NEW S, NEW parts \in Seq(Seq(S)), NEW widths, WidthsOf(widths, parts)
  PROVE  SameLengths(Running(Cat(S), <<>>, parts), Running(Plus, 0, widths), Len(widths))
<1> DEFINE n == Len(widths)
           R == Running(Cat(S), <<>>, parts)
           E == Running(Plus, 0, widths)
           set == {i \in 0..n : Len(R[i]) = E[i]}
<1>1. n \in Nat /\ Len(parts) \in Nat /\ <<>> \in Seq(S) /\ n <= Len(parts)
  BY DEF WidthsOf
<1>2. JoinsUp(R, S, <<>>, parts)
  BY <1>1, FlatSteps
<1>3. E \in [0..n -> Nat] /\ E[0] = 0 /\ \A i \in 1..n : E[i] = E[i - 1] + widths[i]
  BY EndsAre DEF WidthsOf
<1>7. \A i \in 1..Len(parts) :
         /\ Len(R[i - 1]) \in Nat /\ Len(parts[i]) \in Nat
         /\ Len(R[i]) = Len(R[i - 1]) + Len(parts[i])
  <2>1. StepsJoin(R, S, parts)
    BY <1>2, JoinStep
  <2> QED
    BY <2>1 DEF StepsJoin
<1> HIDE DEF R, E
<1>4. 0 \in set
  BY <1>1, <1>2, <1>3 DEF JoinsUp
<1>5. \A i \in 0..n : i > 0 /\ i - 1 \in set => i \in set
  <2> SUFFICES ASSUME NEW i \in 0..n, i > 0, i - 1 \in set PROVE Len(R[i]) = E[i]
    OBVIOUS
  <2>1. i \in 1..n /\ i \in 1..Len(parts) /\ i - 1 \in 0..Len(parts) /\ Len(R[i - 1]) = E[i - 1]
    BY <1>1
  <2>2. Len(R[i - 1]) \in Nat /\ Len(parts[i]) \in Nat /\ Len(R[i]) = Len(R[i - 1]) + Len(parts[i])
    BY <1>7, <2>1
  <2>3. widths[i] = Len(parts[i])
    BY <2>1 DEF WidthsOf
  <2> QED
    BY <1>3, <2>1, <2>2, <2>3
<1> HIDE DEF set, n
<1>6. 0..n \subseteq set
  BY <1>1, <1>4, <1>5, UpwardInduction
<1> QED
  BY <1>6 DEF set, n, R, E, SameLengths

LEMMA FlatLength ==
  ASSUME NEW S, NEW parts \in Seq(Seq(S)), NEW widths, WidthsOf(widths, parts),
         Len(widths) = Len(parts)
  PROVE  Len(Flat(S, parts)) = Total(widths)
<1> DEFINE R == Running(Cat(S), <<>>, parts)
           E == Running(Plus, 0, widths)
<1>1. \A i \in 0..Len(widths) : Len(R[i]) = E[i]
  <2>1. SameLengths(R, E, Len(widths))
    BY LengthsAdd
  <2> QED
    BY <2>1 DEF SameLengths
<1>2. Total(widths) = E[Len(widths)] /\ Flat(S, parts) = R[Len(parts)]
  BY FlatIsLast DEF Total, Overall
<1> HIDE DEF R, E
<1>3. Len(widths) \in 0..Len(widths)
  BY DEF WidthsOf
<1> QED
  BY <1>1, <1>2, <1>3

\* What has been joined is cut where it was joined.
LEMMA CutOfFlat ==
  ASSUME NEW S, NEW parts \in Seq(Seq(S)), NEW widths, WidthsOf(widths, parts)
  PROVE  /\ DOMAIN Cut(Flat(S, parts), widths) = 1..Len(widths)
         /\ \A i \in 1..Len(widths) : Cut(Flat(S, parts), widths)[i] = parts[i]
<1> DEFINE n == Len(parts)
           R == Running(Cat(S), <<>>, parts)
           E == Running(Plus, 0, widths)
<1>1. /\ n \in Nat /\ <<>> \in Seq(S) /\ Len(widths) \in Nat /\ Len(widths) <= n
      /\ DOMAIN widths = 1..Len(widths)
  BY DEF WidthsOf
<1>2. JoinsUp(R, S, <<>>, parts) /\ Flat(S, parts) = R[n]
  BY <1>1, FlatSteps, FlatIsLast
<1>3. /\ E \in [0..Len(widths) -> Nat] /\ E[0] = 0
      /\ \A i \in 1..Len(widths) : E[i] = E[i - 1] + widths[i]
  BY EndsAre DEF WidthsOf
<1>4. \A i \in 0..Len(widths) : Len(R[i]) = E[i]
  <2>1. SameLengths(R, E, Len(widths))
    BY LengthsAdd
  <2> QED
    BY <2>1 DEF SameLengths
<1>5. /\ DOMAIN Cut(Flat(S, parts), widths) = 1..Len(widths)
      /\ \A i \in 1..Len(widths) :
           Cut(Flat(S, parts), widths)[i] = SubSeq(Flat(S, parts), E[i - 1] + 1, E[i])
  BY <1>1 DEF Cut
<1> HIDE DEF R, E
<1>7. \A i \in 1..n :
         /\ R[i - 1] \in Seq(S) /\ parts[i] \in Seq(S) /\ R[i] = R[i - 1] \o parts[i]
         /\ Len(R[i - 1]) \in Nat /\ Len(parts[i]) \in Nat
         /\ Len(R[i]) = Len(R[i - 1]) + Len(parts[i])
  <2>1. StepsJoin(R, S, parts)
    BY <1>2, JoinStep
  <2> QED
    BY <2>1 DEF StepsJoin
<1>6. ASSUME NEW i \in 1..Len(widths)
      PROVE  SubSeq(R[n], E[i - 1] + 1, E[i]) = parts[i]
  <2> DEFINE set == {k \in 0..n : k < i \/ (Len(R[k]) >= E[i] /\ SubSeq(R[k], E[i - 1] + 1, E[i]) = parts[i])}
  <2>7. i - 1 \in 0..Len(widths) /\ i \in 0..Len(widths) /\ i \in 1..n
    BY <1>1
  <2>8. E[i - 1] \in Nat /\ E[i] \in Nat
    BY <1>3, <2>7
  <2>1. /\ i \in Nat /\ i > 0 /\ i <= n /\ i - 1 \in 0..Len(widths) /\ i \in 0..Len(widths)
        /\ E[i - 1] \in Nat /\ E[i] \in Nat
    BY <1>1, <2>7, <2>8
  <2>2. 0 \in set
    BY <1>1, <2>1
  <2>3. \A k \in 0..n : k > 0 /\ k - 1 \in set => k \in set
    <3> SUFFICES ASSUME NEW k \in 0..n, k > 0, k - 1 \in set, ~(k < i)
                 PROVE  Len(R[k]) >= E[i] /\ SubSeq(R[k], E[i - 1] + 1, E[i]) = parts[i]
      BY <2>1
    <3>1. k \in 1..n /\ k - 1 \in 0..n
      BY <1>1
    <3> DEFINE a == R[k - 1]
               p == parts[k]
    <3>2. /\ a \in Seq(S) /\ p \in Seq(S) /\ IsBoth(R[k], a, p)
          /\ Len(a) \in Nat /\ Len(p) \in Nat /\ Len(R[k]) = Len(a) + Len(p)
      BY <1>7, <3>1 DEF IsBoth
    <3>3. CASE k = i
      <4>1. Len(a) = E[i - 1] /\ E[i] = E[i - 1] + Len(p) /\ Len(R[k]) = E[i]
        BY <1>3, <1>4, <2>1, <3>3 DEF WidthsOf
      <4> HIDE DEF a, p
      <4>3. SubSeq(R[k], E[i - 1] + 1, E[i]) = p
        <5>1. SubSeq(R[k], Len(a) + 1, Len(a) + Len(p)) = p
          BY <3>2, PieceArrives
        <5> QED
          BY <4>1, <5>1, Zenon
      <4>4. Len(R[k]) >= E[i]
        BY <2>1, <4>1
      <4>5. p = parts[i]
        BY <3>3 DEF p
      <4> QED
        BY <4>3, <4>4, <4>5, Zenon
    <3>4. CASE k # i
      <4>1. ~(k - 1 < i)
        BY <2>1, <3>1, <3>4
      <4>2. Len(a) >= E[i] /\ SubSeq(a, E[i - 1] + 1, E[i]) = parts[i]
        BY <4>1
      <4> HIDE DEF a, p
      <4>3. E[i - 1] \in Nat /\ E[i] \in Nat /\ E[i] <= Len(a)
        BY <2>1, <3>2, <4>2
      <4>4. SamePiece(R[k], a, E[i - 1], E[i])
        BY <3>2, <4>3, PieceStays
      <4>5. Len(R[k]) >= E[i]
        BY <3>2, <4>3
      <4> QED
        BY <4>2, <4>4, <4>5 DEF SamePiece
    <3> QED
      BY <3>3, <3>4
  <2> HIDE DEF set
  <2>4. 0..n \subseteq set
    BY <1>1, <2>2, <2>3, UpwardInduction
  <2>5. n \in set
    BY <1>1, <2>4
  <2> QED
    BY <1>1, <2>1, <2>5 DEF set
<1> QED
  BY <1>2, <1>5, <1>6

-----------------------------------------------------------------------------
(* Structs, what they hold, and formats.                                   *)

IsStruct(struct) ==
  /\ Len(struct) \in Nat /\ DOMAIN struct = 1..Len(struct)
  /\ \A i \in 1..Len(struct) : struct[i].count \in Nat /\ struct[i].width \in Nat

Groups(struct, c) == [i \in DOMAIN struct |-> c[struct[i].name]]
Values(struct, c) == Flat(Seq(Byte), Groups(struct, c))

\* n scalars of w bytes.
Scalars(g, n, w) ==
  /\ g \in Seq(Seq(Byte)) /\ Len(g) = n
  /\ \A k \in 1..n : g[k] \in Seq(Byte) /\ Len(g[k]) = w

\* The groups of a struct are as many and as wide as it says.
GroupsFit(groups, struct) ==
  /\ groups \in Seq(Seq(Seq(Byte))) /\ Len(groups) = Len(struct)
  /\ \A i \in 1..Len(struct) : Scalars(groups[i], struct[i].count, struct[i].width)

LEMMA ScalarsAreSeqs ==
  ASSUME NEW n \in Nat, NEW w \in Nat, NEW g \in [1..n -> [1..w -> Byte]]
  PROVE  Scalars(g, n, w)
<1>1. ASSUME NEW k \in 1..n PROVE g[k] \in Seq(Byte) /\ Len(g[k]) = w
  <2>1. g[k] \in [1..w -> Byte]
    OBVIOUS
  <2> QED
    BY <2>1
<1>2. g \in [1..n -> Seq(Byte)]
  BY <1>1
<1> QED
  BY <1>1, <1>2 DEF Scalars

LEMMA GroupsType ==
  ASSUME NEW struct, IsStruct(struct), NEW c, Fills(struct, c)
  PROVE  GroupsFit(Groups(struct, c), struct)
<1> DEFINE g == Groups(struct, c)
           n == Len(struct)
<1>1. n \in Nat /\ DOMAIN struct = 1..n
  BY DEF IsStruct
<1>2. ASSUME NEW i \in 1..n
      PROVE  Scalars(g[i], struct[i].count, struct[i].width)
  <2>1. struct[i].count \in Nat /\ struct[i].width \in Nat
    BY DEF IsStruct
  <2>2. g[i] = c[struct[i].name]
    BY <1>1 DEF Groups
  <2>3. c[struct[i].name] \in [1..struct[i].count -> [1..struct[i].width -> Byte]]
    BY <1>1 DEF Fills
  <2> HIDE DEF g
  <2>4. g[i] \in [1..struct[i].count -> [1..struct[i].width -> Byte]]
    BY <2>2, <2>3
  <2> QED
    BY <2>1, <2>4, ScalarsAreSeqs
<1>3. g = [i \in 1..n |-> g[i]]
  BY <1>1 DEF Groups
<1> HIDE DEF g
<1>4. g \in [1..n -> Seq(Seq(Byte))]
  BY <1>2, <1>3 DEF Scalars
<1>5. g \in Seq(Seq(Seq(Byte))) /\ Len(g) = n
  BY <1>1, <1>4
<1>6. GroupsFit(g, struct)
  BY <1>2, <1>5 DEF GroupsFit
<1> QED
  BY <1>6 DEF g

\* A struct's memory holds its values, one after the other.
LEMMA MemoryIsJoined ==
  ASSUME NEW struct, IsStruct(struct), NEW c, Fills(struct, c)
  PROVE  /\ Memory(struct, c) = Joined(Values(struct, c))
         /\ Values(struct, c) \in Seq(Seq(Byte))
         /\ Memory(struct, c) \in Seq(Byte)
<1> DEFINE g == Groups(struct, c)
<1>1. g \in Seq(Seq(Seq(Byte))) /\ DOMAIN g = DOMAIN struct
  BY GroupsType DEF GroupsFit, Groups
<1>2. \A i \in DOMAIN struct : g[i] = c[struct[i].name]
  BY DEF Groups
<1>3. Values(struct, c) = Flat(Seq(Byte), g)
  BY DEF Values
<1> HIDE DEF g
<1>4. Memory(struct, c) = Flat(Byte, [i \in DOMAIN g |-> Flat(Byte, g[i])])
  <2>1. [i \in DOMAIN struct |-> Joined(c[struct[i].name])] = [i \in DOMAIN g |-> Flat(Byte, g[i])]
    BY <1>1, <1>2, JoinedIsFlat
  <2> QED
    BY <2>1, JoinedIsFlat DEF Memory
<1>5. Values(struct, c) \in Seq(Seq(Byte))
  BY <1>1, <1>3, FlatType
<1>6. Memory(struct, c) = Flat(Byte, Values(struct, c))
  BY <1>1, <1>3, <1>4, FlatOfFlat
<1> QED
  BY <1>5, <1>6, FlatType, JoinedIsFlat

\* A format that gives each value its width.
Fits(fmt, values) ==
  /\ fmt \in Seq(Nat) /\ values \in Seq(Seq(Byte)) /\ Len(fmt) = Len(values)
  /\ \A i \in 1..Len(fmt) : fmt[i] = Len(values[i])

LEMMA AfterEachOther ==
  ASSUME NEW S, NEW a \in Seq(S), NEW b \in Seq(S)
  PROVE  /\ a \o b \in Seq(S) /\ Len(a \o b) = Len(a) + Len(b)
         /\ \A i \in 1..Len(a) : (a \o b)[i] = a[i]
         /\ \A i \in 1..Len(b) : (a \o b)[Len(a) + i] = b[i]
OBVIOUS

Appended(S, a, b, c) ==
  /\ c \in Seq(S) /\ Len(c) = Len(a) + Len(b)
  /\ \A i \in 1..Len(a) : c[i] = a[i]
  /\ \A i \in 1..Len(b) : c[Len(a) + i] = b[i]

LEMMA BothFollow ==
  ASSUME NEW S, NEW a \in Seq(S), NEW b \in Seq(S)
  PROVE  Appended(S, a, b, a \o b)
BY AfterEachOther DEF Appended

LEMMA FitsBoth ==
  ASSUME NEW f, NEW v, Fits(f, v), NEW g, NEW u, Fits(g, u)
  PROVE  Fits(f \o g, v \o u)
<1> DEFINE fg == f \o g
           vu == v \o u
           n == Len(f)
           m == Len(g)
<1>0. /\ f \in Seq(Nat) /\ g \in Seq(Nat) /\ v \in Seq(Seq(Byte)) /\ u \in Seq(Seq(Byte))
      /\ n \in Nat /\ m \in Nat /\ Len(v) = n /\ Len(u) = m
      /\ \A i \in 1..n : f[i] = Len(v[i])
      /\ \A i \in 1..m : g[i] = Len(u[i])
  BY DEF Fits
<1>1. Appended(Nat, f, g, fg) /\ Appended(Seq(Byte), v, u, vu)
  BY <1>0, BothFollow
<1> HIDE DEF fg, vu
<1>2. fg \in Seq(Nat) /\ vu \in Seq(Seq(Byte)) /\ Len(fg) = n + m /\ Len(vu) = n + m
  BY <1>0, <1>1 DEF Appended
<1>3. /\ \A i \in 1..n : fg[i] = f[i] /\ vu[i] = v[i]
      /\ \A i \in 1..m : fg[n + i] = g[i] /\ vu[n + i] = u[i]
  BY <1>0, <1>1 DEF Appended
<1> HIDE DEF n, m
<1>4. ASSUME NEW i \in 1..Len(fg) PROVE fg[i] = Len(vu[i])
  <2>1. CASE i \in 1..n
    BY <1>0, <1>2, <1>3, <2>1
  <2>2. CASE i \notin 1..n
    <3>1. i - n \in 1..m /\ n + (i - n) = i
      BY <1>0, <1>2, <2>2
    <3>2. fg[n + (i - n)] = g[i - n] /\ vu[n + (i - n)] = u[i - n] /\ g[i - n] = Len(u[i - n])
      BY <1>0, <1>3, <3>1
    <3> QED
      BY <3>1, <3>2
  <2> QED
    BY <2>1, <2>2
<1>5. Fits(fg, vu)
  BY <1>2, <1>4 DEF Fits
<1> QED
  BY <1>5 DEF fg, vu

LEMMA FitsScalars ==
  ASSUME NEW n \in Nat, NEW w \in Nat, NEW g, Scalars(g, n, w)
  PROVE  Fits(Times(n, w), g)
BY DEF Fits, Scalars, Times

\* The format of a struct: for each member, as many scalars as it has.
MemberFormats(struct) == [i \in DOMAIN struct |-> Times(struct[i].count, struct[i].width)]
Format(struct) == Flat(Nat, MemberFormats(struct))

LEMMA PartsAre ==
  ASSUME NEW struct, IsStruct(struct)
  PROVE  /\ Len(struct) \in Nat /\ DOMAIN struct = 1..Len(struct)
         /\ \A i \in 1..Len(struct) : struct[i].count \in Nat /\ struct[i].width \in Nat
BY DEF IsStruct

LEMMA FormatFits ==
  ASSUME NEW struct, IsStruct(struct), NEW c, Fills(struct, c)
  PROVE  Fits(Format(struct), Values(struct, c))
<1> DEFINE n == Len(struct)
           g == Groups(struct, c)
           m == MemberFormats(struct)
           F == Running(Cat(Nat), <<>>, m)
           V == Running(Cat(Seq(Byte)), <<>>, g)
           set == {i \in 0..n : Fits(F[i], V[i])}
<1>1. /\ n \in Nat /\ DOMAIN struct = 1..n
      /\ \A i \in 1..n : struct[i].count \in Nat /\ struct[i].width \in Nat
  BY PartsAre
<1>2. g \in Seq(Seq(Seq(Byte))) /\ Len(g) = n /\ \A i \in 1..n : Scalars(g[i], struct[i].count, struct[i].width)
  BY GroupsType DEF GroupsFit
<1>3. m \in Seq(Seq(Nat)) /\ Len(m) = n /\ \A i \in 1..n : m[i] = Times(struct[i].count, struct[i].width)
  <2>1. ASSUME NEW i \in 1..n PROVE Times(struct[i].count, struct[i].width) \in Seq(Nat)
    BY <1>1 DEF Times
  <2> QED
    BY <1>1, <2>1 DEF MemberFormats
<1>4. Format(struct) = F[n] /\ Values(struct, c) = V[n]
  BY <1>2, <1>3, FlatIsLast DEF Format, Values
<1> HIDE DEF g, m
<1>5. JoinsUp(F, Nat, <<>>, m) /\ JoinsUp(V, Seq(Byte), <<>>, g)
  <2>1. <<>> \in Seq(Nat) /\ <<>> \in Seq(Seq(Byte))
    OBVIOUS
  <2> QED
    BY <1>2, <1>3, <2>1, FlatSteps
<1> HIDE DEF F, V
<1>6. F[0] = <<>> /\ V[0] = <<>> /\ \A i \in 1..n : F[i] = F[i - 1] \o m[i] /\ V[i] = V[i - 1] \o g[i]
  <2>1. F[0] = <<>> /\ V[0] = <<>>
    BY <1>5 DEF JoinsUp
  <2>2. \A i \in 1..n : F[i] = F[i - 1] \o m[i]
    BY <1>3, <1>5 DEF JoinsUp
  <2>3. \A i \in 1..n : V[i] = V[i - 1] \o g[i]
    BY <1>2, <1>5 DEF JoinsUp
  <2> QED
    BY <2>1, <2>2, <2>3
<1>7. 0 \in set
  <2>1. Fits(<<>>, <<>>)
    BY DEF Fits
  <2> QED
    BY <1>1, <1>6, <2>1
<1> HIDE DEF n
<1>8. \A i \in 0..n : i > 0 /\ i - 1 \in set => i \in set
  <2> SUFFICES ASSUME NEW i \in 0..n, i > 0, i - 1 \in set PROVE Fits(F[i], V[i])
    OBVIOUS
  <2>1. i \in 1..n /\ Fits(F[i - 1], V[i - 1])
    BY <1>1
  <2>2. Fits(m[i], g[i])
    BY <1>1, <1>2, <1>3, <2>1, FitsScalars
  <2>3. Fits(F[i - 1] \o m[i], V[i - 1] \o g[i])
    BY <2>1, <2>2, FitsBoth
  <2> QED
    BY <1>6, <2>1, <2>3
<1> HIDE DEF set
<1>9. 0..n \subseteq set
  BY <1>1, <1>7, <1>8, UpwardInduction
<1>10. n \in set
  BY <1>1, <1>9
<1> QED
  BY <1>4, <1>10 DEF set, n

\* struct.pack of values that fit, and struct.unpack of what they make.
LEMMA PackFits ==
  ASSUME NEW fmt, NEW values, Fits(fmt, values)
  PROVE  StructPack(fmt, values) = Joined(values)
<1>1. /\ Len(fmt) \in Nat /\ DOMAIN fmt = 1..Len(fmt) /\ DOMAIN values = 1..Len(fmt)
      /\ values \in [1..Len(fmt) -> Seq(Byte)] /\ \A i \in 1..Len(fmt) : fmt[i] = Len(values[i])
  BY DEF Fits
<1>2. ASSUME NEW i \in 1..Len(fmt)
      PROVE  [j \in 1..fmt[i] |-> IF j <= Len(values[i]) THEN values[i][j] ELSE {}] = values[i]
  <2>1. values[i] \in Seq(Byte) /\ fmt[i] = Len(values[i])
    BY <1>1
  <2> QED
    BY <2>1
<1>3. [i \in DOMAIN fmt |-> [j \in 1..fmt[i] |-> IF j <= Len(values[i]) THEN values[i][j] ELSE {}]]
        = values
  BY <1>1, <1>2
<1> QED
  BY <1>3 DEF StructPack

LEMMA CutFits ==
  ASSUME NEW fmt, NEW values, Fits(fmt, values)
  PROVE  Cut(Joined(values), fmt) = values /\ Len(Joined(values)) = Total(fmt)
<1>1. WidthsOf(fmt, values) /\ values \in Seq(Seq(Byte)) /\ Len(fmt) = Len(values) /\ Len(fmt) \in Nat
  BY DEF Fits, WidthsOf
<1> DEFINE cut == Cut(Flat(Byte, values), fmt)
<1>2. /\ DOMAIN cut = 1..Len(fmt)
      /\ \A i \in 1..Len(fmt) : cut[i] = values[i]
  BY <1>1, CutOfFlat
<1>3. cut = [i \in DOMAIN fmt |-> cut[i]]
  BY DEF Cut
<1> HIDE DEF cut
<1>4. DOMAIN fmt = 1..Len(fmt) /\ values = [i \in 1..Len(fmt) |-> values[i]]
  BY <1>1 DEF Fits
<1>5. cut = values
  BY <1>2, <1>3, <1>4
<1> QED
  BY <1>1, <1>5, FlatLength, JoinedIsFlat DEF cut

LEMMA TotalTimes ==
  ASSUME NEW k \in Nat, NEW w \in Nat
  PROVE  Total(Times(k, w)) = w * k
<1> DEFINE E == Running(Plus, 0, Times(k, w))
           set == {i \in 0..k : E[i] = w * i}
<1>1. Times(k, w) \in Seq(Nat) /\ Len(Times(k, w)) = k /\ \A i \in 1..k : Times(k, w)[i] = w
  BY DEF Times
<1>2. E[0] = 0 /\ \A i \in 1..k : E[i] = E[i - 1] + w
  BY <1>1, EndsAre
<1>3. Total(Times(k, w)) = E[k]
  BY <1>1 DEF Total, Overall
<1> HIDE DEF E
<1>4. 0 \in set
  BY <1>2
<1>5. \A i \in 0..k : i > 0 /\ i - 1 \in set => i \in set
  <2> SUFFICES ASSUME NEW i \in 0..k, i > 0, i - 1 \in set PROVE E[i] = w * i
    OBVIOUS
  <2>1. i \in 1..k /\ E[i - 1] = w * (i - 1)
    OBVIOUS
  <2>2. w * (i - 1) + w = w * i
    OBVIOUS
  <2> QED
    BY <1>2, <2>1, <2>2
<1> HIDE DEF set
<1>6. 0..k \subseteq set
  BY <1>4, <1>5, UpwardInduction
<1>7. k \in set
  BY <1>6
<1> QED
  BY <1>3, <1>7 DEF set

LEMMA ScalarsJoined ==
  ASSUME NEW n \in Nat, NEW w \in Nat, NEW g, Scalars(g, n, w)
  PROVE  /\ Joined(g) \in Seq(Byte) /\ Len(Joined(g)) = w * n
         /\ Cut(Joined(g), Times(n, w)) = g
<1>1. Fits(Times(n, w), g)
  BY FitsScalars
<1>2. g \in Seq(Seq(Byte))
  BY DEF Scalars
<1>3. Joined(g) \in Seq(Byte)
  BY <1>2, FlatType, JoinedIsFlat
<1> QED
  BY <1>1, <1>3, CutFits, TotalTimes

\* A struct that has been read holds what the struct that was written held.
LEMMA StructOfMemory ==
  ASSUME NEW struct, IsStruct(struct), NEW c, Fills(struct, c)
  PROVE  StructOf(struct, Memory(struct, c)) = c
<1> DEFINE n == Len(struct)
           g == Groups(struct, c)
           J == [i \in DOMAIN struct |-> Joined(c[struct[i].name])]
           part == Cut(Memory(struct, c), Extents(struct))
<1>1. /\ n \in Nat /\ DOMAIN struct = 1..n
      /\ \A i \in 1..n : struct[i].count \in Nat /\ struct[i].width \in Nat
  BY PartsAre
<1>2. \A i \in 1..n : g[i] = c[struct[i].name] /\ Scalars(g[i], struct[i].count, struct[i].width)
  BY <1>1, GroupsType DEF GroupsFit, Groups
<1> HIDE DEF g
<1>3. \A i \in 1..n : /\ Joined(g[i]) \in Seq(Byte) /\ Len(Joined(g[i])) = struct[i].width * struct[i].count
                     /\ Cut(Joined(g[i]), Times(struct[i].count, struct[i].width)) = g[i]
  BY <1>1, <1>2, ScalarsJoined
<1>4. J \in Seq(Seq(Byte)) /\ Len(J) = n /\ \A i \in 1..n : J[i] = Joined(g[i])
  BY <1>1, <1>2, <1>3
<1>5. Memory(struct, c) = Flat(Byte, J)
  BY JoinedIsFlat DEF Memory
<1> HIDE DEF J
<1>6. WidthsOf(Extents(struct), J) /\ Len(Extents(struct)) = n
  <2>1. \A i \in 1..n : struct[i].width * struct[i].count \in Nat
    BY <1>1
  <2>2. Extents(struct) \in Seq(Nat) /\ Len(Extents(struct)) = n
    BY <1>1, <2>1 DEF Extents
  <2>3. \A i \in 1..n : Extents(struct)[i] = Len(J[i])
    BY <1>1, <1>3, <1>4 DEF Extents
  <2> QED
    BY <1>1, <1>4, <2>2, <2>3 DEF WidthsOf
<1>7. \A i \in 1..n : part[i] = J[i]
  BY <1>4, <1>5, <1>6, CutOfFlat
<1> HIDE DEF part
<1>8. ASSUME NEW name \in Names(struct),
             NEW i, i = CHOOSE j \in DOMAIN struct : struct[j].name = name
      PROVE  Cut(part[i], Times(struct[i].count, struct[i].width)) = c[name]
  <2>1. \E j \in DOMAIN struct : struct[j].name = name
    BY DEF Names
  <2>2. i \in DOMAIN struct /\ struct[i].name = name
    BY <1>8, <2>1
  <2> QED
    BY <1>1, <1>2, <1>3, <1>4, <1>7, <2>2
<1>9. c = [name \in Names(struct) |-> c[name]]
  BY DEF Fills
<1>10. StructOf(struct, Memory(struct, c)) =
         [name \in Names(struct) |->
            LET i == CHOOSE j \in DOMAIN struct : struct[j].name = name
            IN  Cut(part[i], Times(struct[i].count, struct[i].width))]
  BY DEF StructOf, part
<1> QED
  BY <1>8, <1>9, <1>10

-----------------------------------------------------------------------------
(* The structs and the formats of the messages.                            *)

\* t is a, and b after it.
Follow(a, b, t, n, m) ==
  /\ Len(a) = n /\ Len(b) = m /\ Len(t) = n + m
  /\ \A i \in 1..n : t[i] = a[i]
  /\ \A i \in 1..m : t[n + i] = b[i]

LEMMA BothAre ==
  ASSUME NEW S, NEW a \in Seq(S), NEW b \in Seq(S), NEW t \in Seq(S), NEW n, NEW m, Follow(a, b, t, n, m)
  PROVE  a \o b = t
<1> DEFINE u == a \o b
<1>1. /\ n \in Nat /\ m \in Nat /\ Len(t) = n + m
      /\ \A i \in 1..n : t[i] = a[i]
      /\ \A i \in 1..m : t[n + i] = b[i]
  BY DEF Follow
<1>2. u \in Seq(S) /\ Len(u) = n + m
  BY AfterEachOther DEF Follow
<1>3. (\A i \in 1..n : u[i] = a[i]) /\ (\A i \in 1..m : u[n + i] = b[i])
  BY AfterEachOther DEF Follow
<1> HIDE DEF u
<1>4. ASSUME NEW i \in 1..(n + m) PROVE u[i] = t[i]
  <2>1. CASE i \in 1..n
    BY <1>1, <1>3, <2>1
  <2>2. CASE i \notin 1..n
    <3>1. i - n \in 1..m /\ n + (i - n) = i
      BY <1>1, <2>2
    <3>2. t[n + (i - n)] = b[i - n] /\ u[n + (i - n)] = b[i - n]
      BY <1>1, <1>3, <3>1
    <3> QED
      BY <3>1, <3>2
  <2> QED
    BY <2>1, <2>2
<1>5. u = t
  BY <1>1, <1>2, <1>4
<1> QED
  BY <1>5 DEF u

StateParts ==
  <<Member("gyro_rps", 4, 3), Member("accel_mps2", 4, 3), Member("mag_uT", 4, 3), Float("temp_c"),
    Member("t_us", 8, 1), U8("valid"), Float("vbat"), U8("rc_proto"), U8("rc_len"),
    Member("rc_raw", 32, 1)>>

LEMMA StateRcIs == StateRc = StateParts
<1> DEFINE more == <<Float("vbat"), U8("rc_proto"), U8("rc_len"), Member("rc_raw", 32, 1)>>
           S == {StateParts[i] : i \in 1..10}
<1>1. SilImu \in Seq(S) /\ more \in Seq(S) /\ StateParts \in Seq(S)
  <2>1. \A i \in 1..10 : StateParts[i] \in S
    OBVIOUS
  <2> HIDE DEF S
  <2> QED
    BY <2>1 DEF SilImu, StateParts
<1>2. Follow(SilImu, more, StateParts, 6, 4)
  BY DEF Follow, SilImu, StateParts
<1>3. StateRc = SilImu \o more
  BY DEF StateRc
<1> HIDE DEF more, S
<1> QED
  BY <1>1, <1>2, <1>3, BothAre

LEMMA StructsAre == IsStruct(SilHello) /\ IsStruct(StateRc) /\ IsStruct(SilOut)
<1>1. IsStruct(SilHello)
  BY DEF IsStruct, SilHello, Member
<1>2. IsStruct(SilOut)
  BY DEF IsStruct, SilOut, Float, U8, Member
<1>3. IsStruct(StateParts)
  BY DEF IsStruct, StateParts, Float, U8, Member
<1> QED
  BY <1>1, <1>2, <1>3, StateRcIs

LEMMA TimesType == \A k, w \in Nat : Times(k, w) \in Seq(Nat) /\ Len(Times(k, w)) = k
BY DEF Times

LEMMA TimesOne == \A w \in Nat : Times(1, w) = <<w>>
BY DEF Times

LEMMA NatsAssociative == \A s, t, u \in Seq(Nat) : (s \o t) \o u = s \o (t \o u)
<1>1. Associates(Nat)
  BY ConcatAssociates
<1> QED
  BY <1>1, Zenon DEF Associates

LEMMA NothingBefore == \A s \in Seq(Nat) : <<>> \o s = s
BY ConcatEmptySeq

HasPart(struct, i, k, w) == struct[i].count = k /\ struct[i].width = w

LEMMA FormatSteps ==
  ASSUME NEW struct, IsStruct(struct), NEW F, F = Running(Cat(Nat), <<>>, MemberFormats(struct))
  PROVE  /\ F[0] = <<>> /\ Format(struct) = F[Len(struct)]
         /\ \A i \in 1..Len(struct) :
              \A k, w : HasPart(struct, i, k, w) => F[i] = F[i - 1] \o Times(k, w)
<1> DEFINE m == MemberFormats(struct)
           n == Len(struct)
<1>1. /\ n \in Nat /\ DOMAIN struct = 1..n
      /\ \A i \in 1..n : struct[i].count \in Nat /\ struct[i].width \in Nat
  BY PartsAre
<1>2. m \in Seq(Seq(Nat)) /\ Len(m) = n /\ \A i \in 1..n : m[i] = Times(struct[i].count, struct[i].width)
  <2>1. \A i \in 1..n : Times(struct[i].count, struct[i].width) \in Seq(Nat)
    BY <1>1, TimesType
  <2> QED
    BY <1>1, <2>1 DEF MemberFormats
<1>3. Format(struct) = F[n]
  BY <1>2, FlatIsLast DEF Format
<1> HIDE DEF m
<1>4. JoinsUp(F, Nat, <<>>, m)
  <2>1. <<>> \in Seq(Nat)
    OBVIOUS
  <2> QED
    BY <1>2, <2>1, FlatSteps DEF m
<1> QED
  BY <1>2, <1>3, <1>4 DEF JoinsUp, HasPart

\* One more at the end.
OneAfter(a, t, w, u) == (a \o t) \o <<w>> = a \o u

LEMMA OneMore ==
  ASSUME NEW a \in Seq(Nat), NEW t \in Seq(Nat), NEW w \in Nat, NEW u \in Seq(Nat), NEW n,
         Follow(t, <<w>>, u, n, 1)
  PROVE  OneAfter(a, t, w, u)
<1>1. <<w>> \in Seq(Nat)
  OBVIOUS
<1>2. t \o <<w>> = u
  BY <1>1, BothAre
<1>3. (a \o t) \o <<w>> = a \o (t \o <<w>>)
  BY <1>1, NatsAssociative, Zenon
<1> QED
  BY <1>2, <1>3, Zenon DEF OneAfter

LEMMA HelloFormat == Format(SilHello) = HelloFmt
<1> DEFINE F == Running(Cat(Nat), <<>>, MemberFormats(SilHello))
<1>1. /\ F[0] = <<>> /\ Format(SilHello) = F[2]
      /\ F[1] = F[0] \o Times(1, 4) /\ F[2] = F[1] \o Times(7, 4)
  <2>1. /\ Len(SilHello) = 2 /\ HasPart(SilHello, 1, 1, 4) /\ HasPart(SilHello, 2, 7, 4)
    BY DEF HasPart, SilHello, Member
  <2>2. F[0] = <<>> /\ Format(SilHello) = F[Len(SilHello)]
    BY StructsAre, FormatSteps
  <2>3. \A i \in 1..Len(SilHello) : \A k, w : HasPart(SilHello, i, k, w) => F[i] = F[i - 1] \o Times(k, w)
    BY StructsAre, FormatSteps
  <2> HIDE DEF F
  <2>4. F[1] = F[0] \o Times(1, 4)
    BY <2>1, <2>3
  <2>5. F[2] = F[1] \o Times(7, 4)
    BY <2>1, <2>3
  <2> QED
    BY <2>1, <2>2, <2>4, <2>5
<1> HIDE DEF F
<1>2. F[1] = Times(1, 4)
  BY <1>1, TimesType, NothingBefore
<1>3. Times(1, 4) \o Times(7, 4) = Times(8, 4)
  BY DEF Times
<1> QED
  BY <1>1, <1>2, <1>3 DEF HelloFmt

LEMMA OutFormat == Format(SilOut) = FwOutFmt
<1> DEFINE F == Running(Cat(Nat), <<>>, MemberFormats(SilOut))
<1>1. /\ F[0] = <<>> /\ Format(SilOut) = F[10]
      /\ F[1] = F[0] \o Times(4, 4) /\ F[2] = F[1] \o Times(1, 4) /\ F[3] = F[2] \o Times(1, 4)
      /\ F[4] = F[3] \o Times(1, 4) /\ F[5] = F[4] \o Times(1, 1) /\ F[6] = F[5] \o Times(1, 1)
      /\ F[7] = F[6] \o Times(1, 1) /\ F[8] = F[7] \o Times(1, 1) /\ F[9] = F[8] \o Times(1, 4)
      /\ F[10] = F[9] \o Times(1, 4)
  <2>1. /\ Len(SilOut) = 10 /\ HasPart(SilOut, 1, 4, 4) /\ HasPart(SilOut, 2, 1, 4)
        /\ HasPart(SilOut, 3, 1, 4) /\ HasPart(SilOut, 4, 1, 4) /\ HasPart(SilOut, 5, 1, 1)
        /\ HasPart(SilOut, 6, 1, 1) /\ HasPart(SilOut, 7, 1, 1) /\ HasPart(SilOut, 8, 1, 1)
        /\ HasPart(SilOut, 9, 1, 4) /\ HasPart(SilOut, 10, 1, 4)
    BY DEF HasPart, SilOut, Member, Float, U8
  <2>2. F[0] = <<>> /\ Format(SilOut) = F[Len(SilOut)]
    BY StructsAre, FormatSteps
  <2>3. \A i \in 1..Len(SilOut) : \A k, w : HasPart(SilOut, i, k, w) => F[i] = F[i - 1] \o Times(k, w)
    BY StructsAre, FormatSteps
  <2> HIDE DEF F
  <2>4. F[1] = F[0] \o Times(4, 4)
    BY <2>1, <2>3
  <2>5. F[2] = F[1] \o Times(1, 4)
    BY <2>1, <2>3
  <2>6. F[3] = F[2] \o Times(1, 4)
    BY <2>1, <2>3
  <2>7. F[4] = F[3] \o Times(1, 4)
    BY <2>1, <2>3
  <2>8. F[5] = F[4] \o Times(1, 1)
    BY <2>1, <2>3
  <2>9. F[6] = F[5] \o Times(1, 1)
    BY <2>1, <2>3
  <2>10. F[7] = F[6] \o Times(1, 1)
    BY <2>1, <2>3
  <2>11. F[8] = F[7] \o Times(1, 1)
    BY <2>1, <2>3
  <2>12. F[9] = F[8] \o Times(1, 4)
    BY <2>1, <2>3
  <2>13. F[10] = F[9] \o Times(1, 4)
    BY <2>1, <2>3
  <2> QED
    BY <2>1, <2>2, <2>4, <2>5, <2>6, <2>7, <2>8, <2>9, <2>10, <2>11, <2>12, <2>13
<1> HIDE DEF F
<1>2. F[1] = Times(4, 4)
  BY <1>1, TimesType, NothingBefore
<1>3. F[4] = Times(7, 4)
  <2>1. Times(4, 4) \o Times(1, 4) = Times(5, 4)
    BY DEF Times
  <2>2. Times(5, 4) \o Times(1, 4) = Times(6, 4)
    BY DEF Times
  <2>3. Times(6, 4) \o Times(1, 4) = Times(7, 4)
    BY DEF Times
  <2> QED
    BY <1>1, <1>2, <2>1, <2>2, <2>3
<1> DEFINE a == Times(7, 4)
<1>4. a \in Seq(Nat) /\ a = Times(4, 4) \o Times(3, 4)
  <2>1. a \in Seq(Nat)
    BY TimesType
  <2>2. Times(7, 4) = Times(4, 4) \o Times(3, 4)
    BY DEF Times
  <2> QED
    BY <2>1, <2>2
<1> HIDE DEF a
<1>5. F[8] = a \o Times(4, 1)
  <2>1. Times(1, 1) \in Seq(Nat) /\ Times(2, 1) \in Seq(Nat) /\ Times(3, 1) \in Seq(Nat)
    BY TimesType
  <2>5. Times(1, 1) \o Times(1, 1) = Times(2, 1)
    BY DEF Times
  <2>6. Times(2, 1) \o Times(1, 1) = Times(3, 1)
    BY DEF Times
  <2>7. Times(3, 1) \o Times(1, 1) = Times(4, 1)
    BY DEF Times
  <2>2. F[5] = a \o Times(1, 1)
    BY <1>1, <1>3 DEF a
  <2>3. F[6] = a \o Times(2, 1)
    <3>1. (a \o Times(1, 1)) \o Times(1, 1) = a \o (Times(1, 1) \o Times(1, 1))
      BY <1>4, <2>1, NatsAssociative
    <3> QED
      BY <1>1, <2>2, <2>5, <3>1
  <2>4. F[7] = a \o Times(3, 1)
    <3>1. (a \o Times(2, 1)) \o Times(1, 1) = a \o (Times(2, 1) \o Times(1, 1))
      BY <1>4, <2>1, NatsAssociative
    <3> QED
      BY <1>1, <2>3, <2>6, <3>1
  <2> QED
    <3>1. (a \o Times(3, 1)) \o Times(1, 1) = a \o (Times(3, 1) \o Times(1, 1))
      BY <1>4, <2>1, NatsAssociative
    <3> QED
      BY <1>1, <2>4, <2>7, <3>1
<1> DEFINE b == a \o Times(4, 1)
<1>6. b \in Seq(Nat)
  BY <1>4, TimesType, AfterEachOther
<1>7. F[9] = b \o <<4>> /\ F[10] = F[9] \o <<4>>
  BY <1>1, <1>5, TimesOne
<1> HIDE DEF b
<1>8. OneAfter(b, <<4>>, 4, <<4, 4>>)
  <2>1. <<4>> \in Seq(Nat) /\ <<4, 4>> \in Seq(Nat)
    OBVIOUS
  <2>2. Follow(<<4>>, <<4>>, <<4, 4>>, 1, 1)
    BY DEF Follow
  <2> QED
    BY <1>6, <2>1, <2>2, OneMore
<1>9. FwOutFmt = b \o <<4, 4>>
  BY <1>4 DEF FwOutFmt, b
<1> QED
  BY <1>1, <1>7, <1>8, <1>9 DEF OneAfter

LEMMA StateFormat == Format(StateRc) = StateFmt
<1> DEFINE F == Running(Cat(Nat), <<>>, MemberFormats(StateRc))
<1>1. /\ F[0] = <<>> /\ Format(StateRc) = F[10]
      /\ F[1] = F[0] \o Times(3, 4) /\ F[2] = F[1] \o Times(3, 4) /\ F[3] = F[2] \o Times(3, 4)
      /\ F[4] = F[3] \o Times(1, 4) /\ F[5] = F[4] \o Times(1, 8) /\ F[6] = F[5] \o Times(1, 1)
      /\ F[7] = F[6] \o Times(1, 4) /\ F[8] = F[7] \o Times(1, 1) /\ F[9] = F[8] \o Times(1, 1)
      /\ F[10] = F[9] \o Times(1, 32)
  <2>1. /\ Len(StateRc) = 10 /\ HasPart(StateRc, 1, 3, 4) /\ HasPart(StateRc, 2, 3, 4)
        /\ HasPart(StateRc, 3, 3, 4) /\ HasPart(StateRc, 4, 1, 4) /\ HasPart(StateRc, 5, 1, 8)
        /\ HasPart(StateRc, 6, 1, 1) /\ HasPart(StateRc, 7, 1, 4) /\ HasPart(StateRc, 8, 1, 1)
        /\ HasPart(StateRc, 9, 1, 1) /\ HasPart(StateRc, 10, 1, 32)
    BY StateRcIs DEF HasPart, StateParts, Member, Float, U8
  <2>2. F[0] = <<>> /\ Format(StateRc) = F[Len(StateRc)]
    BY StructsAre, FormatSteps
  <2>3. \A i \in 1..Len(StateRc) : \A k, w : HasPart(StateRc, i, k, w) => F[i] = F[i - 1] \o Times(k, w)
    BY StructsAre, FormatSteps
  <2> HIDE DEF F
  <2>4. F[1] = F[0] \o Times(3, 4)
    BY <2>1, <2>3
  <2>5. F[2] = F[1] \o Times(3, 4)
    BY <2>1, <2>3
  <2>6. F[3] = F[2] \o Times(3, 4)
    BY <2>1, <2>3
  <2>7. F[4] = F[3] \o Times(1, 4)
    BY <2>1, <2>3
  <2>8. F[5] = F[4] \o Times(1, 8)
    BY <2>1, <2>3
  <2>9. F[6] = F[5] \o Times(1, 1)
    BY <2>1, <2>3
  <2>10. F[7] = F[6] \o Times(1, 4)
    BY <2>1, <2>3
  <2>11. F[8] = F[7] \o Times(1, 1)
    BY <2>1, <2>3
  <2>12. F[9] = F[8] \o Times(1, 1)
    BY <2>1, <2>3
  <2>13. F[10] = F[9] \o Times(1, 32)
    BY <2>1, <2>3
  <2> QED
    BY <2>1, <2>2, <2>4, <2>5, <2>6, <2>7, <2>8, <2>9, <2>10, <2>11, <2>12, <2>13
<1> HIDE DEF F
<1> DEFINE a == Times(9, 4)
<1>2. a \in Seq(Nat) /\ F[3] = a
  <2>1. Times(3, 4) \in Seq(Nat) /\ Times(9, 4) \in Seq(Nat)
    BY TimesType
  <2>3. Times(3, 4) \o Times(3, 4) = Times(6, 4)
    BY DEF Times
  <2>4. Times(6, 4) \o Times(3, 4) = Times(9, 4)
    BY DEF Times
  <2>2. F[1] = Times(3, 4)
    BY <1>1, <2>1, NothingBefore
  <2> QED
    BY <1>1, <2>1, <2>2, <2>3, <2>4
<1>3. Times(1, 4) = <<4>> /\ Times(1, 8) = <<8>> /\ Times(1, 1) = <<1>> /\ Times(1, 32) = <<32>>
  BY TimesOne
<1>4. StateFmt = a \o <<4, 8, 1, 4, 1, 1, 32>>
  BY DEF StateFmt
<1> HIDE DEF a
<1>12. F[4] = a \o <<4>>
  BY <1>1, <1>2, <1>3
<1>6. F[5] = a \o <<4, 8>>
  <2>1. <<4>> \in Seq(Nat) /\ <<8>> \in Seq(Nat) /\ <<4, 8>> \in Seq(Nat)
    OBVIOUS
  <2>2. <<4>> \o <<8>> = <<4, 8>>
    <3> DEFINE t == <<4>>
               w == <<8>>
               u == <<4, 8>>
    <3>1. t \in Seq(Nat) /\ w \in Seq(Nat) /\ u \in Seq(Nat)
      OBVIOUS
    <3>2. Follow(t, w, u, 1, 1)
      BY DEF Follow
    <3> HIDE DEF t, w, u
    <3>3. t \o w = u
      BY <3>1, <3>2, BothAre
    <3> QED
      BY <3>3 DEF t, w, u
  <2>3. (a \o <<4>>) \o <<8>> = a \o (<<4>> \o <<8>>)
    BY <1>2, <2>1, NatsAssociative
  <2> QED
    BY <1>1, <1>3, <1>12, <2>2, <2>3
<1>7. F[6] = a \o <<4, 8, 1>>
  <2>1. Follow(<<4, 8>>, <<1>>, <<4, 8, 1>>, 2, 1)
    BY DEF Follow
  <2>2. <<4, 8>> \in Seq(Nat) /\ <<4, 8, 1>> \in Seq(Nat)
    OBVIOUS
  <2>3. (a \o <<4, 8>>) \o <<1>> = a \o <<4, 8, 1>>
    <3> DEFINE t == <<4, 8>>
               u == <<4, 8, 1>>
    <3>1. t \in Seq(Nat) /\ u \in Seq(Nat) /\ 1 \in Nat /\ Follow(t, <<1>>, u, 2, 1)
      BY <2>1, <2>2
    <3> HIDE DEF t, u
    <3>2. OneAfter(a, t, 1, u)
      BY <1>2, <3>1, OneMore
    <3> QED
      BY <3>2 DEF t, u, OneAfter
  <2> QED
    BY <1>1, <1>3, <1>6, <2>3
<1>8. F[7] = a \o <<4, 8, 1, 4>>
  <2>1. Follow(<<4, 8, 1>>, <<4>>, <<4, 8, 1, 4>>, 3, 1)
    BY DEF Follow
  <2>2. <<4, 8, 1>> \in Seq(Nat) /\ <<4, 8, 1, 4>> \in Seq(Nat)
    OBVIOUS
  <2>3. (a \o <<4, 8, 1>>) \o <<4>> = a \o <<4, 8, 1, 4>>
    <3> DEFINE t == <<4, 8, 1>>
               u == <<4, 8, 1, 4>>
    <3>1. t \in Seq(Nat) /\ u \in Seq(Nat) /\ 4 \in Nat /\ Follow(t, <<4>>, u, 3, 1)
      BY <2>1, <2>2
    <3> HIDE DEF t, u
    <3>2. OneAfter(a, t, 4, u)
      BY <1>2, <3>1, OneMore
    <3> QED
      BY <3>2 DEF t, u, OneAfter
  <2> QED
    BY <1>1, <1>3, <1>7, <2>3
<1>9. F[8] = a \o <<4, 8, 1, 4, 1>>
  <2>1. Follow(<<4, 8, 1, 4>>, <<1>>, <<4, 8, 1, 4, 1>>, 4, 1)
    BY DEF Follow
  <2>2. <<4, 8, 1, 4>> \in Seq(Nat) /\ <<4, 8, 1, 4, 1>> \in Seq(Nat)
    OBVIOUS
  <2>3. (a \o <<4, 8, 1, 4>>) \o <<1>> = a \o <<4, 8, 1, 4, 1>>
    <3> DEFINE t == <<4, 8, 1, 4>>
               u == <<4, 8, 1, 4, 1>>
    <3>1. t \in Seq(Nat) /\ u \in Seq(Nat) /\ 1 \in Nat /\ Follow(t, <<1>>, u, 4, 1)
      BY <2>1, <2>2
    <3> HIDE DEF t, u
    <3>2. OneAfter(a, t, 1, u)
      BY <1>2, <3>1, OneMore
    <3> QED
      BY <3>2 DEF t, u, OneAfter
  <2> QED
    BY <1>1, <1>3, <1>8, <2>3
<1>10. F[9] = a \o <<4, 8, 1, 4, 1, 1>>
  <2>1. Follow(<<4, 8, 1, 4, 1>>, <<1>>, <<4, 8, 1, 4, 1, 1>>, 5, 1)
    BY DEF Follow
  <2>2. <<4, 8, 1, 4, 1>> \in Seq(Nat) /\ <<4, 8, 1, 4, 1, 1>> \in Seq(Nat)
    OBVIOUS
  <2>3. (a \o <<4, 8, 1, 4, 1>>) \o <<1>> = a \o <<4, 8, 1, 4, 1, 1>>
    <3> DEFINE t == <<4, 8, 1, 4, 1>>
               u == <<4, 8, 1, 4, 1, 1>>
    <3>1. t \in Seq(Nat) /\ u \in Seq(Nat) /\ 1 \in Nat /\ Follow(t, <<1>>, u, 5, 1)
      BY <2>1, <2>2
    <3> HIDE DEF t, u
    <3>2. OneAfter(a, t, 1, u)
      BY <1>2, <3>1, OneMore
    <3> QED
      BY <3>2 DEF t, u, OneAfter
  <2> QED
    BY <1>1, <1>3, <1>9, <2>3
<1>11. F[10] = a \o <<4, 8, 1, 4, 1, 1, 32>>
  <2>1. Follow(<<4, 8, 1, 4, 1, 1>>, <<32>>, <<4, 8, 1, 4, 1, 1, 32>>, 6, 1)
    BY DEF Follow
  <2>2. <<4, 8, 1, 4, 1, 1>> \in Seq(Nat) /\ <<4, 8, 1, 4, 1, 1, 32>> \in Seq(Nat)
    OBVIOUS
  <2>3. (a \o <<4, 8, 1, 4, 1, 1>>) \o <<32>> = a \o <<4, 8, 1, 4, 1, 1, 32>>
    <3> DEFINE t == <<4, 8, 1, 4, 1, 1>>
               u == <<4, 8, 1, 4, 1, 1, 32>>
    <3>1. t \in Seq(Nat) /\ u \in Seq(Nat) /\ 32 \in Nat /\ Follow(t, <<32>>, u, 6, 1)
      BY <2>1, <2>2
    <3> HIDE DEF t, u
    <3>2. OneAfter(a, t, 32, u)
      BY <1>2, <3>1, OneMore
    <3> QED
      BY <3>2 DEF t, u, OneAfter
  <2> QED
    BY <1>1, <1>3, <1>10, <2>3
<1> QED
  BY <1>1, <1>4, <1>11

\* The values of a struct, and of each member of it.
Counts(struct) == [i \in DOMAIN struct |-> struct[i].count]

\* By the i-th step x has been joined to V.
Grown(V, i, x) == V[i] = V[i - 1] \o x

HasName(struct, i, name) == struct[i].name = name

LEMMA ValuesSteps ==
  ASSUME NEW struct, IsStruct(struct), NEW c, Fills(struct, c),
         NEW V, V = Running(Cat(Seq(Byte)), <<>>, Groups(struct, c))
  PROVE  /\ V[0] = <<>> /\ Values(struct, c) = V[Len(struct)]
         /\ \A i \in 1..Len(struct) : \A name : HasName(struct, i, name) =>
              Grown(V, i, c[name]) /\ c[name] \in Seq(Seq(Byte))
<1> DEFINE g == Groups(struct, c)
           n == Len(struct)
<1>1. n \in Nat /\ DOMAIN struct = 1..n
  BY PartsAre
<1>2. /\ g \in Seq(Seq(Seq(Byte))) /\ Len(g) = n
      /\ \A i \in 1..n : g[i] = c[struct[i].name] /\ g[i] \in Seq(Seq(Byte))
  BY <1>1, GroupsType DEF GroupsFit, Groups, Scalars
<1>3. Values(struct, c) = V[n]
  BY <1>2, FlatIsLast DEF Values
<1> HIDE DEF g
<1>4. JoinsUp(V, Seq(Byte), <<>>, g)
  <2>1. <<>> \in Seq(Seq(Byte))
    OBVIOUS
  <2> QED
    BY <1>2, <2>1, FlatSteps DEF g
<1> QED
  BY <1>2, <1>3, <1>4 DEF JoinsUp, HasName, Grown

HasCount(struct, i, k) == struct[i].count = k
Piece(v, C, i) == SubSeq(v, C[i - 1] + 1, C[i])

LEMMA PieceIs ==
  ASSUME NEW struct, IsStruct(struct), NEW c, Fills(struct, c),
         NEW C, C = Running(Plus, 0, Counts(struct)), NEW v, v = Values(struct, c)
  PROVE  /\ C[0] = 0
         /\ \A i \in 1..Len(struct) : \A k : HasCount(struct, i, k) => C[i] = C[i - 1] + k
         /\ v \in Seq(Seq(Byte)) /\ Len(v) = C[Len(struct)]
         /\ \A i \in 1..Len(struct) : \A name : HasName(struct, i, name) =>
              Piece(v, C, i) = c[name]
<1> DEFINE g == Groups(struct, c)
           n == Len(struct)
           k == Counts(struct)
<1>1. /\ n \in Nat /\ DOMAIN struct = 1..n
      /\ \A i \in 1..n : struct[i].count \in Nat
  BY PartsAre
<1>2. /\ g \in Seq(Seq(Seq(Byte))) /\ Len(g) = n
      /\ \A i \in 1..n : g[i] = c[struct[i].name] /\ Len(g[i]) = struct[i].count
  <2>1. GroupsFit(g, struct)
    BY GroupsType
  <2>2. \A i \in 1..n : g[i] = c[struct[i].name]
    BY <1>1 DEF Groups
  <2> HIDE DEF g
  <2> QED
    BY <1>1, <2>1, <2>2 DEF GroupsFit, Scalars
<1>3. k \in Seq(Nat) /\ Len(k) = n /\ \A i \in 1..n : k[i] = struct[i].count
  BY <1>1 DEF Counts
<1>4. v = Flat(Seq(Byte), g)
  BY DEF Values
<1>5. C = Running(Plus, 0, k)
  OBVIOUS
<1> HIDE DEF g, k
<1>6. WidthsOf(k, g)
  <2>1. ASSUME NEW i \in 1..n PROVE k[i] = Len(g[i])
    BY <1>2, <1>3
  <2>2. k \in Seq(Nat) /\ Len(k) = n /\ Len(g) = n /\ n \in Nat
    BY <1>1, <1>2, <1>3
  <2> HIDE DEF n
  <2> QED
    BY <2>1, <2>2 DEF WidthsOf
<1>7. C[0] = 0 /\ \A i \in 1..n : C[i] = C[i - 1] + struct[i].count
  BY <1>3, <1>5, EndsAre
<1>8. v \in Seq(Seq(Byte))
  BY <1>2, <1>4, FlatType
<1>9. Len(v) = C[n]
  <2>1. Len(v) = Total(k)
    BY <1>2, <1>3, <1>4, <1>6, FlatLength
  <2> QED
    BY <1>3, <1>5, <2>1 DEF Total, Overall
<1>10. \A i \in 1..n : Cut(v, k)[i] = g[i]
  BY <1>2, <1>3, <1>4, <1>6, CutOfFlat
<1>11. \A i \in 1..n : Cut(v, k)[i] = SubSeq(v, C[i - 1] + 1, C[i])
  <2>1. DOMAIN k = 1..n
    BY <1>1, <1>3
  <2> QED
    BY <1>5, <2>1 DEF Cut
<1> QED
  BY <1>2, <1>7, <1>8, <1>9, <1>10, <1>11 DEF HasName, HasCount, Piece

\* What the plant packs is what the firmware's struct would be in memory.
LEMMA PackedState ==
  ASSUME NEW c, Fills(StateRc, c)
  PROVE  PackState(c) = Memory(StateRc, c)
<1> DEFINE V == Running(Cat(Seq(Byte)), <<>>, Groups(StateRc, c))
           v == Values(StateRc, c)
<1>1. /\ V[0] = <<>> /\ v = V[Len(StateRc)]
      /\ \A i \in 1..Len(StateRc) : \A name : HasName(StateRc, i, name) =>
           Grown(V, i, c[name]) /\ c[name] \in Seq(Seq(Byte))
  BY StructsAre, ValuesSteps
<1> HIDE DEF V, v
<1>2. /\ Len(StateRc) = 10
      /\ HasName(StateRc, 1, "gyro_rps") /\ HasName(StateRc, 2, "accel_mps2") /\ HasName(StateRc, 3, "mag_uT")
      /\ HasName(StateRc, 4, "temp_c") /\ HasName(StateRc, 5, "t_us") /\ HasName(StateRc, 6, "valid")
      /\ HasName(StateRc, 7, "vbat") /\ HasName(StateRc, 8, "rc_proto") /\ HasName(StateRc, 9, "rc_len")
      /\ HasName(StateRc, 10, "rc_raw")
  BY StateRcIs DEF HasName, StateParts, Member, Float, U8
<1>3. V[1] = c.gyro_rps
  <2>1. c.gyro_rps \in Seq(Seq(Byte)) /\ Grown(V, 1, c.gyro_rps)
    BY <1>1, <1>2
  <2>2. <<>> \o c.gyro_rps = c.gyro_rps
    BY <2>1, ConcatEmptySeq
  <2>3. V[1] = V[0] \o c.gyro_rps
    BY <2>1 DEF Grown
  <2>4. V[0] = <<>>
    BY <1>1
  <2> QED
    BY <2>2, <2>3, <2>4
<1>4. V[2] = V[1] \o c.accel_mps2
  <2>1. Grown(V, 2, c.accel_mps2)
    BY <1>1, <1>2
  <2> QED
    BY <2>1 DEF Grown
<1>5. V[3] = V[2] \o c.mag_uT
  <2>1. Grown(V, 3, c.mag_uT)
    BY <1>1, <1>2
  <2> QED
    BY <2>1 DEF Grown
<1>6. V[4] = V[3] \o c.temp_c
  <2>1. Grown(V, 4, c.temp_c)
    BY <1>1, <1>2
  <2> QED
    BY <2>1 DEF Grown
<1>7. V[5] = V[4] \o c.t_us
  <2>1. Grown(V, 5, c.t_us)
    BY <1>1, <1>2
  <2> QED
    BY <2>1 DEF Grown
<1>8. V[6] = V[5] \o c.valid
  <2>1. Grown(V, 6, c.valid)
    BY <1>1, <1>2
  <2> QED
    BY <2>1 DEF Grown
<1>9. V[7] = V[6] \o c.vbat
  <2>1. Grown(V, 7, c.vbat)
    BY <1>1, <1>2
  <2> QED
    BY <2>1 DEF Grown
<1>10. V[8] = V[7] \o c.rc_proto
  <2>1. Grown(V, 8, c.rc_proto)
    BY <1>1, <1>2
  <2> QED
    BY <2>1 DEF Grown
<1>11. V[9] = V[8] \o c.rc_len
  <2>1. Grown(V, 9, c.rc_len)
    BY <1>1, <1>2
  <2> QED
    BY <2>1 DEF Grown
<1>12. V[10] = V[9] \o c.rc_raw
  <2>1. Grown(V, 10, c.rc_raw)
    BY <1>1, <1>2
  <2> QED
    BY <2>1 DEF Grown
<1>13. PackState(c) = StructPack(StateFmt, v)
  BY <1>1, <1>2, <1>3, <1>4, <1>5, <1>6, <1>7, <1>8, <1>9, <1>10, <1>11, <1>12 DEF PackState
<1>14. Fits(StateFmt, v)
  BY StructsAre, FormatFits, StateFormat DEF v
<1> QED
  BY <1>13, <1>14, PackFits, StructsAre, MemoryIsJoined DEF v

LEMMA PackedHello ==
  ASSUME NEW c, Fills(SilHello, c)
  PROVE  PackHello(c) = Memory(SilHello, c)
<1> DEFINE V == Running(Cat(Seq(Byte)), <<>>, Groups(SilHello, c))
           v == Values(SilHello, c)
<1>1. /\ V[0] = <<>> /\ v = V[Len(SilHello)]
      /\ \A i \in 1..Len(SilHello) : \A name : HasName(SilHello, i, name) =>
           Grown(V, i, c[name]) /\ c[name] \in Seq(Seq(Byte))
  BY StructsAre, ValuesSteps
<1> HIDE DEF V, v
<1>2. Len(SilHello) = 2 /\ HasName(SilHello, 1, "dt_us") /\ HasName(SilHello, 2, "sizes")
  BY DEF HasName, SilHello, Member
<1>3. V[1] = c.dt_us
  <2>1. c.dt_us \in Seq(Seq(Byte)) /\ Grown(V, 1, c.dt_us)
    BY <1>1, <1>2
  <2>2. <<>> \o c.dt_us = c.dt_us
    BY <2>1, ConcatEmptySeq
  <2>3. V[1] = V[0] \o c.dt_us
    BY <2>1 DEF Grown
  <2>4. V[0] = <<>>
    BY <1>1
  <2> QED
    BY <2>2, <2>3, <2>4
<1>4. V[2] = V[1] \o c.sizes
  <2>1. Grown(V, 2, c.sizes)
    BY <1>1, <1>2
  <2> QED
    BY <2>1 DEF Grown
<1>5. PackHello(c) = StructPack(HelloFmt, v)
  BY <1>1, <1>2, <1>3, <1>4 DEF PackHello
<1>6. Fits(HelloFmt, v)
  BY StructsAre, FormatFits, HelloFormat DEF v
<1> QED
  BY <1>5, <1>6, PackFits, StructsAre, MemoryIsJoined DEF v

\* A single value, and the piece of one.
LEMMA PieceOfOne ==
  ASSUME NEW S, NEW v \in Seq(S), NEW i \in 1..Len(v)
  PROVE  SubSeq(v, i, i) = <<v[i]>>
<1> DEFINE u == SubSeq(v, i, i)
           x == v[i]
<1>1. x \in S
  OBVIOUS
<1>2. u \in Seq(S) /\ Len(u) = 1 /\ u[1] = x
  OBVIOUS
<1> HIDE DEF u, x
<1>3. \A k \in 1..Len(u) : u[k] = <<x>>[k]
  BY <1>2
<1>4. <<x>> \in Seq(S) /\ Len(<<x>>) = 1
  BY <1>1
<1>5. u = <<x>>
  BY <1>2, <1>3, <1>4, SeqEqual
<1> QED
  BY <1>5 DEF u, x

\* The firmware's struct, read by the plant's format.
LEMMA OutIsRead ==
  ASSUME NEW c, Fills(SilOut, c)
  PROVE  UnpackOut(Memory(SilOut, c)) = c
<1> DEFINE C == Running(Plus, 0, Counts(SilOut))
           v == Values(SilOut, c)
<1>1. Cut(Memory(SilOut, c), FwOutFmt) = v
  <2>1. Fits(FwOutFmt, v)
    BY StructsAre, FormatFits, OutFormat
  <2>2. Memory(SilOut, c) = Joined(v)
    BY StructsAre, MemoryIsJoined
  <2> HIDE DEF v
  <2> QED
    BY <2>1, <2>2, CutFits
<1>2. C[0] = 0 /\ v \in Seq(Seq(Byte)) /\ Len(v) = C[Len(SilOut)]
  BY StructsAre, PieceIs
<1>30. \A i \in 1..Len(SilOut) : \A k : HasCount(SilOut, i, k) => C[i] = C[i - 1] + k
  BY StructsAre, PieceIs
<1>31. \A i \in 1..Len(SilOut) : \A name : HasName(SilOut, i, name) =>
         Piece(v, C, i) = c[name]
  BY StructsAre, PieceIs
<1> HIDE DEF C, v
<1>3. /\ Len(SilOut) = 10 /\ HasCount(SilOut, 1, 4) /\ HasCount(SilOut, 2, 1)
      /\ HasCount(SilOut, 3, 1) /\ HasCount(SilOut, 4, 1) /\ HasCount(SilOut, 5, 1)
      /\ HasCount(SilOut, 6, 1) /\ HasCount(SilOut, 7, 1) /\ HasCount(SilOut, 8, 1)
      /\ HasCount(SilOut, 9, 1) /\ HasCount(SilOut, 10, 1)
      /\ HasName(SilOut, 1, "mot") /\ HasName(SilOut, 2, "roll_est")
      /\ HasName(SilOut, 3, "pitch_est") /\ HasName(SilOut, 4, "yaw_est")
      /\ HasName(SilOut, 5, "armed") /\ HasName(SilOut, 6, "failsafe")
      /\ HasName(SilOut, 7, "led_mode") /\ HasName(SilOut, 8, "imu_valid")
      /\ HasName(SilOut, 9, "tick") /\ HasName(SilOut, 10, "sat_shift")
  BY DEF HasName, HasCount, SilOut, Member, Float, U8
<1>4. C[1] = 4
  BY <1>2, <1>3, <1>30
<1>5. C[2] = 5
  BY <1>3, <1>30, <1>4
<1>6. C[3] = 6
  BY <1>3, <1>30, <1>5
<1>7. C[4] = 7
  BY <1>3, <1>30, <1>6
<1>8. C[5] = 8
  BY <1>3, <1>30, <1>7
<1>9. C[6] = 9
  BY <1>3, <1>30, <1>8
<1>10. C[7] = 10
  BY <1>3, <1>30, <1>9
<1>11. C[8] = 11
  BY <1>3, <1>30, <1>10
<1>12. C[9] = 12
  BY <1>3, <1>30, <1>11
<1>13. C[10] = 13
  BY <1>3, <1>30, <1>12
<1>14. Len(v) = 13
  BY <1>2, <1>3, <1>13
<1>32. \A i \in 1..13 : SubSeq(v, i, i) = <<v[i]>>
  BY <1>2, <1>14, PieceOfOne
<1>15. SubSeq(v, 1, 4) = c.mot
  <2>1. Piece(v, C, 1) = c.mot
    BY <1>3, <1>31
  <2>2. C[1 - 1] + 1 = 1 /\ C[1] = 4
    BY <1>2, <1>4
  <2> QED
    BY <2>1, <2>2 DEF Piece
<1>16. <<v[5]>> = c.roll_est
  <2>1. Piece(v, C, 2) = c.roll_est
    BY <1>3, <1>31
  <2>2. C[2 - 1] + 1 = 5 /\ C[2] = 5
    BY <1>4, <1>5
  <2>3. SubSeq(v, 5, 5) = <<v[5]>>
    BY <1>32
  <2> QED
    BY <2>1, <2>2, <2>3 DEF Piece
<1>17. <<v[6]>> = c.pitch_est
  <2>1. Piece(v, C, 3) = c.pitch_est
    BY <1>3, <1>31
  <2>2. C[3 - 1] + 1 = 6 /\ C[3] = 6
    BY <1>5, <1>6
  <2>3. SubSeq(v, 6, 6) = <<v[6]>>
    BY <1>32
  <2> QED
    BY <2>1, <2>2, <2>3 DEF Piece
<1>18. <<v[7]>> = c.yaw_est
  <2>1. Piece(v, C, 4) = c.yaw_est
    BY <1>3, <1>31
  <2>2. C[4 - 1] + 1 = 7 /\ C[4] = 7
    BY <1>6, <1>7
  <2>3. SubSeq(v, 7, 7) = <<v[7]>>
    BY <1>32
  <2> QED
    BY <2>1, <2>2, <2>3 DEF Piece
<1>19. <<v[8]>> = c.armed
  <2>1. Piece(v, C, 5) = c.armed
    BY <1>3, <1>31
  <2>2. C[5 - 1] + 1 = 8 /\ C[5] = 8
    BY <1>7, <1>8
  <2>3. SubSeq(v, 8, 8) = <<v[8]>>
    BY <1>32
  <2> QED
    BY <2>1, <2>2, <2>3 DEF Piece
<1>20. <<v[9]>> = c.failsafe
  <2>1. Piece(v, C, 6) = c.failsafe
    BY <1>3, <1>31
  <2>2. C[6 - 1] + 1 = 9 /\ C[6] = 9
    BY <1>8, <1>9
  <2>3. SubSeq(v, 9, 9) = <<v[9]>>
    BY <1>32
  <2> QED
    BY <2>1, <2>2, <2>3 DEF Piece
<1>21. <<v[10]>> = c.led_mode
  <2>1. Piece(v, C, 7) = c.led_mode
    BY <1>3, <1>31
  <2>2. C[7 - 1] + 1 = 10 /\ C[7] = 10
    BY <1>9, <1>10
  <2>3. SubSeq(v, 10, 10) = <<v[10]>>
    BY <1>32
  <2> QED
    BY <2>1, <2>2, <2>3 DEF Piece
<1>22. <<v[11]>> = c.imu_valid
  <2>1. Piece(v, C, 8) = c.imu_valid
    BY <1>3, <1>31
  <2>2. C[8 - 1] + 1 = 11 /\ C[8] = 11
    BY <1>10, <1>11
  <2>3. SubSeq(v, 11, 11) = <<v[11]>>
    BY <1>32
  <2> QED
    BY <2>1, <2>2, <2>3 DEF Piece
<1>23. <<v[12]>> = c.tick
  <2>1. Piece(v, C, 9) = c.tick
    BY <1>3, <1>31
  <2>2. C[9 - 1] + 1 = 12 /\ C[9] = 12
    BY <1>11, <1>12
  <2>3. SubSeq(v, 12, 12) = <<v[12]>>
    BY <1>32
  <2> QED
    BY <2>1, <2>2, <2>3 DEF Piece
<1>24. <<v[13]>> = c.sat_shift
  <2>1. Piece(v, C, 10) = c.sat_shift
    BY <1>3, <1>31
  <2>2. C[10 - 1] + 1 = 13 /\ C[10] = 13
    BY <1>12, <1>13
  <2>3. SubSeq(v, 13, 13) = <<v[13]>>
    BY <1>32
  <2> QED
    BY <2>1, <2>2, <2>3 DEF Piece
<1>25. UnpackOut(Memory(SilOut, c)) =
         [mot |-> c.mot, roll_est |-> c.roll_est, pitch_est |-> c.pitch_est, yaw_est |-> c.yaw_est,
          armed |-> c.armed, failsafe |-> c.failsafe, led_mode |-> c.led_mode,
          imu_valid |-> c.imu_valid, tick |-> c.tick, sat_shift |-> c.sat_shift]
  BY <1>1, <1>15, <1>16, <1>17, <1>18, <1>19, <1>20, <1>21, <1>22, <1>23, <1>24 DEF UnpackOut
<1>26. c \in [{"mot", "roll_est", "pitch_est", "yaw_est", "armed", "failsafe", "led_mode",
              "imu_valid", "tick", "sat_shift"} -> Seq(Seq(Byte))]
  <2>1. Names(SilOut) = {"mot", "roll_est", "pitch_est", "yaw_est", "armed", "failsafe", "led_mode",
                         "imu_valid", "tick", "sat_shift"}
    BY DEF Names, SilOut, Member, Float, U8
  <2> QED
    BY <2>1 DEF Fills
<1> QED
  BY <1>25, <1>26

LEMMA HelloIsRead ==
  ASSUME NEW c, Fills(SilHello, c)
  PROVE  UnpackHello(Memory(SilHello, c)) = c
<1> DEFINE C == Running(Plus, 0, Counts(SilHello))
           v == Values(SilHello, c)
<1>1. Cut(Memory(SilHello, c), HelloFmt) = v
  <2>1. Fits(HelloFmt, v)
    BY StructsAre, FormatFits, HelloFormat
  <2>2. Memory(SilHello, c) = Joined(v)
    BY StructsAre, MemoryIsJoined
  <2> HIDE DEF v
  <2> QED
    BY <2>1, <2>2, CutFits
<1>2. C[0] = 0 /\ v \in Seq(Seq(Byte)) /\ Len(v) = C[Len(SilHello)]
  BY StructsAre, PieceIs
<1>30. \A i \in 1..Len(SilHello) : \A k : HasCount(SilHello, i, k) => C[i] = C[i - 1] + k
  BY StructsAre, PieceIs
<1>31. \A i \in 1..Len(SilHello) : \A name : HasName(SilHello, i, name) =>
         Piece(v, C, i) = c[name]
  BY StructsAre, PieceIs
<1> HIDE DEF C, v
<1>3. /\ Len(SilHello) = 2 /\ HasCount(SilHello, 1, 1) /\ HasCount(SilHello, 2, 7)
      /\ HasName(SilHello, 1, "dt_us") /\ HasName(SilHello, 2, "sizes")
  BY DEF HasName, HasCount, SilHello, Member
<1>4. C[1] = 1
  BY <1>2, <1>3, <1>30
<1>5. C[2] = 8 /\ Len(v) = 8
  BY <1>2, <1>3, <1>4, <1>30
<1>6. <<v[1]>> = c.dt_us
  <2>1. Piece(v, C, 1) = c.dt_us
    BY <1>3, <1>31
  <2>2. C[1 - 1] + 1 = 1
    BY <1>2
  <2>3. SubSeq(v, 1, 1) = <<v[1]>>
    BY <1>2, <1>5, PieceOfOne
  <2> QED
    BY <1>4, <2>1, <2>2, <2>3 DEF Piece
<1>7. Tail(v) = c.sizes
  <2>1. Piece(v, C, 2) = c.sizes
    BY <1>3, <1>31
  <2>2. C[2 - 1] + 1 = 2
    BY <1>4
  <2>3. Tail(v) = SubSeq(v, 2, Len(v))
    <3>1. v # <<>>
      BY <1>5
    <3> QED
      BY <1>2, <3>1, TailIsSubSeq
  <2> QED
    BY <1>5, <2>1, <2>2, <2>3 DEF Piece
<1>8. UnpackHello(Memory(SilHello, c)) = [dt_us |-> c.dt_us, sizes |-> c.sizes]
  BY <1>1, <1>6, <1>7 DEF UnpackHello
<1>9. c \in [{"dt_us", "sizes"} -> Seq(Seq(Byte))]
  <2>1. Names(SilHello) = {"dt_us", "sizes"}
    BY DEF Names, SilHello, Member
  <2> QED
    BY <2>1 DEF Fills
<1> QED
  BY <1>8, <1>9

-----------------------------------------------------------------------------
(* The header.                                                             *)

\* Do two sequences begin alike?
SameFront(a, b, n) ==
  /\ a \in Seq(Byte) /\ b \in Seq(Byte) /\ n \in Nat /\ n <= Len(a) /\ n <= Len(b)
  /\ \A i \in 1..n : a[i] = b[i]

LEMMA SameFrontPieces ==
  ASSUME NEW a, NEW b, NEW n, SameFront(a, b, n), NEW l \in Nat, NEW k \in Nat, k <= n
  PROVE  SubSeq(a, l + 1, k) = SubSeq(b, l + 1, k) /\ SubSeq(a, l + 1, k) \in Seq(Byte)
<1> DEFINE u == SubSeq(a, l + 1, k)
           v == SubSeq(b, l + 1, k)
<1>0. /\ a \in Seq(Byte) /\ b \in Seq(Byte) /\ n \in Nat /\ n <= Len(a) /\ n <= Len(b)
      /\ \A i \in 1..n : a[i] = b[i]
  BY DEF SameFront
<1>1. u \in Seq(Byte) /\ v \in Seq(Byte) /\ Len(u) = Len(v)
  BY <1>0
<1>2. ASSUME NEW i \in 1..Len(u) PROVE u[i] = v[i]
  <2>1. l + i \in 1..n /\ u[i] = a[l + i] /\ v[i] = b[l + i]
    BY <1>0
  <2> QED
    BY <1>0, <2>1
<1> HIDE DEF u, v
<1>3. u = v
  BY <1>1, <1>2, SeqEqual
<1> QED
  BY <1>1, <1>3 DEF u, v

LEMMA HdrEnds ==
  ASSUME NEW E, E = Running(Plus, 0, HdrFmt)
  PROVE  /\ E[0] = 0 /\ E[1] = 2 /\ E[2] = 3 /\ E[3] = 4 /\ E[4] = 6 /\ E[5] = 10 /\ E[6] = 14
         /\ \A i \in 0..6 : E[i] \in Nat /\ E[i] <= HdrSize
<1>1. HdrFmt \in Seq(Nat) /\ Len(HdrFmt) = 6
  BY DEF HdrFmt
<1>2. E[0] = 0 /\ \A i \in 1..6 : E[i] = E[i - 1] + HdrFmt[i]
  BY <1>1, EndsAre
<1>3. /\ HdrFmt[1] = 2 /\ HdrFmt[2] = 1 /\ HdrFmt[3] = 1 /\ HdrFmt[4] = 2 /\ HdrFmt[5] = 4
      /\ HdrFmt[6] = 4
  BY DEF HdrFmt
<1>4. E[1] = 2
  BY <1>2, <1>3
<1>5. E[2] = 3
  BY <1>2, <1>3, <1>4
<1>6. E[3] = 4
  BY <1>2, <1>3, <1>5
<1>7. E[4] = 6
  BY <1>2, <1>3, <1>6
<1>8. E[5] = 10
  BY <1>2, <1>3, <1>7
<1>9. E[6] = 14
  BY <1>2, <1>3, <1>8
<1>10. ASSUME NEW i \in 0..6 PROVE E[i] \in Nat /\ E[i] <= HdrSize
  <2>1. i = 0 \/ i = 1 \/ i = 2 \/ i = 3 \/ i = 4 \/ i = 5 \/ i = 6
    OBVIOUS
  <2> QED
    BY <1>2, <1>4, <1>5, <1>6, <1>7, <1>8, <1>9, <2>1 DEF HdrSize
<1> QED
  BY <1>2, <1>4, <1>5, <1>6, <1>7, <1>8, <1>9, <1>10

LEMMA SameHdr ==
  ASSUME NEW a, NEW b, SameFront(a, b, HdrSize)
  PROVE  HdrOf(a) = HdrOf(b)
<1> DEFINE E == Running(Plus, 0, HdrFmt)
<1>1. DOMAIN HdrFmt = 1..6
  BY DEF HdrFmt
<1>2. \A i \in 0..6 : E[i] \in Nat /\ E[i] <= HdrSize
  BY HdrEnds
<1>3. /\ Cut(a, HdrFmt) = [i \in 1..6 |-> SubSeq(a, E[i - 1] + 1, E[i])]
      /\ Cut(b, HdrFmt) = [i \in 1..6 |-> SubSeq(b, E[i - 1] + 1, E[i])]
  BY <1>1 DEF Cut
<1> HIDE DEF E
<1>4. ASSUME NEW i \in 1..6 PROVE SubSeq(a, E[i - 1] + 1, E[i]) = SubSeq(b, E[i - 1] + 1, E[i])
  <2>1. i - 1 \in 0..6 /\ i \in 0..6
    OBVIOUS
  <2>2. E[i - 1] \in Nat /\ E[i] \in Nat /\ E[i] <= HdrSize
    BY <1>2, <2>1
  <2> QED
    BY <2>2, SameFrontPieces
<1>5. Cut(a, HdrFmt) = Cut(b, HdrFmt)
  BY <1>3, <1>4
<1> QED
  BY <1>5 DEF HdrOf

LEMMA PowersAre == \A i \in 1..16 : 2^(i - 1) \in Nat
<1> SUFFICES ASSUME NEW i \in 1..16 PROVE 2^(i - 1) \in Nat
  OBVIOUS
<1>1. i = 1 => 2^(i - 1) = 1
  OBVIOUS
<1>2. i = 2 => 2^(i - 1) = 2
  OBVIOUS
<1>3. i = 3 => 2^(i - 1) = 4
  OBVIOUS
<1>4. i = 4 => 2^(i - 1) = 8
  OBVIOUS
<1>5. i = 5 => 2^(i - 1) = 16
  OBVIOUS
<1>6. i = 6 => 2^(i - 1) = 32
  OBVIOUS
<1>7. i = 7 => 2^(i - 1) = 64
  OBVIOUS
<1>8. i = 8 => 2^(i - 1) = 128
  OBVIOUS
<1>9. i = 9 => 2^(i - 1) = 256
  OBVIOUS
<1>10. i = 10 => 2^(i - 1) = 512
  OBVIOUS
<1>11. i = 11 => 2^(i - 1) = 1024
  OBVIOUS
<1>12. i = 12 => 2^(i - 1) = 2048
  OBVIOUS
<1>13. i = 13 => 2^(i - 1) = 4096
  OBVIOUS
<1>14. i = 14 => 2^(i - 1) = 8192
  OBVIOUS
<1>15. i = 15 => 2^(i - 1) = 16384
  OBVIOUS
<1>16. i = 16 => 2^(i - 1) = 32768
  OBVIOUS
<1>17. \/ i = 1 \/ i = 2 \/ i = 3 \/ i = 4 \/ i = 5 \/ i = 6 \/ i = 7 \/ i = 8
       \/ i = 9 \/ i = 10 \/ i = 11 \/ i = 12 \/ i = 13 \/ i = 14 \/ i = 15 \/ i = 16
  OBVIOUS
<1> DEFINE p == 2^(i - 1)
<1> HIDE DEF p
<1>18. p \in Nat
  BY <1>1, <1>2, <1>3, <1>4, <1>5, <1>6, <1>7, <1>8, <1>9, <1>10, <1>11, <1>12, <1>13, <1>14,
     <1>15, <1>16, <1>17 DEF p
<1> QED
  BY <1>18 DEF p

Weights(word) == [i \in 1..16 |-> IF i - 1 \in word THEN 2^(i - 1) ELSE 0]

LEMMA WeightsType ==
  ASSUME NEW word
  PROVE  Weights(word) \in Seq(Nat) /\ Len(Weights(word)) = 16
<1>1. \A i \in 1..16 : (IF i - 1 \in word THEN 2^(i - 1) ELSE 0) \in Nat
  BY PowersAre
<1> QED
  BY <1>1 DEF Weights

LEMMA NumberType == \A word : Number(word) \in Nat
<1> SUFFICES ASSUME NEW word PROVE Number(word) \in Nat
  OBVIOUS
<1>1. Runs(Plus, 0, Weights(word), Nat, Nat)
  BY WeightsType DEF Runs, Plus
<1>2. Number(word) = Overall(Plus, 0, Weights(word))
  BY DEF Number, Total, Weights
<1> QED
  BY <1>1, <1>2, OverallType

LEMMA ToBytesType ==
  ASSUME NEW word, NEW w \in Nat
  PROVE  ToBytes(word, w) \in Seq(Byte) /\ Len(ToBytes(word, w)) = w
<1>1. \A j \in 1..w : {b \in 0..7 : 8 * (j - 1) + b \in word} \in Byte
  BY DEF Byte
<1> QED
  BY <1>1 DEF ToBytes

AreBytes(a, n) == a \in Seq(Byte) /\ Len(a) = n

LEMMA BytesOfBoth ==
  ASSUME NEW a, NEW b, NEW m \in 0..14, NEW n \in 0..14, NEW k \in 0..28, k = m + n,
         AreBytes(a, m), AreBytes(b, n)
  PROVE  AreBytes(a \o b, k)
<1>1. a \in Seq(Byte) /\ b \in Seq(Byte) /\ Len(a) = m /\ Len(b) = n
  BY DEF AreBytes
<1>2. a \o b \in Seq(Byte) /\ Len(a \o b) = Len(a) + Len(b)
  BY <1>1
<1> QED
  BY <1>1, <1>2 DEF AreBytes

LEMMA HdrType ==
  ASSUME NEW type, NEW len, NEW seq, NEW crc
  PROVE  Hdr(type, len, seq, crc) \in Seq(Byte) /\ Len(Hdr(type, len, seq, crc)) = HdrSize
<1>1. \A word : \A w \in Nat : ToBytes(word, w) \in Seq(Byte) /\ Len(ToBytes(word, w)) = w
  BY ToBytesType
<1> DEFINE a == ToBytes(kMagic, 2)
           b == ToBytes(kProtoVersion, 1)
           c == ToBytes(type, 1)
           d == ToBytes(Word(len, 16), 2)
           e == ToBytes(seq, 4)
           f == ToBytes(crc, 4)
<1>2. /\ AreBytes(a, 2) /\ AreBytes(b, 1) /\ AreBytes(c, 1) /\ AreBytes(d, 2) /\ AreBytes(e, 4)
      /\ AreBytes(f, 4)
  BY <1>1 DEF AreBytes
<1>3. Hdr(type, len, seq, crc) = a \o b \o c \o d \o e \o f
  BY DEF Hdr
<1> HIDE DEF a, b, c, d, e, f
<1>4. AreBytes(a \o b, 3)
  BY <1>2, BytesOfBoth
<1>5. AreBytes(a \o b \o c, 4)
  BY <1>2, <1>4, BytesOfBoth
<1>6. AreBytes(a \o b \o c \o d, 6)
  BY <1>2, <1>5, BytesOfBoth
<1>7. AreBytes(a \o b \o c \o d \o e, 10)
  BY <1>2, <1>6, BytesOfBoth
<1>8. AreBytes(a \o b \o c \o d \o e \o f, 14)
  BY <1>2, <1>7, BytesOfBoth
<1> QED
  BY <1>3, <1>8 DEF HdrSize, AreBytes

\* What the firmware's reader finds in a reused buffer is what the plant's finds
\* in a buffer of its own.
LEMMA VerdictsAgree ==
  ASSUME NEW msg \in Seq(Byte), NEW rest \in Seq(Byte)
  PROVE  UnpackMsg(msg \o rest, Len(msg)) = UnpackMsgPy(msg)
<1> DEFINE buf == msg \o rest
           n == Len(msg)
           h == HdrOf(buf)
           hpy == HdrOf(msg)
           body == SubSeq(buf, HdrSize + 1, HdrSize + h.len)
           bodypy == SubSeq(msg, HdrSize + 1, HdrSize + hpy.len)
           hdr == Hdr(h.type, h.len, h.seq, {})
           hdrpy == Hdr(hpy.type, hpy.len, hpy.seq, {})
           crc == Crc32Final(Crc32Update(Crc32Update(Ones, hdr), body))
           crcpy == ZlibCrc32(hdrpy \o bodypy)
           whole == n >= HdrSize /\ h.magic = kMagic /\ h.ver = kProtoVersion /\ HdrSize + h.len <= n
           wholepy == /\ n >= HdrSize /\ hpy.magic = kMagic /\ hpy.ver = kProtoVersion
                      /\ HdrSize + hpy.len <= n
<1>1. UnpackMsg(buf, n) = IF whole /\ crc = h.crc THEN Accepted(h, body) ELSE Refused
  BY DEF UnpackMsg
<1>2. UnpackMsgPy(msg) = IF wholepy /\ crcpy = hpy.crc THEN Accepted(hpy, bodypy) ELSE Refused
  BY DEF UnpackMsgPy
<1>3. n \in Nat /\ HdrSize = 14 /\ SameFront(buf, msg, n)
  BY DEF SameFront, HdrSize
<1>4. CASE n < HdrSize
  <2> HIDE DEF h, hpy, body, bodypy, hdr, hdrpy, crc, crcpy, n, buf
  <2>1. ~whole /\ ~wholepy
    BY <1>3, <1>4
  <2> HIDE DEF whole, wholepy
  <2>2. UnpackMsg(buf, n) = UnpackMsgPy(msg)
    BY <1>1, <1>2, <2>1
  <2> QED
    BY <2>2 DEF buf, n
<1>5. CASE n >= HdrSize
  <2>1. SameFront(buf, msg, HdrSize)
    BY <1>3, <1>5 DEF SameFront
  <2>2. h = hpy
    BY <2>1, SameHdr
  <2>3. hdr = hdrpy /\ hdr \in Seq(Byte)
    BY <2>2, HdrType
  <2>4. h.len \in Nat
    BY NumberType DEF HdrOf
  <2> HIDE DEF h, hpy, hdr, hdrpy
  <2>5. HdrSize + h.len <= n => body = bodypy /\ body \in Seq(Byte)
    <3>1. SUFFICES ASSUME HdrSize + h.len <= n PROVE body = bodypy /\ body \in Seq(Byte)
      OBVIOUS
    <3> DEFINE k == HdrSize + h.len
    <3>2. k \in Nat /\ HdrSize \in Nat /\ k <= n
      BY <2>4, <1>3, <3>1
    <3> HIDE DEF buf, n, k
    <3>3. /\ SubSeq(buf, HdrSize + 1, k) = SubSeq(msg, HdrSize + 1, k)
          /\ SubSeq(buf, HdrSize + 1, k) \in Seq(Byte)
      <4>1. SameFront(buf, msg, n)
        BY <1>3
      <4>2. \A l, m \in Nat : m <= n =>
              /\ SubSeq(buf, l + 1, m) = SubSeq(msg, l + 1, m)
              /\ SubSeq(buf, l + 1, m) \in Seq(Byte)
        BY <4>1, SameFrontPieces
      <4> QED
        BY <3>2, <4>2
    <3> QED
      BY <2>2, <3>3 DEF k
  <2> HIDE DEF body, bodypy, buf, n
  <2>6. HdrSize + h.len <= n => crc = crcpy
    <3>1. SUFFICES ASSUME HdrSize + h.len <= n PROVE crc = crcpy
      OBVIOUS
    <3>2. Crc32Update(Crc32Update(Ones, hdr), body) = Crc32Update(Ones, hdr \o body)
      BY <2>3, <2>5, <3>1, CrcOfParts
    <3>3. hdr \o body \in Seq(Byte)
      BY <2>3, <2>5, <3>1
    <3>4. Crc32Final(Crc32Update(Ones, hdr \o body)) = ZlibCrc32(hdr \o body)
      BY <3>3, SameCrc
    <3> QED
      BY <2>3, <2>5, <3>1, <3>2, <3>4
  <2>7. whole <=> wholepy
    BY <2>2
  <2>8. whole => HdrSize + h.len <= n
    OBVIOUS
  <2>9. UnpackMsg(buf, n) = IF whole /\ crc = h.crc THEN Accepted(h, body) ELSE Refused
    BY <1>1
  <2>10. UnpackMsgPy(msg) = IF wholepy /\ crcpy = hpy.crc THEN Accepted(hpy, bodypy) ELSE Refused
    BY <1>2
  <2> HIDE DEF whole, wholepy, crc, crcpy
  <2>11. UnpackMsg(buf, n) = UnpackMsgPy(msg)
    BY <2>2, <2>5, <2>6, <2>7, <2>8, <2>9, <2>10
  <2> QED
    BY <2>11 DEF buf, n
<1> QED
  BY <1>3, <1>4, <1>5

-----------------------------------------------------------------------------
(* What the header says.                                                   *)

OfWidth(word, w) == word \subseteq 0..(8 * w - 1)

LEMMA BytesAreRead ==
  ASSUME NEW w \in 1..4, NEW word, OfWidth(word, w)
  PROVE  OfBytes(ToBytes(word, w)) = word
<1> DEFINE bytes == ToBytes(word, w)
<1>1. Len(bytes) = w
  BY ToBytesType
<1>2. ASSUME NEW p \in 0..(8 * w - 1) PROVE p % 8 \in bytes[1 + p \div 8] <=> p \in word
  <2>1. 1 + p \div 8 \in 1..w /\ p % 8 \in 0..7 /\ 8 * (p \div 8) + (p % 8) = p
    OBVIOUS
  <2> DEFINE j == 1 + p \div 8
  <2>2. bytes[j] = {b \in 0..7 : 8 * (j - 1) + b \in word}
    BY <2>1 DEF ToBytes
  <2>3. 8 * (j - 1) + (p % 8) = p
    BY <2>1
  <2> HIDE DEF bytes, j
  <2>4. p % 8 \in bytes[j] <=> p \in word
    BY <2>1, <2>2, <2>3
  <2> QED
    BY <2>4 DEF j
<1>3. OfBytes(bytes) = {p \in 0..(8 * w - 1) : p % 8 \in bytes[1 + p \div 8]}
  BY <1>1 DEF OfBytes
<1> HIDE DEF bytes
<1>4. OfBytes(bytes) = word
  BY <1>2, <1>3 DEF OfWidth
<1> QED
  BY <1>4 DEF bytes

LEMMA Halved ==
  \A u \in Nat : u \div 2 \in Nat /\ u = 2 * (u \div 2) + (u % 2) /\ (u % 2 = 0 \/ u % 2 = 1)
OBVIOUS

Weight(n, i) == IF (n \div 2^(i - 1)) % 2 = 1 THEN 2^(i - 1) ELSE 0

LEMMA WeightIs ==
  ASSUME NEW n \in Nat, NEW i \in 1..16
  PROVE  Weights(Word(n, 16))[i] = Weight(n, i)
<1> DEFINE p == 2^(i - 1)
           one == (n \div p) % 2 = 1
<1>1. i - 1 \in Word(n, 16) <=> one
  BY DEF Word
<1>2. Weights(Word(n, 16))[i] = IF i - 1 \in Word(n, 16) THEN p ELSE 0
  BY DEF Weights
<1>3. Weight(n, i) = IF one THEN p ELSE 0
  BY DEF Weight
<1> HIDE DEF p, one
<1> QED
  BY <1>1, <1>2, <1>3

Ends(E, widths) == E[0] = 0 /\ \A i \in 1..Len(widths) : E[i] = E[i - 1] + widths[i]

LEMMA EndsTell == \A widths \in Seq(Nat) : \A E : E = Running(Plus, 0, widths) => Ends(E, widths)
<1> SUFFICES ASSUME NEW widths \in Seq(Nat), NEW E, E = Running(Plus, 0, widths)
             PROVE  Ends(E, widths)
  OBVIOUS
<1>1. E[0] = 0 /\ \A i \in 1..Len(widths) : E[i] = E[i - 1] + widths[i]
  BY EndsAre
<1> QED
  BY <1>1 DEF Ends

LEMMA NumberIsRead ==
  ASSUME NEW n \in Nat, n < 65536
  PROVE  Number(Word(n, 16)) = n
<1> DEFINE W == Weights(Word(n, 16))
           E == Running(Plus, 0, W)
<1>1. W \in Seq(Nat) /\ Len(W) = 16
  BY WeightsType
<1>2. \A i \in 1..16 : W[i] = Weight(n, i)
  BY WeightIs
<1>3. Number(Word(n, 16)) = Overall(Plus, 0, W)
  BY DEF Number, Total, Weights
<1> HIDE DEF W
<1>0. E = Running(Plus, 0, W) /\ Overall(Plus, 0, W) = E[Len(W)]
  BY DEF Overall
<1> HIDE DEF E
<1>5. Ends(E, W)
  BY <1>0, <1>1, EndsTell
<1>6. E[0] = 0 /\ \A i \in 1..Len(W) : E[i] = E[i - 1] + W[i]
  BY <1>5 DEF Ends
<1>4. \A i \in 1..16 : E[i] = E[i - 1] + Weight(n, i)
  BY <1>1, <1>2, <1>6
<1> DEFINE D(p) == n \div p
           Bit(p) == (n \div p) % 2
<1>7. E[0] = n - 1 * D(1)
  <2>1. D(1) = n
    OBVIOUS
  <2> QED
    BY <1>6, <2>1
<1>8. E[1] = n - 2 * D(2)
  <2>0. E[1] = E[0] + Weight(n, 1)
    BY <1>4, 1 \in 1..16
  <2>1. Weight(n, 1) = IF Bit(1) = 1 THEN 1 ELSE 0
    BY DEF Weight
  <2>2. D(2) = D(1) \div 2 /\ D(1) \in Nat
    OBVIOUS
  <2>3. D(1) = 2 * D(2) + Bit(1) /\ (Bit(1) = 0 \/ Bit(1) = 1) /\ D(2) \in Nat
    BY <2>2, Halved
  <2> HIDE DEF D, Bit
  <2> QED
    BY <1>7, <2>0, <2>1, <2>2, <2>3
<1>9. E[2] = n - 4 * D(4)
  <2>0. E[2] = E[1] + Weight(n, 2)
    BY <1>4, 2 \in 1..16
  <2>1. Weight(n, 2) = IF Bit(2) = 1 THEN 2 ELSE 0
    BY DEF Weight
  <2>2. D(4) = D(2) \div 2 /\ D(2) \in Nat
    OBVIOUS
  <2>3. D(2) = 2 * D(4) + Bit(2) /\ (Bit(2) = 0 \/ Bit(2) = 1) /\ D(4) \in Nat
    BY <2>2, Halved
  <2> HIDE DEF D, Bit
  <2> QED
    BY <1>8, <2>0, <2>1, <2>2, <2>3
<1>10. E[3] = n - 8 * D(8)
  <2>0. E[3] = E[2] + Weight(n, 3)
    BY <1>4, 3 \in 1..16
  <2>1. Weight(n, 3) = IF Bit(4) = 1 THEN 4 ELSE 0
    BY DEF Weight
  <2>2. D(8) = D(4) \div 2 /\ D(4) \in Nat
    OBVIOUS
  <2>3. D(4) = 2 * D(8) + Bit(4) /\ (Bit(4) = 0 \/ Bit(4) = 1) /\ D(8) \in Nat
    BY <2>2, Halved
  <2> HIDE DEF D, Bit
  <2> QED
    BY <1>9, <2>0, <2>1, <2>2, <2>3
<1>11. E[4] = n - 16 * D(16)
  <2>0. E[4] = E[3] + Weight(n, 4)
    BY <1>4, 4 \in 1..16
  <2>1. Weight(n, 4) = IF Bit(8) = 1 THEN 8 ELSE 0
    BY DEF Weight
  <2>2. D(16) = D(8) \div 2 /\ D(8) \in Nat
    OBVIOUS
  <2>3. D(8) = 2 * D(16) + Bit(8) /\ (Bit(8) = 0 \/ Bit(8) = 1) /\ D(16) \in Nat
    BY <2>2, Halved
  <2> HIDE DEF D, Bit
  <2> QED
    BY <1>10, <2>0, <2>1, <2>2, <2>3
<1>12. E[5] = n - 32 * D(32)
  <2>0. E[5] = E[4] + Weight(n, 5)
    BY <1>4, 5 \in 1..16
  <2>1. Weight(n, 5) = IF Bit(16) = 1 THEN 16 ELSE 0
    BY DEF Weight
  <2>2. D(32) = D(16) \div 2 /\ D(16) \in Nat
    OBVIOUS
  <2>3. D(16) = 2 * D(32) + Bit(16) /\ (Bit(16) = 0 \/ Bit(16) = 1) /\ D(32) \in Nat
    BY <2>2, Halved
  <2> HIDE DEF D, Bit
  <2> QED
    BY <1>11, <2>0, <2>1, <2>2, <2>3
<1>13. E[6] = n - 64 * D(64)
  <2>0. E[6] = E[5] + Weight(n, 6)
    BY <1>4, 6 \in 1..16
  <2>1. Weight(n, 6) = IF Bit(32) = 1 THEN 32 ELSE 0
    BY DEF Weight
  <2>2. D(64) = D(32) \div 2 /\ D(32) \in Nat
    OBVIOUS
  <2>3. D(32) = 2 * D(64) + Bit(32) /\ (Bit(32) = 0 \/ Bit(32) = 1) /\ D(64) \in Nat
    BY <2>2, Halved
  <2> HIDE DEF D, Bit
  <2> QED
    BY <1>12, <2>0, <2>1, <2>2, <2>3
<1>14. E[7] = n - 128 * D(128)
  <2>0. E[7] = E[6] + Weight(n, 7)
    BY <1>4, 7 \in 1..16
  <2>1. Weight(n, 7) = IF Bit(64) = 1 THEN 64 ELSE 0
    BY DEF Weight
  <2>2. D(128) = D(64) \div 2 /\ D(64) \in Nat
    OBVIOUS
  <2>3. D(64) = 2 * D(128) + Bit(64) /\ (Bit(64) = 0 \/ Bit(64) = 1) /\ D(128) \in Nat
    BY <2>2, Halved
  <2> HIDE DEF D, Bit
  <2> QED
    BY <1>13, <2>0, <2>1, <2>2, <2>3
<1>15. E[8] = n - 256 * D(256)
  <2>0. E[8] = E[7] + Weight(n, 8)
    BY <1>4, 8 \in 1..16
  <2>1. Weight(n, 8) = IF Bit(128) = 1 THEN 128 ELSE 0
    BY DEF Weight
  <2>2. D(256) = D(128) \div 2 /\ D(128) \in Nat
    OBVIOUS
  <2>3. D(128) = 2 * D(256) + Bit(128) /\ (Bit(128) = 0 \/ Bit(128) = 1) /\ D(256) \in Nat
    BY <2>2, Halved
  <2> HIDE DEF D, Bit
  <2> QED
    BY <1>14, <2>0, <2>1, <2>2, <2>3
<1>16. E[9] = n - 512 * D(512)
  <2>0. E[9] = E[8] + Weight(n, 9)
    BY <1>4, 9 \in 1..16
  <2>1. Weight(n, 9) = IF Bit(256) = 1 THEN 256 ELSE 0
    BY DEF Weight
  <2>2. D(512) = D(256) \div 2 /\ D(256) \in Nat
    OBVIOUS
  <2>3. D(256) = 2 * D(512) + Bit(256) /\ (Bit(256) = 0 \/ Bit(256) = 1) /\ D(512) \in Nat
    BY <2>2, Halved
  <2> HIDE DEF D, Bit
  <2> QED
    BY <1>15, <2>0, <2>1, <2>2, <2>3
<1>17. E[10] = n - 1024 * D(1024)
  <2>0. E[10] = E[9] + Weight(n, 10)
    BY <1>4, 10 \in 1..16
  <2>1. Weight(n, 10) = IF Bit(512) = 1 THEN 512 ELSE 0
    BY DEF Weight
  <2>2. D(1024) = D(512) \div 2 /\ D(512) \in Nat
    OBVIOUS
  <2>3. D(512) = 2 * D(1024) + Bit(512) /\ (Bit(512) = 0 \/ Bit(512) = 1) /\ D(1024) \in Nat
    BY <2>2, Halved
  <2> HIDE DEF D, Bit
  <2> QED
    BY <1>16, <2>0, <2>1, <2>2, <2>3
<1>18. E[11] = n - 2048 * D(2048)
  <2>0. E[11] = E[10] + Weight(n, 11)
    BY <1>4, 11 \in 1..16
  <2>1. Weight(n, 11) = IF Bit(1024) = 1 THEN 1024 ELSE 0
    BY DEF Weight
  <2>2. D(2048) = D(1024) \div 2 /\ D(1024) \in Nat
    OBVIOUS
  <2>3. D(1024) = 2 * D(2048) + Bit(1024) /\ (Bit(1024) = 0 \/ Bit(1024) = 1) /\ D(2048) \in Nat
    BY <2>2, Halved
  <2> HIDE DEF D, Bit
  <2> QED
    BY <1>17, <2>0, <2>1, <2>2, <2>3
<1>19. E[12] = n - 4096 * D(4096)
  <2>0. E[12] = E[11] + Weight(n, 12)
    BY <1>4, 12 \in 1..16
  <2>1. Weight(n, 12) = IF Bit(2048) = 1 THEN 2048 ELSE 0
    BY DEF Weight
  <2>2. D(4096) = D(2048) \div 2 /\ D(2048) \in Nat
    OBVIOUS
  <2>3. D(2048) = 2 * D(4096) + Bit(2048) /\ (Bit(2048) = 0 \/ Bit(2048) = 1) /\ D(4096) \in Nat
    BY <2>2, Halved
  <2> HIDE DEF D, Bit
  <2> QED
    BY <1>18, <2>0, <2>1, <2>2, <2>3
<1>20. E[13] = n - 8192 * D(8192)
  <2>0. E[13] = E[12] + Weight(n, 13)
    BY <1>4, 13 \in 1..16
  <2>1. Weight(n, 13) = IF Bit(4096) = 1 THEN 4096 ELSE 0
    BY DEF Weight
  <2>2. D(8192) = D(4096) \div 2 /\ D(4096) \in Nat
    OBVIOUS
  <2>3. D(4096) = 2 * D(8192) + Bit(4096) /\ (Bit(4096) = 0 \/ Bit(4096) = 1) /\ D(8192) \in Nat
    BY <2>2, Halved
  <2> HIDE DEF D, Bit
  <2> QED
    BY <1>19, <2>0, <2>1, <2>2, <2>3
<1>21. E[14] = n - 16384 * D(16384)
  <2>0. E[14] = E[13] + Weight(n, 14)
    BY <1>4, 14 \in 1..16
  <2>1. Weight(n, 14) = IF Bit(8192) = 1 THEN 8192 ELSE 0
    BY DEF Weight
  <2>2. D(16384) = D(8192) \div 2 /\ D(8192) \in Nat
    OBVIOUS
  <2>3. D(8192) = 2 * D(16384) + Bit(8192) /\ (Bit(8192) = 0 \/ Bit(8192) = 1) /\ D(16384) \in Nat
    BY <2>2, Halved
  <2> HIDE DEF D, Bit
  <2> QED
    BY <1>20, <2>0, <2>1, <2>2, <2>3
<1>22. E[15] = n - 32768 * D(32768)
  <2>0. E[15] = E[14] + Weight(n, 15)
    BY <1>4, 15 \in 1..16
  <2>1. Weight(n, 15) = IF Bit(16384) = 1 THEN 16384 ELSE 0
    BY DEF Weight
  <2>2. D(32768) = D(16384) \div 2 /\ D(16384) \in Nat
    OBVIOUS
  <2>3. D(16384) = 2 * D(32768) + Bit(16384) /\ (Bit(16384) = 0 \/ Bit(16384) = 1) /\ D(32768) \in Nat
    BY <2>2, Halved
  <2> HIDE DEF D, Bit
  <2> QED
    BY <1>21, <2>0, <2>1, <2>2, <2>3
<1>23. E[16] = n - 65536 * D(65536)
  <2>0. E[16] = E[15] + Weight(n, 16)
    BY <1>4, 16 \in 1..16
  <2>1. Weight(n, 16) = IF Bit(32768) = 1 THEN 32768 ELSE 0
    BY DEF Weight
  <2>2. D(65536) = D(32768) \div 2 /\ D(32768) \in Nat
    OBVIOUS
  <2>3. D(32768) = 2 * D(65536) + Bit(32768) /\ (Bit(32768) = 0 \/ Bit(32768) = 1) /\ D(65536) \in Nat
    BY <2>2, Halved
  <2> HIDE DEF D, Bit
  <2> QED
    BY <1>22, <2>0, <2>1, <2>2, <2>3
<1>24. D(65536) = 0
  OBVIOUS
<1> HIDE DEF D
<1> QED
  BY <1>0, <1>1, <1>3, <1>23, <1>24

HdrParts(type, len, seq, crc) ==
  <<ToBytes(kMagic, 2), ToBytes(kProtoVersion, 1), ToBytes(type, 1), ToBytes(Word(len, 16), 2),
    ToBytes(seq, 4), ToBytes(crc, 4)>>

HdrRecord(type, len, seq, crc) ==
  [magic |-> kMagic, ver |-> kProtoVersion, type |-> type, len |-> len, seq |-> seq, crc |-> crc]

Catted(a, b) == a \o b

LEMMA FlatOfSix ==
  ASSUME NEW parts \in Seq(Seq(Byte)), Len(parts) = 6
  PROVE  Flat(Byte, parts)
           = parts[1] \o parts[2] \o parts[3] \o parts[4] \o parts[5] \o parts[6]
<1> DEFINE R == Running(Cat(Byte), <<>>, parts)
<1>1. JoinsUp(R, Byte, <<>>, parts) /\ Flat(Byte, parts) = R[6]
  <2>1. <<>> \in Seq(Byte)
    OBVIOUS
  <2> QED
    BY <2>1, FlatSteps, FlatIsLast
<1> HIDE DEF R
<1>2. R[0] = <<>> /\ \A i \in 1..6 : \A j \in 0..5 : j = i - 1 => R[i] = Catted(R[j], parts[i])
  BY <1>1 DEF JoinsUp, Catted
<1>3. parts[1] \in Seq(Byte)
  OBVIOUS
<1>4. R[1] = parts[1]
  <2>1. R[1] = Catted(R[0], parts[1])
    BY <1>2
  <2>2. R[0] = <<>>
    BY <1>2
  <2> QED
    BY <1>3, <2>1, <2>2 DEF Catted
<1>5. R[2] = Catted(parts[1], parts[2])
  BY <1>2, <1>4
<1>6. R[3] = Catted(Catted(parts[1], parts[2]), parts[3])
  BY <1>2, <1>5
<1>7. R[4] = Catted(Catted(Catted(parts[1], parts[2]), parts[3]), parts[4])
  BY <1>2, <1>6
<1>8. R[5] = Catted(Catted(Catted(Catted(parts[1], parts[2]), parts[3]), parts[4]), parts[5])
  BY <1>2, <1>7
<1>9. R[6] = Catted(Catted(Catted(Catted(Catted(parts[1], parts[2]), parts[3]), parts[4]), parts[5]), parts[6])
  BY <1>2, <1>8
<1> QED
  BY <1>1, <1>9 DEF Catted

HdrFits(type, len, seq, crc) ==
  type \subseteq 0..7 /\ len \in Nat /\ len < 65536 /\ seq \subseteq Ones /\ crc \subseteq Ones

LEMMA HdrIsRead ==
  ASSUME NEW type, NEW len, NEW seq, NEW crc, HdrFits(type, len, seq, crc), NEW payload \in Seq(Byte)
  PROVE  HdrOf(Hdr(type, len, seq, crc) \o payload) = HdrRecord(type, len, seq, crc)
<1> DEFINE parts == HdrParts(type, len, seq, crc)
           hdr == Hdr(type, len, seq, crc)
<1>1. /\ AreBytes(parts[1], 2) /\ AreBytes(parts[2], 1) /\ AreBytes(parts[3], 1)
      /\ AreBytes(parts[4], 2) /\ AreBytes(parts[5], 4) /\ AreBytes(parts[6], 4)
  <2>1. \A word : \A w \in Nat : AreBytes(ToBytes(word, w), w)
    BY ToBytesType DEF AreBytes
  <2> QED
    BY <2>1 DEF HdrParts
<1>2. /\ OfBytes(parts[1]) = kMagic /\ OfBytes(parts[2]) = kProtoVersion /\ OfBytes(parts[3]) = type
      /\ OfBytes(parts[4]) = Word(len, 16) /\ OfBytes(parts[5]) = seq /\ OfBytes(parts[6]) = crc
  <2>1. OfBytes(ToBytes(kMagic, 2)) = kMagic
    <3>1. OfWidth(kMagic, 2)
      BY DEF kMagic, OfWidth
    <3> QED
      BY <3>1, BytesAreRead
  <2>2. OfBytes(ToBytes(kProtoVersion, 1)) = kProtoVersion
    <3>1. OfWidth(kProtoVersion, 1)
      BY DEF kProtoVersion, OfWidth
    <3> QED
      BY <3>1, BytesAreRead
  <2>3. OfBytes(ToBytes(type, 1)) = type
    <3>1. OfWidth(type, 1)
      BY DEF OfWidth, HdrFits
    <3> QED
      BY <3>1, BytesAreRead
  <2>4. OfBytes(ToBytes(Word(len, 16), 2)) = Word(len, 16)
    <3>1. OfWidth(Word(len, 16), 2)
      BY DEF Word, OfWidth, HdrFits
    <3> QED
      BY <3>1, BytesAreRead
  <2>5. OfBytes(ToBytes(seq, 4)) = seq /\ OfBytes(ToBytes(crc, 4)) = crc
    <3>1. OfWidth(seq, 4) /\ OfWidth(crc, 4)
      BY DEF Ones, OfWidth, HdrFits
    <3> QED
      BY <3>1, BytesAreRead
  <2>6. /\ parts[1] = ToBytes(kMagic, 2) /\ parts[2] = ToBytes(kProtoVersion, 1)
        /\ parts[3] = ToBytes(type, 1) /\ parts[4] = ToBytes(Word(len, 16), 2)
        /\ parts[5] = ToBytes(seq, 4) /\ parts[6] = ToBytes(crc, 4)
    BY DEF HdrParts
  <2> HIDE DEF parts
  <2> QED
    BY <2>1, <2>2, <2>3, <2>4, <2>5, <2>6
<1>3. parts \in Seq(Seq(Byte)) /\ Len(parts) = 6
  <2>1. Len(parts) = 6 /\ parts = [i \in 1..6 |-> parts[i]]
    BY DEF HdrParts
  <2> HIDE DEF parts
  <2>2. \A i \in 1..6 : parts[i] \in Seq(Byte)
    <3> SUFFICES ASSUME NEW i \in 1..6 PROVE parts[i] \in Seq(Byte)
      OBVIOUS
    <3>1. i = 1 \/ i = 2 \/ i = 3 \/ i = 4 \/ i = 5 \/ i = 6
      OBVIOUS
    <3> QED
      BY <1>1, <3>1 DEF AreBytes
  <2> QED
    BY <2>1, <2>2
<1>4. hdr = parts[1] \o parts[2] \o parts[3] \o parts[4] \o parts[5] \o parts[6]
  BY DEF Hdr, HdrParts
<1> HIDE DEF parts, hdr
<1>5. hdr = Flat(Byte, parts)
  BY <1>3, <1>4, FlatOfSix
<1>6. WidthsOf(HdrFmt, parts)
  <2>1. HdrFmt \in Seq(Nat) /\ Len(HdrFmt) = 6
    BY DEF HdrFmt
  <2>2. /\ HdrFmt[1] = 2 /\ HdrFmt[2] = 1 /\ HdrFmt[3] = 1 /\ HdrFmt[4] = 2 /\ HdrFmt[5] = 4
        /\ HdrFmt[6] = 4
    BY DEF HdrFmt
  <2>4. /\ Len(parts[1]) = 2 /\ Len(parts[2]) = 1 /\ Len(parts[3]) = 1 /\ Len(parts[4]) = 2
        /\ Len(parts[5]) = 4 /\ Len(parts[6]) = 4
    BY <1>1 DEF AreBytes
  <2>3. \A i \in 1..6 : HdrFmt[i] = Len(parts[i])
    <3> DEFINE L(i) == Len(parts[i])
    <3>1. /\ HdrFmt[1] = L(1) /\ HdrFmt[2] = L(2) /\ HdrFmt[3] = L(3) /\ HdrFmt[4] = L(4)
          /\ HdrFmt[5] = L(5) /\ HdrFmt[6] = L(6)
      BY <2>2, <2>4
    <3> HIDE DEF L
    <3>2. ASSUME NEW i \in 1..6 PROVE HdrFmt[i] = L(i)
      <4>1. i = 1 \/ i = 2 \/ i = 3 \/ i = 4 \/ i = 5 \/ i = 6
        OBVIOUS
      <4> QED
        BY <3>1, <4>1
    <3> QED
      BY <3>2 DEF L
  <2> QED
    BY <1>3, <2>1, <2>3 DEF WidthsOf
<1>7. \A i \in 1..6 : Cut(hdr, HdrFmt)[i] = parts[i]
  <2>1. Len(HdrFmt) = 6
    BY DEF HdrFmt
  <2>2. \A i \in 1..Len(HdrFmt) : Cut(Flat(Byte, parts), HdrFmt)[i] = parts[i]
    BY <1>3, <1>6, CutOfFlat
  <2> QED
    BY <1>5, <2>1, <2>2
<1>8. AreBytes(hdr, HdrSize)
  BY HdrType DEF AreBytes, hdr
<1>9. HdrOf(hdr \o payload) = HdrOf(hdr)
  <2>1. hdr \in Seq(Byte) /\ Len(hdr) = HdrSize /\ HdrSize \in Nat
    BY <1>8 DEF AreBytes, HdrSize
  <2>3. hdr \o payload \in Seq(Byte) /\ Len(hdr \o payload) = Len(hdr) + Len(payload)
    BY <2>1
  <2>4. \A i \in 1..Len(hdr) : (hdr \o payload)[i] = hdr[i]
    BY <2>1, AfterEachOther
  <2>2. SameFront(hdr \o payload, hdr, HdrSize)
    BY <2>1, <2>3, <2>4 DEF SameFront
  <2> QED
    BY <2>2, SameHdr
<1>10. Number(Word(len, 16)) = len
  BY NumberIsRead DEF HdrFits
<1>11. HdrOf(hdr) = HdrRecord(type, len, seq, crc)
  <2> DEFINE f == [i \in DOMAIN HdrFmt |-> OfBytes(Cut(hdr, HdrFmt)[i])]
  <2>1. \A i \in 1..6 : f[i] = OfBytes(parts[i])
    <3>1. DOMAIN HdrFmt = 1..6
      BY DEF HdrFmt
    <3> QED
      BY <1>7, <3>1
  <2>2. HdrOf(hdr) = [magic |-> f[1], ver |-> f[2], type |-> f[3], len |-> Number(f[4]),
                      seq |-> f[5], crc |-> f[6]]
    BY DEF HdrOf
  <2> HIDE DEF f
  <2>3. /\ f[1] = kMagic /\ f[2] = kProtoVersion /\ f[3] = type /\ f[4] = Word(len, 16)
        /\ f[5] = seq /\ f[6] = crc
    BY <1>2, <2>1
  <2> QED
    BY <1>10, <2>2, <2>3 DEF HdrRecord
<1> QED
  BY <1>9, <1>11 DEF hdr

IsWord(word) == word \subseteq Ones

LEMMA CrcType == \A data \in Seq(Byte) : IsWord(ZlibCrc32(data))
<1> SUFFICES ASSUME NEW data \in Seq(Byte) PROVE ZlibCrc32(data) \subseteq Ones
  BY DEF IsWord
<1>1. Runs(BitStep, Ones, data, SUBSET Ones, Byte)
  BY BitStepType DEF Runs
<1>2. Overall(BitStep, Ones, data) \in SUBSET Ones
  BY <1>1, OverallType
<1> QED
  BY <1>2 DEF ZlibCrc32, SymDiff

\* What either side makes of a payload is the same message, and is accepted.
LEMMA SamePacked ==
  ASSUME NEW type, NEW seq, NEW payload \in Seq(Byte)
  PROVE  /\ PackMsg(type, seq, payload) = PackMsgPy(type, seq, payload)
         /\ PackMsgPy(type, seq, payload) \in Seq(Byte)
         /\ Len(PackMsgPy(type, seq, payload)) = HdrSize + Len(payload)
<1> DEFINE hdr == Hdr(type, Len(payload), seq, {})
           crc == ZlibCrc32(hdr \o payload)
           full == Hdr(type, Len(payload), seq, crc)
<1>1. hdr \in Seq(Byte) /\ full \in Seq(Byte) /\ Len(full) = HdrSize
  BY HdrType
<1>2. hdr \o payload \in Seq(Byte)
  BY <1>1
<1>3. Crc32Final(Crc32Update(Ones, hdr \o payload)) = crc
  BY <1>2, SameCrc
<1>4. PackMsg(type, seq, payload) = full \o payload
  BY <1>3 DEF PackMsg
<1>5. PackMsgPy(type, seq, payload) = full \o payload
  BY DEF PackMsgPy
<1> HIDE DEF full, crc, hdr
<1>6. full \o payload \in Seq(Byte) /\ Len(full \o payload) = Len(full) + Len(payload)
  BY <1>1, AfterEachOther
<1> QED
  BY <1>1, <1>4, <1>5, <1>6

LEMMA IntactIsAccepted ==
  ASSUME NEW type, OfWidth(type, 1), NEW seq, IsWord(seq), NEW payload \in Seq(Byte),
         Len(payload) < 65536
  PROVE  UnpackMsgPy(PackMsgPy(type, seq, payload))
           = [ok |-> TRUE, type |-> type, seq |-> seq, body |-> payload]
<1> DEFINE len == Len(payload)
           hdr == Hdr(type, len, seq, {})
           data == hdr \o payload
           crc == ZlibCrc32(data)
           full == Hdr(type, len, seq, crc)
           msg == full \o payload
           h == HdrOf(msg)
           body == SubSeq(msg, HdrSize + 1, HdrSize + h.len)
<1>1. hdr \in Seq(Byte) /\ full \in Seq(Byte) /\ Len(full) = HdrSize
  BY HdrType
<1>2. IsWord(crc)
  <2> HIDE DEF hdr
  <2>1. data \in Seq(Byte)
    BY <1>1, AfterEachOther
  <2> HIDE DEF data
  <2> QED
    BY <2>1, CrcType
<1>3. h = HdrRecord(type, len, seq, crc)
  <2>1. len \in Nat /\ len < 65536
    OBVIOUS
  <2> HIDE DEF crc, len
  <2>2. HdrFits(type, len, seq, crc)
    BY <1>2, <2>1 DEF HdrFits, IsWord, OfWidth
  <2>3. \A p \in Seq(Byte) : HdrOf(Hdr(type, len, seq, crc) \o p) = HdrRecord(type, len, seq, crc)
    BY <2>2, HdrIsRead
  <2> QED
    BY <2>3
<1>4. PackMsgPy(type, seq, payload) = msg
  BY DEF PackMsgPy
<1>5. UnpackMsgPy(msg) =
        IF Len(msg) >= HdrSize /\ h.magic = kMagic /\ h.ver = kProtoVersion
           /\ HdrSize + h.len <= Len(msg)
           /\ ZlibCrc32(Hdr(h.type, h.len, h.seq, {}) \o body) = h.crc
        THEN Accepted(h, body) ELSE Refused
  BY DEF UnpackMsgPy
<1> HIDE DEF h, full
<1>6. Len(msg) = HdrSize + len
  <2> HIDE DEF hdr
  <2>2. full \in Seq(Byte)
    BY <1>1
  <2>1. Len(msg) = Len(full) + Len(payload)
    BY <2>2, AfterEachOther
  <2> HIDE DEF msg
  <2> QED
    BY <1>1, <2>1
<1>7. /\ h.magic = kMagic /\ h.ver = kProtoVersion /\ h.type = type /\ h.len = len /\ h.seq = seq
      /\ h.crc = crc
  BY <1>3 DEF HdrRecord
<1>8. body = payload
  <2>1. body = SubSeq(msg, Len(full) + 1, Len(full) + Len(payload))
    <3> HIDE DEF msg
    <3> QED
      BY <1>1, <1>7 DEF body
  <2>2. SubSeq(msg, Len(full) + 1, Len(full) + Len(payload)) = payload
    BY <1>1, BackOf
  <2> HIDE DEF body, msg
  <2> QED
    BY <2>1, <2>2
<1> HIDE DEF body, crc, msg, data, hdr
<1>9. ZlibCrc32(Hdr(h.type, h.len, h.seq, {}) \o body) = h.crc
  BY <1>7, <1>8 DEF crc, data, hdr
<1>10. HdrSize \in Nat /\ len \in Nat
  BY DEF HdrSize
<1>11. UnpackMsgPy(msg) = Accepted(h, body)
  BY <1>5, <1>6, <1>7, <1>9, <1>10
<1> QED
  BY <1>4, <1>7, <1>8, <1>11 DEF Accepted

-----------------------------------------------------------------------------
(* The sizes of the structs and of the formats.                            *)

LEMMA TotalFrom ==
  ASSUME NEW x \in Nat, NEW b \in Seq(Nat)
  PROVE  Overall(Plus, x, b) = x + Total(b)
<1> DEFINE n == Len(b)
           R == Running(Plus, x, b)
           E == Running(Plus, 0, b)
           set == {i \in 0..n : R[i] = x + E[i]}
<1>1. R \in [0..n -> Nat] /\ R[0] = x /\ \A i \in 1..n : R[i] = Do(Plus, R[i - 1], b[i])
  <2>1. Runs(Plus, x, b, Nat, Nat)
    BY DEF Runs, Plus
  <2>2. Solves(R, Len(b), Plus, x, b, Nat)
    BY <2>1, RunningIs
  <2> QED
    BY <2>2 DEF Solves
<1>2. E \in [0..n -> Nat] /\ E[0] = 0 /\ \A i \in 1..n : E[i] = E[i - 1] + b[i]
  BY EndsAre
<1>3. Overall(Plus, x, b) = R[n] /\ Total(b) = E[n]
  BY DEF Overall, Total
<1>4. n \in Nat /\ \A i \in 1..n : b[i] \in Nat
  OBVIOUS
<1> HIDE DEF R, E, n
<1>5. 0 \in set
  BY <1>1, <1>2, <1>4
<1>6. \A i \in 0..n : i > 0 /\ i - 1 \in set => i \in set
  <2> SUFFICES ASSUME NEW i \in 0..n, i > 0, i - 1 \in set PROVE R[i] = x + E[i]
    OBVIOUS
  <2>1. i \in 1..n /\ i - 1 \in 0..n /\ R[i - 1] = x + E[i - 1]
    BY <1>4
  <2>2. R[i - 1] \in Nat /\ E[i - 1] \in Nat /\ b[i] \in Nat
    BY <1>1, <1>2, <1>4, <2>1
  <2>3. R[i] = R[i - 1] + b[i]
    BY <1>1, <2>1, <2>2 DEF Do, Plus
  <2> QED
    BY <1>2, <2>1, <2>2, <2>3
<1> HIDE DEF set
<1>7. 0..n \subseteq set
  BY <1>4, <1>5, <1>6, UpwardInduction
<1>8. n \in set
  BY <1>4, <1>7
<1> QED
  BY <1>3, <1>8 DEF set

TotalIs(s, x) == s \in Seq(Nat) /\ Total(s) = x /\ x \in Nat

LEMMA TotalOfBoth ==
  ASSUME NEW a, NEW b, NEW x \in Nat, NEW y \in Nat, NEW z \in Nat, TotalIs(a, x), TotalIs(b, y),
         z = x + y
  PROVE  TotalIs(a \o b, z)
<1>6. a \in Seq(Nat) /\ b \in Seq(Nat)
  BY DEF TotalIs
<1>7. Plus \in [Nat \X Nat -> Nat]
  BY DEF Plus
<1>1. Runs(Plus, 0, a, Nat, Nat) /\ Runs(Plus, 0, b, Nat, Nat)
  BY <1>6, <1>7 DEF Runs
<1>2. Total(a \o b) = Overall(Plus, Total(a), b)
  BY <1>1, OverallOfBoth DEF Total
<1>3. Total(a) = x /\ Total(b) = y
  BY DEF TotalIs
<1>4. Overall(Plus, x, b) = x + y
  BY <1>3, <1>6, TotalFrom
<1>5. a \o b \in Seq(Nat)
  BY <1>6
<1> QED
  BY <1>1, <1>2, <1>3, <1>4, <1>5 DEF TotalIs

LEMMA TotalOfTimes ==
  ASSUME NEW k \in Nat, NEW w \in Nat, NEW x \in Nat, x = w * k
  PROVE  TotalIs(Times(k, w), x)
BY TimesType, TotalTimes DEF TotalIs

PartSum(s, i) == Running(Plus, 0, s)[i]

LEMMA PartSums ==
  ASSUME NEW s \in Seq(Nat)
  PROVE  /\ PartSum(s, 0) = 0 /\ Total(s) = PartSum(s, Len(s))
         /\ \A i \in 1..Len(s) : \A j : j = i - 1 => PartSum(s, i) = PartSum(s, j) + s[i]
<1>1. Ends(Running(Plus, 0, s), s)
  BY EndsTell
<1>2. Total(s) = PartSum(s, Len(s))
  BY DEF Total, Overall, PartSum
<1> QED
  BY <1>1, <1>2 DEF Ends, PartSum

LEMMA ImuSize == TotalIs(Extents(SilImu), 49)
<1> DEFINE s == Extents(SilImu)
<1>1. s = <<12, 12, 12, 4, 8, 1>>
  BY DEF Extents, SilImu, Member, Float, U8
<1> HIDE DEF s
<1>2. s \in Seq(Nat) /\ Len(s) = 6
  BY <1>1
<1>3. s[1] = 12 /\ s[2] = 12 /\ s[3] = 12 /\ s[4] = 4 /\ s[5] = 8 /\ s[6] = 1
  BY <1>1
<1>4. /\ PartSum(s, 0) = 0 /\ Total(s) = PartSum(s, 6)
      /\ \A i \in 1..6 : \A j : j = i - 1 => PartSum(s, i) = PartSum(s, j) + s[i]
  BY <1>2, PartSums
<1>5. PartSum(s, 1) = 12
  BY <1>3, <1>4
<1>6. PartSum(s, 2) = 24
  BY <1>3, <1>4, <1>5
<1>7. PartSum(s, 3) = 36
  BY <1>3, <1>4, <1>6
<1>8. PartSum(s, 4) = 40
  BY <1>3, <1>4, <1>7
<1>9. PartSum(s, 5) = 48
  BY <1>3, <1>4, <1>8
<1>10. PartSum(s, 6) = 49
  BY <1>3, <1>4, <1>9
<1>11. TotalIs(s, 49)
  BY <1>2, <1>4, <1>10 DEF TotalIs
<1> QED
  BY <1>11 DEF s

LEMMA RcSize == TotalIs(Extents(SilRc), 26)
<1> DEFINE s == Extents(SilRc)
<1>1. s = <<16, 1, 1, 8>>
  BY DEF Extents, SilRc, Member, U8
<1> HIDE DEF s
<1>2. s \in Seq(Nat) /\ Len(s) = 4
  BY <1>1
<1>3. s[1] = 16 /\ s[2] = 1 /\ s[3] = 1 /\ s[4] = 8
  BY <1>1
<1>4. /\ PartSum(s, 0) = 0 /\ Total(s) = PartSum(s, 4)
      /\ \A i \in 1..4 : \A j : j = i - 1 => PartSum(s, i) = PartSum(s, j) + s[i]
  BY <1>2, PartSums
<1>5. PartSum(s, 1) = 16
  BY <1>3, <1>4
<1>6. PartSum(s, 2) = 17
  BY <1>3, <1>4, <1>5
<1>7. PartSum(s, 3) = 18
  BY <1>3, <1>4, <1>6
<1>8. PartSum(s, 4) = 26
  BY <1>3, <1>4, <1>7
<1>9. TotalIs(s, 26)
  BY <1>2, <1>4, <1>8 DEF TotalIs
<1> QED
  BY <1>9 DEF s

LEMMA PwmSize == TotalIs(Extents(SilPwm), 16)
<1> DEFINE s == Extents(SilPwm)
<1>1. s = <<16>>
  BY DEF Extents, SilPwm, Member
<1> HIDE DEF s
<1>2. s \in Seq(Nat) /\ Len(s) = 1
  BY <1>1
<1>3. s[1] = 16
  BY <1>1
<1>4. /\ PartSum(s, 0) = 0 /\ Total(s) = PartSum(s, 1)
      /\ \A i \in 1..1 : \A j : j = i - 1 => PartSum(s, i) = PartSum(s, j) + s[i]
  BY <1>2, PartSums
<1>5. PartSum(s, 1) = 16
  BY <1>3, <1>4
<1>6. TotalIs(s, 16)
  BY <1>2, <1>4, <1>5 DEF TotalIs
<1> QED
  BY <1>6 DEF s

LEMMA StateSize == TotalIs(Extents(StateRc), 87)
<1> DEFINE s == Extents(StateRc)
<1>1. s = <<12, 12, 12, 4, 8, 1, 4, 1, 1, 32>>
  BY StateRcIs DEF Extents, StateParts, Member, Float, U8
<1> HIDE DEF s
<1>2. s \in Seq(Nat) /\ Len(s) = 10
  BY <1>1
<1>3. s[1] = 12 /\ s[2] = 12 /\ s[3] = 12 /\ s[4] = 4 /\ s[5] = 8 /\ s[6] = 1 /\ s[7] = 4 /\ s[8] = 1 /\ s[9] = 1 /\ s[10] = 32
  BY <1>1
<1>4. /\ PartSum(s, 0) = 0 /\ Total(s) = PartSum(s, 10)
      /\ \A i \in 1..10 : \A j : j = i - 1 => PartSum(s, i) = PartSum(s, j) + s[i]
  BY <1>2, PartSums
<1>5. PartSum(s, 1) = 12
  BY <1>3, <1>4
<1>6. PartSum(s, 2) = 24
  BY <1>3, <1>4, <1>5
<1>7. PartSum(s, 3) = 36
  BY <1>3, <1>4, <1>6
<1>8. PartSum(s, 4) = 40
  BY <1>3, <1>4, <1>7
<1>9. PartSum(s, 5) = 48
  BY <1>3, <1>4, <1>8
<1>10. PartSum(s, 6) = 49
  BY <1>3, <1>4, <1>9
<1>11. PartSum(s, 7) = 53
  BY <1>3, <1>4, <1>10
<1>12. PartSum(s, 8) = 54
  BY <1>3, <1>4, <1>11
<1>13. PartSum(s, 9) = 55
  BY <1>3, <1>4, <1>12
<1>14. PartSum(s, 10) = 87
  BY <1>3, <1>4, <1>13
<1>15. TotalIs(s, 87)
  BY <1>2, <1>4, <1>14 DEF TotalIs
<1> QED
  BY <1>15 DEF s

LEMMA OutSize == TotalIs(Extents(SilOut), 40)
<1> DEFINE s == Extents(SilOut)
<1>1. s = <<16, 4, 4, 4, 1, 1, 1, 1, 4, 4>>
  BY DEF Extents, SilOut, Member, Float, U8
<1> HIDE DEF s
<1>2. s \in Seq(Nat) /\ Len(s) = 10
  BY <1>1
<1>3. s[1] = 16 /\ s[2] = 4 /\ s[3] = 4 /\ s[4] = 4 /\ s[5] = 1 /\ s[6] = 1 /\ s[7] = 1 /\ s[8] = 1 /\ s[9] = 4 /\ s[10] = 4
  BY <1>1
<1>4. /\ PartSum(s, 0) = 0 /\ Total(s) = PartSum(s, 10)
      /\ \A i \in 1..10 : \A j : j = i - 1 => PartSum(s, i) = PartSum(s, j) + s[i]
  BY <1>2, PartSums
<1>5. PartSum(s, 1) = 16
  BY <1>3, <1>4
<1>6. PartSum(s, 2) = 20
  BY <1>3, <1>4, <1>5
<1>7. PartSum(s, 3) = 24
  BY <1>3, <1>4, <1>6
<1>8. PartSum(s, 4) = 28
  BY <1>3, <1>4, <1>7
<1>9. PartSum(s, 5) = 29
  BY <1>3, <1>4, <1>8
<1>10. PartSum(s, 6) = 30
  BY <1>3, <1>4, <1>9
<1>11. PartSum(s, 7) = 31
  BY <1>3, <1>4, <1>10
<1>12. PartSum(s, 8) = 32
  BY <1>3, <1>4, <1>11
<1>13. PartSum(s, 9) = 36
  BY <1>3, <1>4, <1>12
<1>14. PartSum(s, 10) = 40
  BY <1>3, <1>4, <1>13
<1>15. TotalIs(s, 40)
  BY <1>2, <1>4, <1>14 DEF TotalIs
<1> QED
  BY <1>15 DEF s

LEMMA TelemSize == TotalIs(Extents(SilTelem), 88)
<1> DEFINE s == Extents(SilTelem)
<1>1. s = <<8, 16, 12, 12, 12, 16, 4, 4, 4>>
  BY DEF Extents, SilTelem, Member, Float
<1> HIDE DEF s
<1>2. s \in Seq(Nat) /\ Len(s) = 9
  BY <1>1
<1>3. s[1] = 8 /\ s[2] = 16 /\ s[3] = 12 /\ s[4] = 12 /\ s[5] = 12 /\ s[6] = 16 /\ s[7] = 4 /\ s[8] = 4 /\ s[9] = 4
  BY <1>1
<1>4. /\ PartSum(s, 0) = 0 /\ Total(s) = PartSum(s, 9)
      /\ \A i \in 1..9 : \A j : j = i - 1 => PartSum(s, i) = PartSum(s, j) + s[i]
  BY <1>2, PartSums
<1>5. PartSum(s, 1) = 8
  BY <1>3, <1>4
<1>6. PartSum(s, 2) = 24
  BY <1>3, <1>4, <1>5
<1>7. PartSum(s, 3) = 36
  BY <1>3, <1>4, <1>6
<1>8. PartSum(s, 4) = 48
  BY <1>3, <1>4, <1>7
<1>9. PartSum(s, 5) = 60
  BY <1>3, <1>4, <1>8
<1>10. PartSum(s, 6) = 76
  BY <1>3, <1>4, <1>9
<1>11. PartSum(s, 7) = 80
  BY <1>3, <1>4, <1>10
<1>12. PartSum(s, 8) = 84
  BY <1>3, <1>4, <1>11
<1>13. PartSum(s, 9) = 88
  BY <1>3, <1>4, <1>12
<1>14. TotalIs(s, 88)
  BY <1>2, <1>4, <1>13 DEF TotalIs
<1> QED
  BY <1>14 DEF s

LEMMA HdrFmtSize == TotalIs(HdrFmt, 14)
<1> DEFINE s == HdrFmt
<1>1. s = <<2, 1, 1, 2, 4, 4>>
  BY DEF HdrFmt
<1> HIDE DEF s
<1>2. s \in Seq(Nat) /\ Len(s) = 6
  BY <1>1
<1>3. s[1] = 2 /\ s[2] = 1 /\ s[3] = 1 /\ s[4] = 2 /\ s[5] = 4 /\ s[6] = 4
  BY <1>1
<1>4. /\ PartSum(s, 0) = 0 /\ Total(s) = PartSum(s, 6)
      /\ \A i \in 1..6 : \A j : j = i - 1 => PartSum(s, i) = PartSum(s, j) + s[i]
  BY <1>2, PartSums
<1>5. PartSum(s, 1) = 2
  BY <1>3, <1>4
<1>6. PartSum(s, 2) = 3
  BY <1>3, <1>4, <1>5
<1>7. PartSum(s, 3) = 4
  BY <1>3, <1>4, <1>6
<1>8. PartSum(s, 4) = 6
  BY <1>3, <1>4, <1>7
<1>9. PartSum(s, 5) = 10
  BY <1>3, <1>4, <1>8
<1>10. PartSum(s, 6) = 14
  BY <1>3, <1>4, <1>9
<1>11. TotalIs(s, 14)
  BY <1>2, <1>4, <1>10 DEF TotalIs
<1> QED
  BY <1>11 DEF s

LEMMA ImuRest == TotalIs(<<4, 8, 1>>, 13)
<1> DEFINE s == <<4, 8, 1>>
<1>1. s = <<4, 8, 1>>
  OBVIOUS
<1> HIDE DEF s
<1>2. s \in Seq(Nat) /\ Len(s) = 3
  BY <1>1
<1>3. s[1] = 4 /\ s[2] = 8 /\ s[3] = 1
  BY <1>1
<1>4. /\ PartSum(s, 0) = 0 /\ Total(s) = PartSum(s, 3)
      /\ \A i \in 1..3 : \A j : j = i - 1 => PartSum(s, i) = PartSum(s, j) + s[i]
  BY <1>2, PartSums
<1>5. PartSum(s, 1) = 4
  BY <1>3, <1>4
<1>6. PartSum(s, 2) = 12
  BY <1>3, <1>4, <1>5
<1>7. PartSum(s, 3) = 13
  BY <1>3, <1>4, <1>6
<1>8. TotalIs(s, 13)
  BY <1>2, <1>4, <1>7 DEF TotalIs
<1> QED
  BY <1>8 DEF s

LEMMA RcRest == TotalIs(<<1, 1, 8>>, 10)
<1> DEFINE s == <<1, 1, 8>>
<1>1. s = <<1, 1, 8>>
  OBVIOUS
<1> HIDE DEF s
<1>2. s \in Seq(Nat) /\ Len(s) = 3
  BY <1>1
<1>3. s[1] = 1 /\ s[2] = 1 /\ s[3] = 8
  BY <1>1
<1>4. /\ PartSum(s, 0) = 0 /\ Total(s) = PartSum(s, 3)
      /\ \A i \in 1..3 : \A j : j = i - 1 => PartSum(s, i) = PartSum(s, j) + s[i]
  BY <1>2, PartSums
<1>5. PartSum(s, 1) = 1
  BY <1>3, <1>4
<1>6. PartSum(s, 2) = 2
  BY <1>3, <1>4, <1>5
<1>7. PartSum(s, 3) = 10
  BY <1>3, <1>4, <1>6
<1>8. TotalIs(s, 10)
  BY <1>2, <1>4, <1>7 DEF TotalIs
<1> QED
  BY <1>8 DEF s

LEMMA StateRest == TotalIs(<<4, 8, 1, 4, 1, 1, 32>>, 51)
<1> DEFINE s == <<4, 8, 1, 4, 1, 1, 32>>
<1>1. s = <<4, 8, 1, 4, 1, 1, 32>>
  OBVIOUS
<1> HIDE DEF s
<1>2. s \in Seq(Nat) /\ Len(s) = 7
  BY <1>1
<1>3. s[1] = 4 /\ s[2] = 8 /\ s[3] = 1 /\ s[4] = 4 /\ s[5] = 1 /\ s[6] = 1 /\ s[7] = 32
  BY <1>1
<1>4. /\ PartSum(s, 0) = 0 /\ Total(s) = PartSum(s, 7)
      /\ \A i \in 1..7 : \A j : j = i - 1 => PartSum(s, i) = PartSum(s, j) + s[i]
  BY <1>2, PartSums
<1>5. PartSum(s, 1) = 4
  BY <1>3, <1>4
<1>6. PartSum(s, 2) = 12
  BY <1>3, <1>4, <1>5
<1>7. PartSum(s, 3) = 13
  BY <1>3, <1>4, <1>6
<1>8. PartSum(s, 4) = 17
  BY <1>3, <1>4, <1>7
<1>9. PartSum(s, 5) = 18
  BY <1>3, <1>4, <1>8
<1>10. PartSum(s, 6) = 19
  BY <1>3, <1>4, <1>9
<1>11. PartSum(s, 7) = 51
  BY <1>3, <1>4, <1>10
<1>12. TotalIs(s, 51)
  BY <1>2, <1>4, <1>11 DEF TotalIs
<1> QED
  BY <1>12 DEF s

LEMMA OutRest == TotalIs(<<4, 4>>, 8)
<1> DEFINE s == <<4, 4>>
<1>1. s = <<4, 4>>
  OBVIOUS
<1> HIDE DEF s
<1>2. s \in Seq(Nat) /\ Len(s) = 2
  BY <1>1
<1>3. s[1] = 4 /\ s[2] = 4
  BY <1>1
<1>4. /\ PartSum(s, 0) = 0 /\ Total(s) = PartSum(s, 2)
      /\ \A i \in 1..2 : \A j : j = i - 1 => PartSum(s, i) = PartSum(s, j) + s[i]
  BY <1>2, PartSums
<1>5. PartSum(s, 1) = 4
  BY <1>3, <1>4
<1>6. PartSum(s, 2) = 8
  BY <1>3, <1>4, <1>5
<1>7. TotalIs(s, 8)
  BY <1>2, <1>4, <1>6 DEF TotalIs
<1> QED
  BY <1>7 DEF s

LEMMA FirstEight == TotalIs(<<8>>, 8)
<1> DEFINE s == <<8>>
<1>1. s = <<8>>
  OBVIOUS
<1> HIDE DEF s
<1>2. s \in Seq(Nat) /\ Len(s) = 1
  BY <1>1
<1>3. s[1] = 8
  BY <1>1
<1>4. /\ PartSum(s, 0) = 0 /\ Total(s) = PartSum(s, 1)
      /\ \A i \in 1..1 : \A j : j = i - 1 => PartSum(s, i) = PartSum(s, j) + s[i]
  BY <1>2, PartSums
<1>5. PartSum(s, 1) = 8
  BY <1>3, <1>4
<1>6. TotalIs(s, 8)
  BY <1>2, <1>4, <1>5 DEF TotalIs
<1> QED
  BY <1>6 DEF s

LEMMA LastFour == TotalIs(<<4>>, 4)
<1> DEFINE s == <<4>>
<1>1. s = <<4>>
  OBVIOUS
<1> HIDE DEF s
<1>2. s \in Seq(Nat) /\ Len(s) = 1
  BY <1>1
<1>3. s[1] = 4
  BY <1>1
<1>4. /\ PartSum(s, 0) = 0 /\ Total(s) = PartSum(s, 1)
      /\ \A i \in 1..1 : \A j : j = i - 1 => PartSum(s, i) = PartSum(s, j) + s[i]
  BY <1>2, PartSums
<1>5. PartSum(s, 1) = 4
  BY <1>3, <1>4
<1>6. TotalIs(s, 4)
  BY <1>2, <1>4, <1>5 DEF TotalIs
<1> QED
  BY <1>6 DEF s

LEMMA ImuFmtSize == TotalIs(ImuFmt, 49)
<1>1. TotalIs(Times(9, 4), 36)
  BY TotalOfTimes
<1>2. TotalIs(<<4, 8, 1>>, 13)
  BY ImuRest
<1>3. TotalIs(Times(9, 4) \o <<4, 8, 1>>, 49)
  BY 49 = 36 + 13, <1>1, <1>2, TotalOfBoth
<1> QED
  BY <1>3 DEF ImuFmt

LEMMA RcFmtSize == TotalIs(RcFmt, 26)
<1>1. TotalIs(Times(4, 4), 16)
  BY TotalOfTimes
<1>2. TotalIs(<<1, 1, 8>>, 10)
  BY RcRest
<1>3. TotalIs(Times(4, 4) \o <<1, 1, 8>>, 26)
  BY 26 = 16 + 10, <1>1, <1>2, TotalOfBoth
<1> QED
  BY <1>3 DEF RcFmt

LEMMA PwmFmtSize == TotalIs(PwmFmt, 16)
BY TotalOfTimes DEF PwmFmt

LEMMA StateFmtSize == TotalIs(StateFmt, 87)
<1>1. TotalIs(Times(9, 4), 36)
  BY TotalOfTimes
<1>2. TotalIs(<<4, 8, 1, 4, 1, 1, 32>>, 51)
  BY StateRest
<1>3. TotalIs(Times(9, 4) \o <<4, 8, 1, 4, 1, 1, 32>>, 87)
  BY 87 = 36 + 51, <1>1, <1>2, TotalOfBoth
<1> QED
  BY <1>3 DEF StateFmt

LEMMA OutFmtSize == TotalIs(FwOutFmt, 40)
<1>1. TotalIs(Times(4, 4), 16)
  BY TotalOfTimes
<1>2. TotalIs(Times(3, 4), 12)
  BY TotalOfTimes
<1>3. TotalIs(Times(4, 1), 4)
  BY TotalOfTimes
<1>4. TotalIs(<<4, 4>>, 8)
  BY OutRest
<1>5. TotalIs(Times(4, 4) \o Times(3, 4), 28)
  BY 28 = 16 + 12, <1>1, <1>2, TotalOfBoth
<1>6. TotalIs(Times(4, 4) \o Times(3, 4) \o Times(4, 1), 32)
  BY 32 = 28 + 4, <1>5, <1>3, TotalOfBoth
<1>7. TotalIs(Times(4, 4) \o Times(3, 4) \o Times(4, 1) \o <<4, 4>>, 40)
  BY 40 = 32 + 8, <1>6, <1>4, TotalOfBoth
<1> QED
  BY <1>7 DEF FwOutFmt

LEMMA TelemFmtSize == TotalIs(TelemFmt, 88)
<1>1. TotalIs(<<8>>, 8)
  BY FirstEight
<1>2. TotalIs(Times(17, 4), 68)
  BY TotalOfTimes
<1>3. TotalIs(<<4>>, 4)
  BY LastFour
<1>4. TotalIs(Times(4, 1), 4)
  BY TotalOfTimes
<1>5. TotalIs(<<4>>, 4)
  BY LastFour
<1>6. TotalIs(<<8>> \o Times(17, 4), 76)
  BY 76 = 8 + 68, <1>1, <1>2, TotalOfBoth
<1>7. TotalIs(<<8>> \o Times(17, 4) \o <<4>>, 80)
  BY 80 = 76 + 4, <1>6, <1>3, TotalOfBoth
<1>8. TotalIs(<<8>> \o Times(17, 4) \o <<4>> \o Times(4, 1), 84)
  BY 84 = 80 + 4, <1>7, <1>4, TotalOfBoth
<1>9. TotalIs(<<8>> \o Times(17, 4) \o <<4>> \o Times(4, 1) \o <<4>>, 88)
  BY 88 = 84 + 4, <1>8, <1>5, TotalOfBoth
<1> QED
  BY <1>9 DEF TelemFmt

LEMMA HelloFmtSize == TotalIs(HelloFmt, 32)
BY TotalOfTimes DEF HelloFmt

\* Both sides announce the same sizes in the handshake (sil_wire.hpp:117-122,
\* sil_proto.py:36-46): those of the packed structs are those of the formats.
THEOREM SameSizes == kHelloSizes = HelloSizesPy
<1>1. /\ Total(Extents(SilImu)) = 49 /\ Total(Extents(SilRc)) = 26 /\ Total(Extents(SilPwm)) = 16
      /\ Total(Extents(StateRc)) = 87 /\ Total(Extents(SilOut)) = 40 /\ Total(Extents(SilTelem)) = 88
  BY ImuSize, RcSize, PwmSize, StateSize, OutSize, TelemSize DEF TotalIs
<1>2. /\ Total(ImuFmt) = 49 /\ Total(RcFmt) = 26 /\ Total(PwmFmt) = 16 /\ Total(StateFmt) = 87
      /\ Total(FwOutFmt) = 40 /\ Total(TelemFmt) = 88 /\ Total(HdrFmt) = 14
  BY ImuFmtSize, RcFmtSize, PwmFmtSize, StateFmtSize, OutFmtSize, TelemFmtSize, HdrFmtSize DEF TotalIs
<1>3. kHelloSizes = <<49, 26, 16, 87, 40, 88, 14>>
  BY <1>1 DEF kHelloSizes, HdrSize
<1>4. HelloSizesPy = <<49, 26, 16, 87, 40, 88, 14>>
  BY <1>2 DEF HelloSizesPy
<1> QED
  BY <1>3, <1>4

-----------------------------------------------------------------------------
(* The bytes of a message, and what its receiver makes of them.            *)

\* A payload as the firmware holds it in memory.
Carried(m) == Memory(ContentOf(m.type), m.fields)

LEMMA MemoryLength ==
  ASSUME NEW struct, IsStruct(struct), NEW c, Fills(struct, c), NEW n, TotalIs(Format(struct), n)
  PROVE  AreBytes(Memory(struct, c), n)
<1>1. Fits(Format(struct), Values(struct, c))
  BY FormatFits
<1>2. Memory(struct, c) = Joined(Values(struct, c)) /\ Memory(struct, c) \in Seq(Byte)
  BY MemoryIsJoined
<1>3. Len(Joined(Values(struct, c))) = Total(Format(struct))
  BY <1>1, CutFits
<1> QED
  BY <1>2, <1>3 DEF AreBytes, TotalIs

LEMMA NothingCarried == \A c : Memory(<<>>, c) = <<>>
<1> SUFFICES ASSUME NEW c PROVE Memory(<<>>, c) = <<>>
  OBVIOUS
<1> DEFINE parts == [i \in DOMAIN <<>> |-> Joined(c[<<>>[i].name])]
<1>1. parts = <<>>
  OBVIOUS
<1>2. Memory(<<>>, c) = Joined(parts)
  BY DEF Memory
<1> HIDE DEF parts
<1>3. JoinsUp(Running(Cat(Byte), <<>>, <<>>), Byte, <<>>, <<>>)
  <2>1. <<>> \in Seq(Byte) /\ <<>> \in Seq(Seq(Byte))
    OBVIOUS
  <2> QED
    BY <2>1, FlatSteps
<1>4. Flat(Byte, <<>>) = <<>>
  BY <1>3, FlatIsLast DEF JoinsUp
<1> QED
  BY <1>1, <1>2, <1>4, JoinedIsFlat

\* A message m is carried by the payload p, and read as the fields c.
IsCarried(m, p, c) ==
  /\ p \in Seq(Byte) /\ Len(p) < 65536
  /\ Bytes(m) = PackMsgPy(TypeWord(m.type), m.seq, p)
  /\ FieldsOf(m.type, p) = c

Content(m) == IF m.type = "BYE" THEN <<>> ELSE m.fields

LEMMA CarriedAndRead ==
  ASSUME NEW m \in Messages
  PROVE  IsCarried(m, Carried(m), Content(m))
<1> DEFINE p == Carried(m)
           t == TypeWord(m.type)
<1>1. m.type \in {"HELLO", "ACK", "STATE", "FW_OUT", "BYE"} /\ Fills(ContentOf(m.type), m.fields)
  BY MessagesAssumption
<1>2. \A q \in Seq(Byte) : PackMsg(t, m.seq, q) = PackMsgPy(t, m.seq, q)
  BY SamePacked
<1> HIDE DEF t
<1>3. CASE m.type = "HELLO"
  <2>1. ContentOf(m.type) = SilHello
    BY <1>3 DEF ContentOf
  <2>2. p = Memory(SilHello, m.fields) /\ Fills(SilHello, m.fields)
    BY <1>1, <2>1 DEF Carried
  <2>3. AreBytes(p, 32)
    BY <2>2, StructsAre, MemoryLength, HelloFormat, HelloFmtSize
  <2>4. Bytes(m) = PackMsg(t, m.seq, p)
    BY <1>3, <2>2 DEF Bytes, FromFirmware, t
  <2>5. FieldsOf(m.type, p) = UnpackHello(p)
    BY <1>3 DEF FieldsOf
  <2>6. UnpackHello(p) = m.fields
    BY <2>2, HelloIsRead
  <2>7. Content(m) = m.fields
    BY <1>3 DEF Content
  <2> HIDE DEF p
  <2>8. p \in Seq(Byte) /\ Len(p) < 65536
    BY <2>3 DEF AreBytes
  <2>9. Bytes(m) = PackMsgPy(t, m.seq, p)
    BY <1>2, <2>4, <2>8
  <2> QED
    BY <2>5, <2>6, <2>7, <2>8, <2>9 DEF IsCarried, t, p
<1>4. CASE m.type = "ACK"
  <2>1. ContentOf(m.type) = SilHello
    BY <1>4 DEF ContentOf
  <2>2. p = Memory(SilHello, m.fields) /\ Fills(SilHello, m.fields)
    BY <1>1, <2>1 DEF Carried
  <2>3. AreBytes(p, 32)
    BY <2>2, StructsAre, MemoryLength, HelloFormat, HelloFmtSize
  <2>4. PackHello(m.fields) = p
    BY <2>2, PackedHello
  <2>5. Bytes(m) = PackMsgPy(t, m.seq, PackHello(m.fields))
    BY <1>4 DEF Bytes, FromFirmware, t
  <2>6. FieldsOf(m.type, p) = StructOf(SilHello, p)
    BY <1>4 DEF FieldsOf
  <2>7. StructOf(SilHello, p) = m.fields
    BY <2>2, StructsAre, StructOfMemory
  <2>8. Content(m) = m.fields
    BY <1>4 DEF Content
  <2> HIDE DEF p
  <2>9. p \in Seq(Byte) /\ Len(p) < 65536
    BY <2>3 DEF AreBytes
  <2> QED
    BY <2>4, <2>5, <2>6, <2>7, <2>8, <2>9 DEF IsCarried, t, p
<1>5. CASE m.type = "STATE"
  <2>1. ContentOf(m.type) = StateRc
    BY <1>5 DEF ContentOf
  <2>2. p = Memory(StateRc, m.fields) /\ Fills(StateRc, m.fields)
    BY <1>1, <2>1 DEF Carried
  <2>3. AreBytes(p, 87)
    BY <2>2, StructsAre, MemoryLength, StateFormat, StateFmtSize
  <2>4. PackState(m.fields) = p
    BY <2>2, PackedState
  <2>5. Bytes(m) = PackMsgPy(t, m.seq, PackState(m.fields))
    BY <1>5 DEF Bytes, FromFirmware, t
  <2>6. FieldsOf(m.type, p) = StructOf(StateRc, p)
    BY <1>5 DEF FieldsOf
  <2>7. StructOf(StateRc, p) = m.fields
    BY <2>2, StructsAre, StructOfMemory
  <2>8. Content(m) = m.fields
    BY <1>5 DEF Content
  <2> HIDE DEF p
  <2>9. p \in Seq(Byte) /\ Len(p) < 65536
    BY <2>3 DEF AreBytes
  <2> QED
    BY <2>4, <2>5, <2>6, <2>7, <2>8, <2>9 DEF IsCarried, t, p
<1>6. CASE m.type = "FW_OUT"
  <2>1. ContentOf(m.type) = SilOut
    BY <1>6 DEF ContentOf
  <2>2. p = Memory(SilOut, m.fields) /\ Fills(SilOut, m.fields)
    BY <1>1, <2>1 DEF Carried
  <2>3. AreBytes(p, 40)
    BY <2>2, StructsAre, MemoryLength, OutFormat, OutFmtSize
  <2>4. Bytes(m) = PackMsg(t, m.seq, p)
    BY <1>6, <2>2 DEF Bytes, FromFirmware, t
  <2>5. FieldsOf(m.type, p) = UnpackOut(p)
    BY <1>6 DEF FieldsOf
  <2>6. UnpackOut(p) = m.fields
    BY <2>2, OutIsRead
  <2>7. Content(m) = m.fields
    BY <1>6 DEF Content
  <2> HIDE DEF p
  <2>8. p \in Seq(Byte) /\ Len(p) < 65536
    BY <2>3 DEF AreBytes
  <2>9. Bytes(m) = PackMsgPy(t, m.seq, p)
    BY <1>2, <2>4, <2>8
  <2> QED
    BY <2>5, <2>6, <2>7, <2>8, <2>9 DEF IsCarried, t, p
<1>7. CASE m.type = "BYE"
  <2>1. ContentOf(m.type) = <<>>
    BY <1>7 DEF ContentOf
  <2>2. p = <<>>
    BY <2>1, NothingCarried DEF Carried
  <2>3. Bytes(m) = PackMsgPy(t, m.seq, <<>>)
    BY <1>7 DEF Bytes, FromFirmware, t
  <2>4. FieldsOf(m.type, <<>>) = <<>>
    BY <1>7 DEF FieldsOf
  <2>5. Content(m) = <<>>
    BY <1>7 DEF Content
  <2>6. <<>> \in Seq(Byte) /\ Len(<<>>) < 65536
    OBVIOUS
  <2> HIDE DEF p
  <2> QED
    BY <2>2, <2>3, <2>4, <2>5, <2>6 DEF IsCarried, t, p
<1> QED
  BY <1>1, <1>3, <1>4, <1>5, <1>6, <1>7

\* What both readers make of a message that has not been damaged.
Verdict(m) == [ok |-> TRUE, type |-> TypeWord(m.type), seq |-> m.seq, body |-> Carried(m)]

LEMMA SentIsAccepted ==
  ASSUME NEW m \in Messages
  PROVE  Bytes(m) \in Seq(Byte) /\ Bytes(m) # <<>> /\ UnpackMsgPy(Bytes(m)) = Verdict(m)
<1> DEFINE p == Carried(m)
           t == TypeWord(m.type)
<1>1. IsCarried(m, p, Content(m))
  BY CarriedAndRead
<1> HIDE DEF p
<1>2. p \in Seq(Byte) /\ Len(p) < 65536 /\ Bytes(m) = PackMsgPy(t, m.seq, p)
  BY <1>1 DEF IsCarried
<1>3. OfWidth(t, 1)
  BY DEF TypeWord, Word, OfWidth
<1>4. IsWord(m.seq)
  BY MessagesAssumption DEF IsWord
<1> HIDE DEF t
<1>5. PackMsgPy(t, m.seq, p) \in Seq(Byte) /\ Len(PackMsgPy(t, m.seq, p)) = HdrSize + Len(p)
  BY <1>2, SamePacked
<1>6. PackMsgPy(t, m.seq, p) # <<>>
  <2>1. Len(p) \in Nat /\ HdrSize = 14
    BY <1>2 DEF HdrSize
  <2> QED
    BY <1>5, <2>1
<1>7. UnpackMsgPy(PackMsgPy(t, m.seq, p)) = [ok |-> TRUE, type |-> t, seq |-> m.seq, body |-> p]
  <2> DEFINE seq == m.seq
  <2>1. IsWord(seq)
    BY <1>4
  <2> HIDE DEF seq
  <2>2. \A q \in Seq(Byte) : Len(q) < 65536 =>
          UnpackMsgPy(PackMsgPy(t, seq, q)) = [ok |-> TRUE, type |-> t, seq |-> seq, body |-> q]
    BY <1>3, <2>1, IntactIsAccepted
  <2>3. UnpackMsgPy(PackMsgPy(t, seq, p)) = [ok |-> TRUE, type |-> t, seq |-> seq, body |-> p]
    BY <1>2, <2>2
  <2> QED
    BY <2>3 DEF seq
<1> QED
  BY <1>2, <1>5, <1>6, <1>7 DEF Verdict, t, p

\* The firmware compares the tick and the seven sizes one by one, and that is all
\* there is to a HELLO.
LEMMA AckCompares ==
  ASSUME NEW fields, Fills(SilHello, fields)
  PROVE  FwAcceptsAck(fields) <=> fields = Hello(kSilDtUs, HelloSizesPy)
<1> DEFINE local == Hello(kSilDtUs, kHelloSizes)
<1>1. local = Hello(kSilDtUs, HelloSizesPy)
  BY SameSizes
<1>2. fields \in [{"dt_us", "sizes"} -> Seq(Seq(Byte))] /\ fields.sizes \in [1..7 -> [1..4 -> Byte]]
  <2>1. /\ SilHello[2].name = "sizes" /\ SilHello[2].count = 7 /\ SilHello[2].width = 4
        /\ DOMAIN SilHello = 1..2 /\ SilHello[1].name = "dt_us"
    BY DEF SilHello, Member
  <2>2. Names(SilHello) = {"dt_us", "sizes"}
    BY <2>1 DEF Names
  <2>3. fields \in [Names(SilHello) -> Seq(Seq(Byte))]
    BY DEF Fills
  <2>4. \A i \in DOMAIN SilHello :
          fields[SilHello[i].name] \in [1..SilHello[i].count -> [1..SilHello[i].width -> Byte]]
    BY DEF Fills
  <2>5. fields["sizes"] \in [1..7 -> [1..4 -> Byte]]
    <3>1. 2 \in DOMAIN SilHello
      BY <2>1
    <3> QED
      BY <2>1, <2>4, <3>1
  <2>6. fields \in [{"dt_us", "sizes"} -> Seq(Seq(Byte))]
    BY <2>2, <2>3
  <2> QED
    BY <2>5, <2>6
<1>3. /\ local = [dt_us |-> local.dt_us, sizes |-> local.sizes]
      /\ local.sizes = [i \in 1..7 |-> local.sizes[i]]
  BY DEF Hello, kHelloSizes
<1>4. FwAcceptsAck(fields) <=>
        local.dt_us = fields.dt_us /\ \A i \in 1..7 : local.sizes[i] = fields.sizes[i]
  BY DEF FwAcceptsAck, HelloMatches
<1> HIDE DEF local
<1>5. (\A i \in 1..7 : local.sizes[i] = fields.sizes[i]) => local.sizes = fields.sizes
  BY <1>2, <1>3
<1>6. local.dt_us = fields.dt_us /\ local.sizes = fields.sizes => local = fields
  BY <1>2, <1>3
<1>7. FwAcceptsAck(fields) <=> local = fields
  BY <1>4, <1>5, <1>6
<1> QED
  BY <1>1, <1>7

-----------------------------------------------------------------------------
(* The messages on the line.                                               *)

\* What is on the line are bytes, those of the message sent as long as nothing has
\* happened to them, and what both readers have made of them is the same.
LineInv ==
  /\ line \in Seq(Byte) /\ rx \in Seq(Byte) /\ hits \in Nat
  /\ line # <<>> => sent \in Messages
  /\ line # <<>> /\ hits = 0 => line = Bytes(sent)
  /\ got.read => /\ line # <<>>
                 /\ got.cpp = got.py /\ got.py = UnpackMsgPy(line)
                 /\ got.fields = IF got.py.ok THEN FieldsOf(sent.type, got.py.body) ELSE <<>>

LEMMA LineInit == Init => LineInv
<1> SUFFICES ASSUME Init PROVE LineInv
  OBVIOUS
<1>1. Times(256, {}) \in Seq(Byte)
  BY DEF Times, Byte
<1>2. rx \in Seq(Byte) /\ line = <<>> /\ hits = 0 /\ ~got.read
  BY <1>1 DEF Init, Unread
<1> QED
  BY <1>2 DEF LineInv

LEMMA LineSend ==
  ASSUME LineInv, NEW m \in Messages, Send(m)
  PROVE  LineInv'
<1>1. sent' = m /\ line' = Bytes(m) /\ hits' = 0 /\ ~got'.read /\ rx' = rx
  BY DEF Send, Unread
<1>2. Bytes(m) \in Seq(Byte)
  BY SentIsAccepted
<1>3. rx \in Seq(Byte)
  BY DEF LineInv
<1> QED
  BY <1>1, <1>2, <1>3 DEF LineInv

LEMMA DamageIsBytes ==
  ASSUME LineInv, Damage
  PROVE  line' \in Seq(Byte)
<1>1. line \in Seq(Byte)
  BY DEF LineInv
<1>2. CASE \E k \in DOMAIN line, flip \in Flips : line' = [line EXCEPT ![k] = SymDiff(@, flip)]
  <2>1. PICK k \in DOMAIN line, flip \in Flips : line' = [line EXCEPT ![k] = SymDiff(line[k], flip)]
    BY <1>2
  <2>2. flip \in Byte /\ line[k] \in Byte
    BY <1>1, DamageAssumption
  <2> DEFINE b == SymDiff(line[k], flip)
  <2>3. b \in Byte
    BY <2>2 DEF SymDiff, Byte
  <2> HIDE DEF b
  <2> QED
    BY <1>1, <2>1, <2>3 DEF b
<1>3. CASE \E k \in 1..(Len(line) - 1) : line' = SubSeq(line, 1, k)
  BY <1>1, <1>3
<1>4. CASE \E flip \in Flips : line' = Append(line, flip)
  BY <1>1, <1>4, DamageAssumption
<1> QED
  BY <1>2, <1>3, <1>4 DEF Damage

LEMMA LineDamage ==
  ASSUME LineInv, Damage
  PROVE  LineInv'
<1>1. line' \in Seq(Byte)
  BY DamageIsBytes
<1>2. /\ line # <<>> /\ ~got.read /\ hits' = hits + 1
      /\ sent' = sent /\ rx' = rx /\ got' = got
  BY DEF Damage
<1>3. sent \in Messages /\ rx \in Seq(Byte) /\ hits \in Nat
  BY <1>2 DEF LineInv
<1>4. hits' \in Nat /\ hits' # 0
  BY <1>2, <1>3
<1>5. sent' \in Messages /\ rx' \in Seq(Byte) /\ ~got'.read
  BY <1>2, <1>3
<1> QED
  BY <1>1, <1>4, <1>5 DEF LineInv

LEMMA LineReceive ==
  ASSUME LineInv, Receive
  PROVE  LineInv'
<1> DEFINE rest == SubSeq(rx, Len(line) + 1, Len(rx))
           buf == line \o rest
           cpp == UnpackMsg(buf, Len(line))
           py == UnpackMsgPy(line)
           own == IF FromFirmware(sent) THEN py ELSE cpp
           fields == IF own.ok THEN FieldsOf(sent.type, own.body) ELSE <<>>
<1>1. /\ line # <<>> /\ rx' = (IF FromFirmware(sent) THEN rx ELSE buf)
      /\ got' = [read |-> TRUE, cpp |-> cpp, py |-> py, fields |-> fields]
      /\ sent' = sent /\ line' = line /\ hits' = hits
  BY DEF Receive
<1>2. line \in Seq(Byte) /\ rx \in Seq(Byte)
  BY DEF LineInv
<1>3. rest \in Seq(Byte)
  BY <1>2
<1> HIDE DEF rest
<1>4. buf \in Seq(Byte)
  BY <1>2, <1>3
<1>5. cpp = py
  BY <1>2, <1>3, VerdictsAgree
<1> HIDE DEF buf, cpp
<1>6. own = py
  BY <1>5
<1>7. got'.cpp = got'.py /\ got'.py = py /\ got'.fields = fields
  BY <1>1, <1>5
<1> HIDE DEF own
<1>8. got'.fields = IF py.ok THEN FieldsOf(sent.type, py.body) ELSE <<>>
  BY <1>6, <1>7
<1>9. rx' \in Seq(Byte)
  BY <1>1, <1>2, <1>4
<1> HIDE DEF py, fields
<1>10. py = UnpackMsgPy(line)
  BY DEF py
<1>11. /\ hits \in Nat /\ sent \in Messages /\ hits = 0 => line = Bytes(sent)
  BY <1>1 DEF LineInv
<1> QED
  BY <1>1, <1>2, <1>7, <1>8, <1>9, <1>10, <1>11 DEF LineInv

\* Each step keeps what is on the line, and what has been made of it.
THEOREM LineStep == LineInv /\ [Next]_vars => LineInv'
<1> SUFFICES ASSUME LineInv, [Next]_vars PROVE LineInv'
  OBVIOUS
<1>1. ASSUME NEW m \in Messages, Send(m) PROVE LineInv'
  BY <1>1, LineSend
<1>2. CASE Damage
  BY <1>2, LineDamage
<1>3. CASE Receive
  BY <1>3, LineReceive
<1>4. CASE UNCHANGED vars
  BY <1>4 DEF LineInv, vars
<1> QED
  BY <1>1, <1>2, <1>3, <1>4 DEF Next

\* So it holds for all messages, all damage and any number of blows.
THEOREM LineCorrect == Spec => []LineInv
BY LineInit, LineStep, PTL DEF Spec

\* The two implementations refuse the same messages and find the same in the others,
\* whatever is sent, in whatever is left in the firmware's buffer, and whatever
\* happens to the bytes on the way (unpackMsg at sil_wire.cpp:63-84, unpack_msg at
\* sil_proto.py:78-92).
THEOREM OneVerdict == Spec => []SameVerdict
<1>1. LineInv => SameVerdict
  BY DEF LineInv, SameVerdict
<1> QED
  BY <1>1, LineCorrect, PTL

\* An undamaged message is accepted by both, says who and what it is, and is read
\* field by field where the other language has written it.
Undamaged ==
  got.read /\ hits = 0 => /\ got.cpp = Verdict(sent) /\ got.py = Verdict(sent)
                          /\ got.fields = Content(sent)

LEMMA LineUndamaged == LineInv => Undamaged
<1> SUFFICES ASSUME LineInv, got.read, hits = 0
             PROVE  /\ got.cpp = Verdict(sent) /\ got.py = Verdict(sent)
                    /\ got.fields = Content(sent)
  BY DEF Undamaged
<1>1. /\ sent \in Messages /\ line = Bytes(sent) /\ got.cpp = got.py /\ got.py = UnpackMsgPy(line)
      /\ got.fields = IF got.py.ok THEN FieldsOf(sent.type, got.py.body) ELSE <<>>
  BY DEF LineInv
<1>2. got.py = Verdict(sent)
  BY <1>1, SentIsAccepted
<1>3. got.py.ok /\ got.py.body = Carried(sent)
  BY <1>2 DEF Verdict
<1>4. FieldsOf(sent.type, Carried(sent)) = Content(sent)
  BY <1>1, CarriedAndRead DEF IsCarried
<1> QED
  BY <1>1, <1>2, <1>3, <1>4

LEMMA LineHandshake == LineInv => HandshakeTellsBuilds
<1> SUFFICES ASSUME LineInv, got.read, hits = 0, sent.type \in {"HELLO", "ACK"}
             PROVE  GoesOn <=> sent.fields = Hello(kSilDtUs, HelloSizesPy)
  BY DEF HandshakeTellsBuilds
<1>1. got.cpp = Verdict(sent) /\ got.py = Verdict(sent) /\ got.fields = Content(sent)
  BY LineUndamaged DEF Undamaged
<1>2. got.cpp.ok /\ got.py.ok
  BY <1>1 DEF Verdict
<1>3. got.fields = sent.fields
  BY <1>1 DEF Content
<1>4. CASE sent.type = "HELLO"
  BY <1>2, <1>3, <1>4 DEF GoesOn, PlantAcceptsHello
<1>5. CASE sent.type = "ACK"
  <2>1. GoesOn <=> FwAcceptsAck(sent.fields)
    BY <1>2, <1>3, <1>5 DEF GoesOn
  <2>2. Fills(SilHello, sent.fields)
    <3>1. line # <<>>
      BY DEF LineInv
    <3>2. sent \in Messages
      BY <3>1 DEF LineInv
    <3> QED
      BY <1>5, <3>2, MessagesAssumption DEF ContentOf
  <2>3. FwAcceptsAck(sent.fields) <=> sent.fields = Hello(kSilDtUs, HelloSizesPy)
    BY <2>2, AckCompares
  <2> QED
    BY <2>1, <2>3
<1> QED
  BY <1>4, <1>5

\* The handshake goes on if and only if the builds are equal, whichever side sees
\* it (helloAck at hal_sil.cpp:106-108, runner.py:98-104), for every build.
THEOREM Handshake == Spec => []HandshakeTellsBuilds
BY LineCorrect, LineHandshake, PTL

-----------------------------------------------------------------------------
(* What the CRC notices.                                                   *)

\* No two words are divided alike: the highest bit of the quotient is the lowest of
\* the word, and the others follow.
LEMMA DividedTells ==
  ASSUME NEW c \in SUBSET Ones, NEW d \in SUBSET Ones, Divided(c) = Divided(d)
  PROVE  c = d
<1>1. /\ \A b \in Ones : b \in Divided(c) <=> ~(b + 1 \in c <=> 0 \in c /\ b \in kPoly)
      /\ \A b \in Ones : b \in Divided(d) <=> ~(b + 1 \in d <=> 0 \in d /\ b \in kPoly)
  BY DividedIs
<1>2. 31 \in Ones /\ 31 \in kPoly /\ 31 + 1 \notin c /\ 31 + 1 \notin d
  BY DEF Ones, kPoly
<1>3. 0 \in c <=> 0 \in d
  BY <1>1, <1>2
<1>4. ASSUME NEW b \in Ones PROVE b \in c <=> b \in d
  <2>1. CASE b = 0
    BY <1>3, <2>1
  <2>2. CASE b # 0
    <3> DEFINE a == b - 1
    <3>1. a \in Ones /\ a + 1 = b
      BY <2>2 DEF Ones
    <3> HIDE DEF a
    <3>2. a + 1 \in c <=> a + 1 \in d
      BY <1>1, <1>3, <3>1
    <3> QED
      BY <3>1, <3>2
  <2> QED
    BY <2>1, <2>2
<1> QED
  BY <1>4

LEMMA EightTimesTells ==
  ASSUME NEW c \in SUBSET Ones, NEW d \in SUBSET Ones, EightTimes(c) = EightTimes(d)
  PROVE  c = d
<1>1. \A x, y \in SUBSET Ones : Twice(x) \in SUBSET Ones /\ (Twice(x) = Twice(y) => x = y)
  <2> SUFFICES ASSUME NEW x \in SUBSET Ones, NEW y \in SUBSET Ones
               PROVE  Twice(x) \in SUBSET Ones /\ (Twice(x) = Twice(y) => x = y)
    OBVIOUS
  <2>1. Divided(x) \in SUBSET Ones /\ Divided(y) \in SUBSET Ones
    BY DividedIs
  <2>2. Twice(x) = Divided(Divided(x)) /\ Twice(y) = Divided(Divided(y))
    BY DEF Twice
  <2>3. Twice(x) \in SUBSET Ones
    BY <2>1, <2>2, DividedIs
  <2>4. Twice(x) = Twice(y) => Divided(x) = Divided(y)
    BY <2>1, <2>2, DividedTells
  <2> QED
    BY <2>3, <2>4, DividedTells
<1> DEFINE c2 == Twice(c)
           c4 == Twice(c2)
           c6 == Twice(c4)
           d2 == Twice(d)
           d4 == Twice(d2)
           d6 == Twice(d4)
<1>2. /\ c2 \in SUBSET Ones /\ c4 \in SUBSET Ones /\ c6 \in SUBSET Ones
      /\ d2 \in SUBSET Ones /\ d4 \in SUBSET Ones /\ d6 \in SUBSET Ones
  BY <1>1
<1>3. Twice(c6) = Twice(d6)
  BY DEF EightTimes
<1>4. c6 = d6
  BY <1>1, <1>2, <1>3
<1>5. c4 = d4
  BY <1>1, <1>2, <1>4
<1>6. c2 = d2
  BY <1>1, <1>2, <1>5
<1> QED
  BY <1>1, <1>6

LEMMA DifferenceTells ==
  ASSUME NEW x, NEW y, NEW z
  PROVE  /\ SymDiff(x, y) = SymDiff(x, z) => y = z
         /\ SymDiff(y, x) = SymDiff(z, x) => y = z
<1>1. ASSUME SymDiff(x, y) = SymDiff(x, z) PROVE y = z
  <2>1. \A b : ~(b \in x <=> b \in y) <=> ~(b \in x <=> b \in z)
    BY <1>1, DifferenceIs
  <2> QED
    BY <2>1
<1>2. ASSUME SymDiff(y, x) = SymDiff(z, x) PROVE y = z
  <2>1. \A b : ~(b \in y <=> b \in x) <=> ~(b \in z <=> b \in x)
    BY <1>2, DifferenceIs
  <2> QED
    BY <2>1
<1> QED
  BY <1>1, <1>2

\* A step from two states, or with two bytes, leads to two states.
LEMMA StepTells ==
  ASSUME NEW c \in SUBSET Ones, NEW d \in SUBSET Ones, NEW a \in Byte, NEW b \in Byte
  PROVE  /\ c # d => Do(BitStep, c, a) # Do(BitStep, d, a)
         /\ a # b => Do(BitStep, c, a) # Do(BitStep, c, b)
<1>1. \A x \in SUBSET Ones : \A e \in Byte :
        SymDiff(x, e) \in SUBSET Ones /\ Do(BitStep, x, e) = EightTimes(SymDiff(x, e))
  <2> SUFFICES ASSUME NEW x \in SUBSET Ones, NEW e \in Byte
               PROVE  /\ SymDiff(x, e) \in SUBSET Ones
                      /\ Do(BitStep, x, e) = EightTimes(SymDiff(x, e))
    OBVIOUS
  <2>1. SymDiff(x, e) \in SUBSET Ones
    BY DEF Byte, Ones, SymDiff
  <2>2. Do(BitStep, x, e) = EightTimes(SymDiff(x, e))
    BY DEF Do, BitStep
  <2> QED
    BY <2>1, <2>2
<1>2. ASSUME Do(BitStep, c, a) = Do(BitStep, d, a) PROVE c = d
  <2>1. SymDiff(c, a) = SymDiff(d, a)
    BY <1>1, <1>2, EightTimesTells
  <2> QED
    BY <2>1, DifferenceTells
<1>3. ASSUME Do(BitStep, c, a) = Do(BitStep, c, b) PROVE a = b
  <2>1. SymDiff(c, a) = SymDiff(c, b)
    BY <1>1, <1>3, EightTimesTells
  <2> QED
    BY <2>1, DifferenceTells
<1> QED
  BY <1>2, <1>3

\* Two sequences differ in one byte.
OneByte(a, b, k) ==
  /\ a \in Seq(Byte) /\ b \in Seq(Byte) /\ Len(a) = Len(b) /\ k \in 1..Len(a)
  /\ a[k] # b[k] /\ \A i \in 1..Len(a) : i # k => a[i] = b[i]

\* Two sequences of bytes that differ in one of them do not have one CRC, whatever
\* they are: dividing by a polynomial whose last bit is set can be undone
\* (sil_wire.cpp:9-32), so a difference never goes away again.
THEOREM CrcNoticesOneByte ==
  ASSUME NEW a, NEW b, NEW k, OneByte(a, b, k)
  PROVE  ZlibCrc32(a) # ZlibCrc32(b)
<1> DEFINE n == Len(a)
           A == Running(BitStep, Ones, a)
           B == Running(BitStep, Ones, b)
<1>1. /\ n \in Nat /\ Len(b) = n /\ k \in 1..n /\ a[k] # b[k]
      /\ \A i \in 1..n : a[i] \in Byte /\ b[i] \in Byte
      /\ \A i \in 1..n : i # k => a[i] = b[i]
  BY DEF OneByte
<1>2. A \in [0..n -> SUBSET Ones] /\ A[0] = Ones /\ \A i \in 1..n : A[i] = Do(BitStep, A[i - 1], a[i])
  <2>1. Runs(BitStep, Ones, a, SUBSET Ones, Byte)
    BY BitStepType DEF Runs, OneByte
  <2>2. Solves(A, n, BitStep, Ones, a, SUBSET Ones)
    BY <2>1, RunningIs
  <2> QED
    BY <2>2 DEF Solves
<1>3. B \in [0..n -> SUBSET Ones] /\ B[0] = Ones /\ \A i \in 1..n : B[i] = Do(BitStep, B[i - 1], b[i])
  <2>1. Runs(BitStep, Ones, b, SUBSET Ones, Byte)
    BY BitStepType DEF Runs, OneByte
  <2>2. Solves(B, Len(b), BitStep, Ones, b, SUBSET Ones)
    BY <2>1, RunningIs
  <2>3. /\ B \in [0..Len(b) -> SUBSET Ones] /\ B[0] = Ones
        /\ \A i \in 1..Len(b) : B[i] = Do(BitStep, B[i - 1], b[i])
    BY <2>2 DEF Solves
  <2> HIDE DEF B, n
  <2> QED
    BY <1>1, <2>3
<1>4. Overall(BitStep, Ones, a) = A[n] /\ Overall(BitStep, Ones, b) = B[n]
  BY <1>1 DEF Overall
<1> HIDE DEF A, B, n
<1> DEFINE before == {i \in 0..(k - 1) : A[i] = B[i]}
<1>5. k - 1 \in Nat /\ n - k \in Nat
  BY <1>1
<1>6. 0 \in before
  BY <1>2, <1>3, <1>5
<1>7. \A i \in 0..(k - 1) : i > 0 /\ i - 1 \in before => i \in before
  <2> SUFFICES ASSUME NEW i \in 0..(k - 1), i > 0, i - 1 \in before PROVE A[i] = B[i]
    OBVIOUS
  <2>1. i \in 1..n /\ i # k /\ A[i - 1] = B[i - 1]
    BY <1>1
  <2> QED
    BY <1>1, <1>2, <1>3, <2>1
<1> HIDE DEF before
<1>8. 0..(k - 1) \subseteq before
  BY <1>5, <1>6, <1>7, UpwardInduction
<1>9. A[k - 1] = B[k - 1]
  <2>1. k - 1 \in 0..(k - 1)
    BY <1>5
  <2> QED
    BY <1>8, <2>1 DEF before
<1>10. A[k] # B[k]
  <2>1. A[k - 1] \in SUBSET Ones /\ a[k] \in Byte /\ b[k] \in Byte /\ a[k] # b[k]
    BY <1>1, <1>2
  <2>2. Do(BitStep, A[k - 1], a[k]) # Do(BitStep, A[k - 1], b[k])
    BY <2>1, StepTells
  <2>3. A[k] = Do(BitStep, A[k - 1], a[k]) /\ B[k] = Do(BitStep, B[k - 1], b[k])
    BY <1>1, <1>2, <1>3
  <2> QED
    BY <1>9, <2>2, <2>3
<1> DEFINE after == {j \in 0..(n - k) : A[k + j] # B[k + j]}
<1>11. 0 \in after
  <2>1. k + 0 = k
    BY <1>1
  <2> QED
    BY <1>5, <1>10, <2>1
<1>12. \A j \in 0..(n - k) : j > 0 /\ j - 1 \in after => j \in after
  <2> SUFFICES ASSUME NEW j \in 0..(n - k), j > 0, j - 1 \in after PROVE A[k + j] # B[k + j]
    OBVIOUS
  <2> DEFINE i == k + j
  <2>1. i \in 1..n /\ i # k /\ i - 1 \in 0..n /\ k + (j - 1) = i - 1
    BY <1>1
  <2>2. A[i - 1] # B[i - 1]
    BY <2>1
  <2> HIDE DEF i
  <2>3. A[i - 1] \in SUBSET Ones /\ B[i - 1] \in SUBSET Ones /\ a[i] \in Byte /\ a[i] = b[i]
    BY <1>1, <1>2, <1>3, <2>1
  <2>4. Do(BitStep, A[i - 1], a[i]) # Do(BitStep, B[i - 1], a[i])
    BY <2>2, <2>3, StepTells
  <2>5. A[i] = Do(BitStep, A[i - 1], a[i]) /\ B[i] = Do(BitStep, B[i - 1], a[i])
    BY <1>2, <1>3, <2>1, <2>3
  <2>6. A[i] # B[i]
    BY <2>4, <2>5
  <2> QED
    BY <2>6 DEF i
<1> HIDE DEF after
<1>13. 0..(n - k) \subseteq after
  BY <1>5, <1>11, <1>12, UpwardInduction
<1>14. A[n] # B[n]
  <2>1. n - k \in 0..(n - k) /\ k + (n - k) = n
    BY <1>1, <1>5
  <2>2. A[k + (n - k)] # B[k + (n - k)]
    BY <1>13, <2>1 DEF after
  <2> QED
    BY <2>1, <2>2
<1>15. /\ ZlibCrc32(a) = SymDiff(A[n], Ones) /\ ZlibCrc32(b) = SymDiff(B[n], Ones)
  BY <1>4 DEF ZlibCrc32
<1> QED
  BY <1>14, <1>15, DifferenceTells

-----------------------------------------------------------------------------
(* What a blow does to a message: a byte changed, the end cut off, a byte  *)
(* too many.                                                               *)

\* A message of which the CRC field is blank.
Blank(msg) == [i \in 1..Len(msg) |-> IF i \in 11..14 THEN {} ELSE msg[i]]

LEMMA FollowIs ==
  ASSUME NEW a, NEW b, NEW n \in Nat, NEW m \in Nat, AreBytes(a, n), AreBytes(b, m)
  PROVE  Follow(a, b, a \o b, n, m) /\ a \o b \in Seq(Byte)
<1>1. a \in Seq(Byte) /\ b \in Seq(Byte) /\ Len(a) = n /\ Len(b) = m
  BY DEF AreBytes
<1>2. /\ \A i \in 1..Len(a) : (a \o b)[i] = a[i]
      /\ \A i \in 1..Len(b) : (a \o b)[Len(a) + i] = b[i]
  <2>1. \A i \in 1..Len(a) : (a \o b)[i] = a[i]
    BY <1>1
  <2>2. \A i \in 1..Len(b) : (a \o b)[Len(a) + i] = b[i]
    BY <1>1
  <2> QED
    BY <2>1, <2>2
<1>3. a \o b \in Seq(Byte) /\ Len(a \o b) = Len(a) + Len(b)
  BY <1>1
<1> DEFINE c == a \o b
<1> HIDE DEF c
<1>4. Follow(a, b, c, n, m)
  BY <1>1, <1>2, <1>3 DEF Follow, c
<1> QED
  BY <1>3, <1>4 DEF c

Holds(msg, n, crc, blank) ==
  /\ msg \in Seq(Byte) /\ n \in Nat /\ Len(msg) = 14 + n
  /\ \A j \in 1..4 : msg[10 + j] = ToBytes(crc, 4)[j]
  /\ blank = Blank(msg)

LEMMA PackedBytes ==
  ASSUME NEW type, NEW len, NEW seq, NEW crc, NEW payload \in Seq(Byte),
         NEW msg, msg = Hdr(type, len, seq, crc) \o payload
  PROVE  Holds(msg, Len(payload), crc, Hdr(type, len, seq, {}) \o payload)
<1> DEFINE a == ToBytes(kMagic, 2)
           b == ToBytes(kProtoVersion, 1)
           c == ToBytes(type, 1)
           d == ToBytes(Word(len, 16), 2)
           e == ToBytes(seq, 4)
           f == ToBytes(crc, 4)
           z == ToBytes({}, 4)
           ten == a \o b \o c \o d \o e
           rest == Hdr(type, len, seq, {}) \o payload
<1>1. /\ AreBytes(a, 2) /\ AreBytes(b, 1) /\ AreBytes(c, 1) /\ AreBytes(d, 2) /\ AreBytes(e, 4)
      /\ AreBytes(f, 4) /\ AreBytes(z, 4)
  <2>1. \A word : \A w \in Nat : AreBytes(ToBytes(word, w), w)
    BY ToBytesType DEF AreBytes
  <2> HIDE DEF a, b, c, d, e, f, z
  <2> QED
    BY <2>1 DEF a, b, c, d, e, f, z
<1>2. Hdr(type, len, seq, crc) = ten \o f /\ Hdr(type, len, seq, {}) = ten \o z
  BY DEF Hdr
<1>3. \A j \in 1..4 : z[j] = {}
  BY DEF ToBytes
<1> HIDE DEF a, b, c, d, e
<1>4. AreBytes(a \o b, 3)
  BY <1>1, BytesOfBoth
<1>5. AreBytes(a \o b \o c, 4)
  BY <1>1, <1>4, BytesOfBoth
<1>6. AreBytes(a \o b \o c \o d, 6)
  BY <1>1, <1>5, BytesOfBoth
<1>7. AreBytes(ten, 10)
  BY <1>1, <1>6, BytesOfBoth
<1> HIDE DEF ten, f, z
<1>8. AreBytes(ten \o f, 14) /\ AreBytes(ten \o z, 14)
  BY <1>1, <1>7, BytesOfBoth
<1> DEFINE hf == ten \o f
           hz == ten \o z
           n == Len(payload)
<1>10. Follow(ten, f, hf, 10, 4) /\ Follow(ten, z, hz, 10, 4)
  BY <1>1, <1>7, FollowIs
<1>12. msg = hf \o payload /\ rest = hz \o payload
  BY <1>2
<1>15. n \in Nat /\ AreBytes(payload, n)
  BY DEF AreBytes
<1>11. AreBytes(hf, 14) /\ AreBytes(hz, 14)
  BY <1>8
<1> HIDE DEF hf, hz, rest, n
<1>13. Follow(hf, payload, msg, 14, n) /\ msg \in Seq(Byte)
  BY <1>11, <1>12, <1>15, FollowIs
<1>14. Follow(hz, payload, rest, 14, n) /\ rest \in Seq(Byte)
  BY <1>11, <1>12, <1>15, FollowIs
<1>16. Len(msg) = 14 + n /\ Len(rest) = 14 + n
  BY <1>13, <1>14 DEF Follow
<1>20. /\ \A i \in 1..10 : hf[i] = ten[i] /\ hz[i] = ten[i]
       /\ \A j \in 1..4 : hf[10 + j] = f[j] /\ hz[10 + j] = z[j]
  BY <1>10 DEF Follow
<1>21. /\ \A i \in 1..14 : msg[i] = hf[i] /\ rest[i] = hz[i]
       /\ \A i \in 1..n : msg[14 + i] = payload[i] /\ rest[14 + i] = payload[i]
  BY <1>13, <1>14 DEF Follow
<1>17. \A j \in 1..4 : msg[10 + j] = f[j]
  <2> SUFFICES ASSUME NEW j \in 1..4 PROVE msg[10 + j] = f[j]
    OBVIOUS
  <2>1. 10 + j \in 1..14
    OBVIOUS
  <2> QED
    BY <1>20, <1>21, <2>1
<1>18. ASSUME NEW i \in 1..(14 + n) PROVE rest[i] = IF i \in 11..14 THEN {} ELSE msg[i]
  <2>1. CASE i \in 1..10
    <3>1. i \in 1..14 /\ i \notin 11..14
      BY <2>1
    <3>2. hf[i] = ten[i] /\ hz[i] = ten[i]
      BY <1>20, <2>1
    <3>3. msg[i] = hf[i] /\ rest[i] = hz[i]
      BY <1>21, <3>1
    <3>4. rest[i] = msg[i]
      BY <3>2, <3>3
    <3> QED
      BY <3>1, <3>4
  <2>2. CASE i \in 11..14
    <3>1. i - 10 \in 1..4 /\ 10 + (i - 10) = i /\ i \in 1..14
      BY <2>2
    <3>2. hz[10 + (i - 10)] = z[i - 10] /\ z[i - 10] = {}
      BY <1>3, <1>20, <3>1
    <3>3. rest[i] = hz[i]
      BY <1>21, <3>1
    <3> QED
      BY <2>2, <3>1, <3>2, <3>3
  <2>3. CASE i \notin 1..14
    <3>1. i - 14 \in 1..n /\ 14 + (i - 14) = i /\ i \notin 11..14
      BY <1>15, <2>3
    <3>2. rest[14 + (i - 14)] = payload[i - 14] /\ msg[14 + (i - 14)] = payload[i - 14]
      BY <1>21, <3>1
    <3> QED
      BY <3>1, <3>2
  <2>4. i \in 1..10 \/ i \in 11..14 \/ i \notin 1..14
    BY <1>15
  <2> QED
    BY <2>1, <2>2, <2>3, <2>4
<1>19. rest = Blank(msg)
  <2>1. Blank(msg) = [i \in 1..(14 + n) |-> IF i \in 11..14 THEN {} ELSE msg[i]]
    BY <1>16 DEF Blank
  <2>2. rest = [i \in 1..(14 + n) |-> rest[i]]
    BY <1>14, <1>16
  <2> QED
    BY <1>18, <2>1, <2>2
<1> QED
  BY <1>13, <1>15, <1>16, <1>17, <1>19 DEF Holds, f, rest, n

\* A message holds the CRC of the rest of it.
Sealed(msg) ==
  /\ msg \in Seq(Byte) /\ Len(msg) >= 14
  /\ \A j \in 1..4 : msg[10 + j] = ToBytes(ZlibCrc32(Blank(msg)), 4)[j]

LEMMA BlankType ==
  ASSUME NEW msg \in Seq(Byte)
  PROVE  Blank(msg) \in Seq(Byte) /\ Len(Blank(msg)) = Len(msg)
<1>1. \A i \in 1..Len(msg) : (IF i \in 11..14 THEN {} ELSE msg[i]) \in Byte
  BY DEF Byte
<1> QED
  BY <1>1 DEF Blank

\* A sealed message of which one byte has been changed is not sealed.
LEMMA OneByteUnseals ==
  ASSUME NEW msg, NEW bad, NEW k, Sealed(msg), OneByte(msg, bad, k)
  PROVE  ~Sealed(bad)
<1> SUFFICES ASSUME Sealed(bad) PROVE FALSE
  OBVIOUS
<1> DEFINE a == Blank(msg)
           b == Blank(bad)
           c == ZlibCrc32(a)
           d == ZlibCrc32(b)
<1>1. /\ msg \in Seq(Byte) /\ bad \in Seq(Byte) /\ Len(msg) = Len(bad) /\ k \in 1..Len(msg)
      /\ msg[k] # bad[k] /\ \A i \in 1..Len(msg) : i # k => msg[i] = bad[i]
      /\ Len(msg) >= 14 /\ Len(msg) \in Nat
  BY DEF OneByte, Sealed
<1>2. a \in Seq(Byte) /\ b \in Seq(Byte) /\ Len(a) = Len(msg) /\ Len(b) = Len(msg)
  BY <1>1, BlankType
<1>3. /\ \A i \in 1..Len(msg) : a[i] = IF i \in 11..14 THEN {} ELSE msg[i]
      /\ \A i \in 1..Len(msg) : b[i] = IF i \in 11..14 THEN {} ELSE bad[i]
  BY <1>1 DEF Blank
<1>4. /\ \A j \in 1..4 : msg[10 + j] = ToBytes(c, 4)[j]
      /\ \A j \in 1..4 : bad[10 + j] = ToBytes(d, 4)[j]
  BY DEF Sealed
<1>5. a = [i \in 1..Len(msg) |-> a[i]] /\ b = [i \in 1..Len(msg) |-> b[i]]
  BY <1>1 DEF Blank
<1>6. IsWord(c) /\ IsWord(d)
  BY <1>2, CrcType
<1> HIDE DEF a, b, c, d
<1>7. CASE k \in 11..14
  <2>1. ASSUME NEW i \in 1..Len(msg) PROVE a[i] = b[i]
    <3>1. CASE i = k
      BY <1>3, <1>7, <3>1
    <3>2. CASE i # k
      BY <1>1, <1>3, <3>2
    <3> QED
      BY <3>1, <3>2
  <2>2. a = b
    BY <1>5, <2>1
  <2>3. c = d
    BY <2>2 DEF c, d
  <2> DEFINE j == k - 10
  <2>4. j \in 1..4 /\ 10 + j = k
    BY <1>7
  <2> HIDE DEF j
  <2>5. msg[10 + j] = bad[10 + j]
    BY <1>4, <2>3, <2>4
  <2> QED
    BY <1>1, <2>4, <2>5
<1>8. CASE k \notin 11..14
  <2>1. \A i \in 1..Len(msg) : i # k => a[i] = b[i]
    <3> SUFFICES ASSUME NEW i \in 1..Len(msg), i # k PROVE a[i] = b[i]
      OBVIOUS
    <3>1. msg[i] = bad[i]
      BY <1>1
    <3> QED
      BY <1>3, <3>1
  <2>2. a[k] # b[k]
    <3>1. a[k] = msg[k] /\ b[k] = bad[k]
      BY <1>1, <1>3, <1>8
    <3> QED
      BY <1>1, <3>1
  <2>3. OneByte(a, b, k)
    BY <1>1, <1>2, <2>1, <2>2 DEF OneByte
  <2>4. c # d
    BY <2>3, CrcNoticesOneByte DEF c, d
  <2>5. ASSUME NEW j \in 1..4 PROVE ToBytes(c, 4)[j] = ToBytes(d, 4)[j]
    <3>1. 10 + j \in 1..Len(msg) /\ 10 + j # k
      BY <1>1, <1>8
    <3>2. msg[10 + j] = bad[10 + j]
      BY <1>1, <3>1
    <3> QED
      BY <1>4, <3>2
  <2>6. ToBytes(c, 4) = ToBytes(d, 4)
    <3> DEFINE u == ToBytes(c, 4)
               v == ToBytes(d, 4)
    <3>1. u = [j \in 1..4 |-> u[j]] /\ v = [j \in 1..4 |-> v[j]]
      BY DEF ToBytes
    <3>2. \A j \in 1..4 : u[j] = v[j]
      BY <2>5
    <3> HIDE DEF u, v
    <3>3. u = v
      BY <3>1, <3>2
    <3> QED
      BY <3>3 DEF u, v
  <2>7. OfWidth(c, 4) /\ OfWidth(d, 4)
    BY <1>6 DEF IsWord, OfWidth, Ones
  <2>8. OfBytes(ToBytes(c, 4)) = c /\ OfBytes(ToBytes(d, 4)) = d
    BY <2>7, BytesAreRead
  <2> QED
    BY <2>4, <2>6, <2>8
<1> QED
  BY <1>7, <1>8

\* A message of these fields, and one that holds the CRC of the rest.
Whole(type, len, seq, crc, payload) == Hdr(type, len, seq, crc) \o payload

Packed(msg, type, len, seq, crc, payload) ==
  /\ payload \in Seq(Byte) /\ msg = Whole(type, len, seq, crc, payload)
  /\ crc = ZlibCrc32(Whole(type, len, seq, {}, payload))

LEMMA PackedHolds ==
  ASSUME NEW msg, NEW type, NEW len, NEW seq, NEW crc, NEW payload,
         Packed(msg, type, len, seq, crc, payload)
  PROVE  Holds(msg, Len(payload), crc, Whole(type, len, seq, {}, payload))
BY PackedBytes DEF Packed, Whole

LEMMA PackedIsSealed ==
  ASSUME NEW msg, NEW type, NEW len, NEW seq, NEW crc, NEW payload,
         Packed(msg, type, len, seq, crc, payload)
  PROVE  Sealed(msg)
<1> DEFINE n == Len(payload)
           blank == Whole(type, len, seq, {}, payload)
<1>1. Holds(msg, n, crc, blank)
  BY PackedHolds
<1>2. crc = ZlibCrc32(blank)
  BY DEF Packed
<1> HIDE DEF n, blank
<1>3. /\ msg \in Seq(Byte) /\ n \in Nat /\ Len(msg) = 14 + n /\ blank = Blank(msg)
      /\ \A j \in 1..4 : msg[10 + j] = ToBytes(crc, 4)[j]
  BY <1>1 DEF Holds
<1>4. crc = ZlibCrc32(Blank(msg))
  BY <1>2, <1>3
<1>5. \A j \in 1..4 : msg[10 + j] = ToBytes(ZlibCrc32(Blank(msg)), 4)[j]
  BY <1>3, <1>4
<1>6. Len(msg) >= 14
  BY <1>3
<1> QED
  BY <1>3, <1>5, <1>6 DEF Sealed

LEMMA BytesAreWritten ==
  ASSUME NEW w \in 1..4, NEW bytes, AreBytes(bytes, w)
  PROVE  ToBytes(OfBytes(bytes), w) = bytes
<1>1. /\ bytes \in Seq(Byte) /\ Len(bytes) = w
      /\ \A j \in 1..w : bytes[j] \subseteq 0..7
  BY DEF AreBytes, Byte
<1>2. OfBytes(bytes) = {p \in 0..(8 * w - 1) : p % 8 \in bytes[1 + p \div 8]}
  BY <1>1 DEF OfBytes
<1>3. ASSUME NEW j \in 1..w, NEW b \in 0..7
      PROVE  8 * (j - 1) + b \in OfBytes(bytes) <=> b \in bytes[j]
  <2> DEFINE p == 8 * (j - 1) + b
  <2>1. p \in 0..(8 * w - 1) /\ p % 8 = b /\ 1 + p \div 8 = j
    OBVIOUS
  <2> HIDE DEF p
  <2>2. p \in OfBytes(bytes) <=> b \in bytes[j]
    BY <1>2, <2>1
  <2> QED
    BY <2>2 DEF p
<1>4. ASSUME NEW j \in 1..w
      PROVE  {b \in 0..7 : 8 * (j - 1) + b \in OfBytes(bytes)} = bytes[j]
  BY <1>1, <1>3
<1>5. ToBytes(OfBytes(bytes), w) = [j \in 1..w |-> bytes[j]]
  BY <1>4 DEF ToBytes
<1> QED
  BY <1>1, <1>5

LEMMA Onward ==
  ASSUME NEW S, NEW s \in Seq(S), NEW m \in Nat, NEW n \in Nat, m <= n, n <= Len(s)
  PROVE  SubSeq(s, 1, m) \o SubSeq(s, m + 1, n) = SubSeq(s, 1, n)
<1> DEFINE a == SubSeq(s, 1, m)
           b == SubSeq(s, m + 1, n)
           c == SubSeq(s, 1, n)
<1>1. a \in Seq(S) /\ Len(a) = m /\ \A i \in 1..m : a[i] = s[i]
  OBVIOUS
<1>2. b \in Seq(S) /\ Len(b) = n - m /\ \A i \in 1..(n - m) : b[i] = s[m + i]
  OBVIOUS
<1>3. c \in Seq(S) /\ Len(c) = n /\ \A i \in 1..n : c[i] = s[i]
  OBVIOUS
<1> HIDE DEF a, b, c
<1>4. \A i \in 1..m : c[i] = a[i]
  BY <1>1, <1>3
<1>5. \A i \in 1..(n - m) : c[m + i] = b[i]
  <2> SUFFICES ASSUME NEW i \in 1..(n - m) PROVE c[m + i] = b[i]
    OBVIOUS
  <2>1. m + i \in 1..n
    OBVIOUS
  <2> QED
    BY <1>2, <1>3, <2>1
<1>6. Follow(a, b, c, m, n - m)
  BY <1>1, <1>2, <1>3, <1>4, <1>5 DEF Follow
<1>7. a \o b = c
  BY <1>1, <1>2, <1>3, <1>6, BothAre
<1> QED
  BY <1>7 DEF a, b, c

\* The fields of a header where they are in its bytes.
HdrAt(bytes, h) ==
  /\ h.magic = OfBytes(SubSeq(bytes, 1, 2)) /\ h.ver = OfBytes(SubSeq(bytes, 3, 3))
  /\ h.type = OfBytes(SubSeq(bytes, 4, 4)) /\ h.len = Number(OfBytes(SubSeq(bytes, 5, 6)))
  /\ h.seq = OfBytes(SubSeq(bytes, 7, 10)) /\ h.crc = OfBytes(SubSeq(bytes, 11, 14))

LEMMA HdrPieces == \A bytes : HdrAt(bytes, HdrOf(bytes))
<1> SUFFICES ASSUME NEW bytes PROVE HdrAt(bytes, HdrOf(bytes))
  OBVIOUS
<1> DEFINE E == Running(Plus, 0, HdrFmt)
           f == [i \in DOMAIN HdrFmt |-> OfBytes(Cut(bytes, HdrFmt)[i])]
<1>1. /\ E[0] = 0 /\ E[1] = 2 /\ E[2] = 3 /\ E[3] = 4 /\ E[4] = 6 /\ E[5] = 10 /\ E[6] = 14
  BY HdrEnds
<1>2. DOMAIN HdrFmt = 1..6
  BY DEF HdrFmt
<1>3. \A i \in 1..6 : \A j : j = i - 1 => f[i] = OfBytes(SubSeq(bytes, E[j] + 1, E[i]))
  BY <1>2 DEF Cut
<1>4. HdrOf(bytes) = [magic |-> f[1], ver |-> f[2], type |-> f[3], len |-> Number(f[4]),
                      seq |-> f[5], crc |-> f[6]]
  BY DEF HdrOf
<1> HIDE DEF E, f
<1>5. f[1] = OfBytes(SubSeq(bytes, 1, 2)) /\ f[2] = OfBytes(SubSeq(bytes, 3, 3))
  BY <1>1, <1>3
<1>6. f[3] = OfBytes(SubSeq(bytes, 4, 4)) /\ f[4] = OfBytes(SubSeq(bytes, 5, 6))
  BY <1>1, <1>3
<1>7. f[5] = OfBytes(SubSeq(bytes, 7, 10)) /\ f[6] = OfBytes(SubSeq(bytes, 11, 14))
  BY <1>1, <1>3
<1> QED
  BY <1>4, <1>5, <1>6, <1>7 DEF HdrAt

\* Is this the field of bytes that says how long the message is?
SaysLength(bytes, len) == SubSeq(bytes, 5, 6) = ToBytes(Word(len, 16), 2)

\* A header of this version with these fields.
IsHdr(bytes, h, len) ==
  /\ bytes \in Seq(Byte) /\ 14 <= Len(bytes) /\ HdrAt(bytes, h)
  /\ h.magic = kMagic /\ h.ver = kProtoVersion /\ SaysLength(bytes, len)

\* A header is the bytes of its fields.
LEMMA HdrIsWritten ==
  ASSUME NEW bytes, NEW h, NEW len, IsHdr(bytes, h, len)
  PROVE  SubSeq(bytes, 1, 14) = Hdr(h.type, len, h.seq, h.crc)
<1> DEFINE p1 == SubSeq(bytes, 1, 2)
           p2 == SubSeq(bytes, 3, 3)
           p3 == SubSeq(bytes, 4, 4)
           p4 == SubSeq(bytes, 5, 6)
           p5 == SubSeq(bytes, 7, 10)
           p6 == SubSeq(bytes, 11, 14)
<1>0. bytes \in Seq(Byte) /\ 14 <= Len(bytes)
  BY DEF IsHdr
<1>1. AreBytes(p1, 2)
  BY <1>0 DEF AreBytes
<1>2. AreBytes(p2, 1)
  BY <1>0 DEF AreBytes
<1>3. AreBytes(p3, 1)
  BY <1>0 DEF AreBytes
<1>4. AreBytes(p5, 4)
  BY <1>0 DEF AreBytes
<1>5. AreBytes(p6, 4)
  BY <1>0 DEF AreBytes
<1>6. /\ OfBytes(p1) = kMagic /\ OfBytes(p2) = kProtoVersion /\ OfBytes(p3) = h.type
      /\ OfBytes(p5) = h.seq /\ OfBytes(p6) = h.crc /\ p4 = ToBytes(Word(len, 16), 2)
  BY DEF HdrAt, IsHdr, SaysLength
<1> DEFINE S(n) == SubSeq(bytes, 1, n)
<1>7. S(3) = p1 \o p2
  <2>1. SubSeq(bytes, 1, 2) \o SubSeq(bytes, 2 + 1, 3) = SubSeq(bytes, 1, 3)
    BY <1>0, Onward
  <2> QED
    BY <2>1
<1>8. S(4) = S(3) \o p3
  <2>1. SubSeq(bytes, 1, 3) \o SubSeq(bytes, 3 + 1, 4) = SubSeq(bytes, 1, 4)
    BY <1>0, Onward
  <2> QED
    BY <2>1
<1>9. S(6) = S(4) \o p4
  <2>1. SubSeq(bytes, 1, 4) \o SubSeq(bytes, 4 + 1, 6) = SubSeq(bytes, 1, 6)
    BY <1>0, Onward
  <2> QED
    BY <2>1
<1>10. S(10) = S(6) \o p5
  <2>1. SubSeq(bytes, 1, 6) \o SubSeq(bytes, 6 + 1, 10) = SubSeq(bytes, 1, 10)
    BY <1>0, Onward
  <2> QED
    BY <2>1
<1>11. S(14) = S(10) \o p6
  <2>1. SubSeq(bytes, 1, 10) \o SubSeq(bytes, 10 + 1, 14) = SubSeq(bytes, 1, 14)
    BY <1>0, Onward
  <2> QED
    BY <2>1
<1> HIDE DEF S, p1, p2, p3, p4, p5, p6
<1>12. /\ p1 = ToBytes(kMagic, 2) /\ p2 = ToBytes(kProtoVersion, 1) /\ p3 = ToBytes(h.type, 1)
       /\ p5 = ToBytes(h.seq, 4) /\ p6 = ToBytes(h.crc, 4)
  <2>1. ToBytes(OfBytes(p1), 2) = p1
    BY <1>1, BytesAreWritten
  <2>2. ToBytes(OfBytes(p2), 1) = p2
    BY <1>2, BytesAreWritten
  <2>3. ToBytes(OfBytes(p3), 1) = p3
    BY <1>3, BytesAreWritten
  <2>4. ToBytes(OfBytes(p5), 4) = p5
    BY <1>4, BytesAreWritten
  <2>5. ToBytes(OfBytes(p6), 4) = p6
    BY <1>5, BytesAreWritten
  <2> QED
    BY <1>6, <2>1, <2>2, <2>3, <2>4, <2>5
<1>13. S(14) = ToBytes(kMagic, 2) \o ToBytes(kProtoVersion, 1) \o ToBytes(h.type, 1)
                 \o ToBytes(Word(len, 16), 2) \o ToBytes(h.seq, 4) \o ToBytes(h.crc, 4)
  BY <1>6, <1>7, <1>8, <1>9, <1>10, <1>11, <1>12
<1> QED
  BY <1>13 DEF S, Hdr

LEMMA LengthIsSaid ==
  ASSUME NEW bytes, NEW len \in Nat, len < 65536, SaysLength(bytes, len)
  PROVE  HdrOf(bytes).len = len
<1>1. HdrOf(bytes).len = Number(OfBytes(SubSeq(bytes, 5, 6)))
  BY HdrPieces DEF HdrAt
<1>2. OfWidth(Word(len, 16), 2)
  BY DEF OfWidth, Word
<1>3. OfBytes(ToBytes(Word(len, 16), 2)) = Word(len, 16)
  BY <1>2, BytesAreRead
<1>4. Number(Word(len, 16)) = len
  BY NumberIsRead
<1> DEFINE piece == SubSeq(bytes, 5, 6)
<1>5. piece = ToBytes(Word(len, 16), 2)
  BY DEF SaysLength
<1>6. HdrOf(bytes).len = Number(OfBytes(piece))
  BY <1>1
<1> HIDE DEF piece
<1>7. OfBytes(piece) = Word(len, 16)
  BY <1>3, <1>5
<1>8. Number(OfBytes(piece)) = len
  BY <1>4, <1>7
<1> QED
  BY <1>6, <1>8

\* Whatever is accepted holds the CRC of the rest of it.
LEMMA AcceptedIsSealed ==
  ASSUME NEW bytes \in Seq(Byte), NEW len \in Nat, len < 65536, Len(bytes) = 14 + len,
         SaysLength(bytes, len), UnpackMsgPy(bytes).ok
  PROVE  Sealed(bytes)
<1> DEFINE h == HdrOf(bytes)
           body == SubSeq(bytes, HdrSize + 1, HdrSize + h.len)
           crc == ZlibCrc32(Hdr(h.type, h.len, h.seq, {}) \o body)
           fits == /\ Len(bytes) >= HdrSize /\ h.magic = kMagic /\ h.ver = kProtoVersion
                   /\ HdrSize + h.len <= Len(bytes) /\ crc = h.crc
<1>1. UnpackMsgPy(bytes) = IF fits THEN Accepted(h, body) ELSE Refused
  BY DEF UnpackMsgPy
<1>2. fits
  <2> HIDE DEF fits, h, body
  <2> QED
    BY <1>1 DEF Refused
<1>3. h.len = len
  BY LengthIsSaid
<1>4. HdrAt(bytes, h)
  BY HdrPieces
<1> HIDE DEF h
<1>5. h.magic = kMagic /\ h.ver = kProtoVersion /\ crc = h.crc
  BY <1>2
<1> DEFINE front == SubSeq(bytes, 1, 14)
           back == SubSeq(bytes, 14 + 1, 14 + len)
           type == h.type
           seq == h.seq
           sum == h.crc
<1>6. front = Hdr(type, len, seq, sum)
  <2>1. 14 <= Len(bytes)
    OBVIOUS
  <2> HIDE DEF body, crc
  <2>2. IsHdr(bytes, h, len)
    BY <1>4, <1>5, <2>1 DEF IsHdr
  <2> QED
    BY <2>2, HdrIsWritten
<1>7. body = back
  BY <1>3 DEF HdrSize
<1>8. front \o back = bytes
  <2>1. front \o back = SubSeq(bytes, 1, 14 + len)
    BY Onward
  <2>2. SubSeq(bytes, 1, 14 + len) = bytes
    OBVIOUS
  <2> QED
    BY <2>1, <2>2
<1>9. back \in Seq(Byte)
  <2> HIDE DEF body, front, crc, type, seq, sum
  <2> QED
    OBVIOUS
<1>10. sum = ZlibCrc32(Hdr(type, len, seq, {}) \o back)
  <2> HIDE DEF body, back
  <2> QED
    BY <1>3, <1>5, <1>7
<1> HIDE DEF front, back, type, seq, sum
<1>11. bytes = Whole(type, len, seq, sum, back)
  BY <1>6, <1>8 DEF Whole
<1>12. sum = ZlibCrc32(Whole(type, len, seq, {}, back))
  BY <1>10 DEF Whole
<1>13. Packed(bytes, type, len, seq, sum, back)
  BY <1>9, <1>11, <1>12 DEF Packed
<1> QED
  BY <1>13, PackedIsSealed

\* What is on the line when m has been sent.
IsMessage(msg, len) ==
  /\ msg \in Seq(Byte) /\ len \in Nat /\ len < 65536 /\ Len(msg) = 14 + len
  /\ SaysLength(msg, len) /\ Sealed(msg)

LEMMA LengthStays ==
  ASSUME NEW s, NEW t \in Seq(Byte), NEW n \in {6, 10, 14}, AreBytes(s, n)
  PROVE  SubSeq(s \o t, 5, 6) = SubSeq(s, 5, 6)
<1>1. s \in Seq(Byte) /\ Len(s) = n
  BY DEF AreBytes
<1>2. 6 <= Len(s)
  BY <1>1
<1>3. \A j \in Nat : SubSeq(s \o t, j + 1, 6) = SubSeq(s, j + 1, 6)
  BY <1>1, <1>2, FrontOf
<1>4. \A j \in Nat : \A i : i = j + 1 => SubSeq(s \o t, i, 6) = SubSeq(s, i, 6)
  BY <1>3
<1>5. 4 \in Nat /\ 5 = 4 + 1
  OBVIOUS
<1> QED
  BY <1>4, <1>5

LEMMA HdrSaysLength ==
  ASSUME NEW type, NEW len, NEW seq, NEW crc, NEW payload \in Seq(Byte)
  PROVE  SaysLength(Hdr(type, len, seq, crc) \o payload, len)
<1> DEFINE a == ToBytes(kMagic, 2)
           b == ToBytes(kProtoVersion, 1)
           c == ToBytes(type, 1)
           d == ToBytes(Word(len, 16), 2)
           e == ToBytes(seq, 4)
           f == ToBytes(crc, 4)
           abc == a \o b \o c
<1>1. /\ AreBytes(a, 2) /\ AreBytes(b, 1) /\ AreBytes(c, 1) /\ AreBytes(d, 2) /\ AreBytes(e, 4)
      /\ AreBytes(f, 4)
  <2>1. \A word : \A w \in Nat : AreBytes(ToBytes(word, w), w)
    BY ToBytesType DEF AreBytes
  <2> HIDE DEF a, b, c, d, e, f
  <2> QED
    BY <2>1 DEF a, b, c, d, e, f
<1>2. Hdr(type, len, seq, crc) = abc \o d \o e \o f
  BY DEF Hdr
<1> HIDE DEF a, b, c, d, e, f
<1>3. AreBytes(a \o b, 3)
  BY <1>1, BytesOfBoth
<1>4. AreBytes(abc, 4)
  BY <1>1, <1>3, BytesOfBoth
<1> HIDE DEF abc
<1>5. AreBytes(abc \o d, 6)
  BY <1>1, <1>4, BytesOfBoth
<1>6. AreBytes(abc \o d \o e, 10)
  BY <1>1, <1>5, BytesOfBoth
<1>7. AreBytes(abc \o d \o e \o f, 14)
  BY <1>1, <1>6, BytesOfBoth
<1>8. SubSeq(abc \o d, 5, 6) = d
  <2>1. abc \in Seq(Byte) /\ d \in Seq(Byte) /\ Len(abc) = 4 /\ Len(d) = 2
    BY <1>1, <1>4 DEF AreBytes
  <2>2. SubSeq(abc \o d, Len(abc) + 1, Len(abc) + Len(d)) = d
    BY <2>1, BackOf
  <2>3. Len(abc) + 1 = 5 /\ Len(abc) + Len(d) = 6
    BY <2>1
  <2> QED
    BY <2>2, <2>3
<1>10. e \in Seq(Byte) /\ f \in Seq(Byte)
  BY <1>1 DEF AreBytes
<1>11. SubSeq(abc \o d \o e, 5, 6) = d
  BY <1>5, <1>8, <1>10, LengthStays
<1>12. SubSeq(abc \o d \o e \o f, 5, 6) = d
  BY <1>6, <1>10, <1>11, LengthStays
<1>13. SubSeq(abc \o d \o e \o f \o payload, 5, 6) = d
  BY <1>7, <1>12, LengthStays
<1> QED
  BY <1>2, <1>13 DEF SaysLength, d

LEMMA SentIsMessage ==
  ASSUME NEW m \in Messages
  PROVE  IsMessage(Bytes(m), Len(Carried(m)))
<1> DEFINE p == Carried(m)
           t == TypeWord(m.type)
           seq == m.seq
           len == Len(p)
           crc == ZlibCrc32(Hdr(t, len, seq, {}) \o p)
           msg == Hdr(t, len, seq, crc) \o p
<1>1. IsCarried(m, p, Content(m))
  BY CarriedAndRead
<1> HIDE DEF p
<1>2. p \in Seq(Byte) /\ len < 65536 /\ Bytes(m) = PackMsgPy(t, seq, p)
  BY <1>1 DEF IsCarried
<1>3. len \in Nat
  BY <1>2
<1>4. Bytes(m) = msg
  BY <1>2 DEF PackMsgPy
<1> HIDE DEF t, seq, len
<1>5. SaysLength(msg, len)
  <2> HIDE DEF crc
  <2> QED
    BY <1>2, HdrSaysLength
<1>6. Packed(msg, t, len, seq, crc, p)
  BY <1>2 DEF Packed, Whole
<1> HIDE DEF msg, crc
<1>9. Sealed(msg)
  BY <1>6, PackedIsSealed
<1>7. msg \in Seq(Byte) /\ Len(msg) = 14 + len
  <2>1. Holds(msg, Len(p), crc, Whole(t, len, seq, {}, p))
    BY <1>6, PackedHolds
  <2> QED
    BY <2>1 DEF Holds, len
<1>8. IsMessage(msg, len)
  BY <1>2, <1>3, <1>5, <1>7, <1>9 DEF IsMessage
<1> QED
  BY <1>4, <1>8 DEF len, p

-----------------------------------------------------------------------------
(* One blow: a byte changed, the end cut off, or a byte too many.           *)

LEMMA ChangedIsRefused ==
  ASSUME NEW msg, NEW len, IsMessage(msg, len), NEW bad, NEW k, OneByte(msg, bad, k), k \notin {5, 6}
  PROVE  ~UnpackMsgPy(bad).ok
<1>1. msg \in Seq(Byte) /\ len \in Nat /\ len < 65536 /\ Len(msg) = 14 + len /\ Sealed(msg)
  BY DEF IsMessage
<1>2. /\ bad \in Seq(Byte) /\ Len(bad) = 14 + len
      /\ \A i \in 1..Len(msg) : i # k => msg[i] = bad[i]
  BY <1>1 DEF OneByte
<1>3. SubSeq(bad, 5, 6) = SubSeq(msg, 5, 6)
  <2>1. bad[5] = msg[5] /\ bad[6] = msg[6]
    BY <1>1, <1>2
  <2> QED
    BY <1>1, <1>2, <2>1
<1>4. SaysLength(bad, len)
  BY <1>3 DEF IsMessage, SaysLength
<1>5. ~Sealed(bad)
  BY <1>1, OneByteUnseals
<1> QED
  BY <1>1, <1>2, <1>4, <1>5, AcceptedIsSealed

LEMMA TooShortIsRefused ==
  ASSUME NEW bytes, NEW n \in Nat, NEW len \in Nat, Len(bytes) = n,
         n < 14 \/ (HdrOf(bytes).len = len /\ n < 14 + len)
  PROVE  ~UnpackMsgPy(bytes).ok
<1> DEFINE h == HdrOf(bytes)
           body == SubSeq(bytes, HdrSize + 1, HdrSize + h.len)
           agrees == ZlibCrc32(Hdr(h.type, h.len, h.seq, {}) \o body) = h.crc
           fits == Len(bytes) >= HdrSize /\ h.magic = kMagic /\ h.ver = kProtoVersion
                     /\ HdrSize + h.len <= Len(bytes) /\ agrees
<1>1. UnpackMsgPy(bytes) = IF fits THEN Accepted(h, body) ELSE Refused
  BY DEF UnpackMsgPy
<1> HIDE DEF h, body, agrees
<1>2. ~fits
  BY DEF HdrSize, h
<1> HIDE DEF fits
<1> QED
  BY <1>1, <1>2 DEF Refused

LEMMA CutIsRefused ==
  ASSUME NEW msg, NEW len, IsMessage(msg, len), NEW j \in 1..(Len(msg) - 1)
  PROVE  ~UnpackMsgPy(SubSeq(msg, 1, j)).ok
<1> DEFINE bad == SubSeq(msg, 1, j)
<1>1. msg \in Seq(Byte) /\ len \in Nat /\ len < 65536 /\ Len(msg) = 14 + len /\ SaysLength(msg, len)
  BY DEF IsMessage
<1>2. bad \in Seq(Byte) /\ Len(bad) = j /\ \A i \in 1..j : bad[i] = msg[i]
  BY <1>1
<1> HIDE DEF bad
<1>3. j \in Nat /\ j < 14 + len
  BY <1>1
<1>4. CASE j < 14
  <2>1. ~UnpackMsgPy(bad).ok
    BY <1>1, <1>2, <1>3, <1>4, TooShortIsRefused
  <2> QED
    BY <2>1 DEF bad
<1>5. CASE j >= 14
  <2>1. SubSeq(bad, 5, 6) = SubSeq(msg, 5, 6)
    BY <1>1, <1>2, <1>3, <1>5
  <2>2. SaysLength(bad, len)
    BY <1>1, <2>1 DEF SaysLength
  <2>3. HdrOf(bad).len = len
    BY <1>1, <2>2, LengthIsSaid
  <2>4. ~UnpackMsgPy(bad).ok
    BY <1>1, <1>2, <1>3, <2>3, TooShortIsRefused
  <2> QED
    BY <2>4 DEF bad
<1> QED
  BY <1>3, <1>4, <1>5

LEMMA LongerIsTheSame ==
  ASSUME NEW msg, NEW len, IsMessage(msg, len), NEW rest \in Seq(Byte)
  PROVE  UnpackMsgPy(msg \o rest) = UnpackMsgPy(msg)
<1> DEFINE long == msg \o rest
           h == HdrOf(msg)
           body(bytes) == SubSeq(bytes, HdrSize + 1, HdrSize + h.len)
           sum(part) == ZlibCrc32(Hdr(h.type, h.len, h.seq, {}) \o part)
           fits(bytes) == Len(bytes) >= HdrSize /\ h.magic = kMagic /\ h.ver = kProtoVersion
                            /\ HdrSize + h.len <= Len(bytes) /\ sum(body(bytes)) = h.crc
<1>1. msg \in Seq(Byte) /\ len \in Nat /\ len < 65536 /\ Len(msg) = 14 + len /\ SaysLength(msg, len)
  BY DEF IsMessage
<1>2. Len(long) = Len(msg) + Len(rest) /\ Len(rest) \in Nat
  BY <1>1
<1>3. SameFront(long, msg, HdrSize)
  BY <1>1, <1>2 DEF SameFront, HdrSize
<1>4. HdrOf(long) = h
  BY <1>3, SameHdr
<1>5. h.len = len
  BY <1>1, LengthIsSaid
<1>6. UnpackMsgPy(msg) = IF fits(msg) THEN Accepted(h, body(msg)) ELSE Refused
  BY DEF UnpackMsgPy
<1>7. UnpackMsgPy(long) = IF fits(long) THEN Accepted(h, body(long)) ELSE Refused
  BY <1>4 DEF UnpackMsgPy
<1>8. SubSeq(long, 14 + 1, 14 + len) = SubSeq(msg, 14 + 1, 14 + len)
  BY <1>1, FrontOf
<1> HIDE DEF long, h, sum
<1>9. body(long) = body(msg)
  BY <1>5, <1>8 DEF HdrSize
<1>10. Len(long) >= 14 /\ 14 + len <= Len(long) /\ Len(msg) >= 14 /\ 14 + len <= Len(msg)
  BY <1>1, <1>2
<1> HIDE DEF body
<1>11. fits(long) = fits(msg)
  BY <1>5, <1>9, <1>10 DEF HdrSize
<1> HIDE DEF fits
<1>12. UnpackMsgPy(long) = UnpackMsgPy(msg)
  BY <1>6, <1>7, <1>9, <1>11
<1> QED
  BY <1>12 DEF long

\* Whatever comes behind it, a message of which all bytes arrive is accepted by both,
\* says who and what it is, and is read field by field where the other language has
\* written it (rx_ holds more than the message, hal_sil.cpp:75-91).
WholeArrives ==
  got.read /\ IsPrefix(Bytes(sent), line) =>
    got.cpp = Verdict(sent) /\ got.py = Verdict(sent) /\ got.fields = Content(sent)

LEMMA PrefixIsTheSame ==
  ASSUME NEW m \in Messages, NEW bytes \in Seq(Byte), IsPrefix(Bytes(m), bytes)
  PROVE  UnpackMsgPy(bytes) = Verdict(m)
<1> DEFINE msg == Bytes(m)
           rest == SubSeq(bytes, Len(msg) + 1, Len(bytes))
<1>1. IsMessage(msg, Len(Carried(m))) /\ UnpackMsgPy(msg) = Verdict(m)
  BY SentIsMessage, SentIsAccepted
<1>2. /\ Len(msg) <= Len(bytes) /\ SubSeq(msg, 1, Len(msg)) = SubSeq(bytes, 1, Len(msg))
  BY DEF IsPrefix
<1> HIDE DEF msg
<1>3. msg \in Seq(Byte) /\ Len(msg) \in Nat /\ Len(bytes) \in Nat
  BY <1>1 DEF IsMessage
<1> DEFINE front == SubSeq(bytes, 1, Len(msg))
<1>4. front = msg
  BY <1>2, <1>3
<1>5. front \o rest = SubSeq(bytes, 1, Len(bytes))
  <2>1. \A k, n \in Nat : k <= n /\ n <= Len(bytes) =>
          SubSeq(bytes, 1, k) \o SubSeq(bytes, k + 1, n) = SubSeq(bytes, 1, n)
    BY Onward
  <2>2. Len(bytes) <= Len(bytes)
    BY <1>3
  <2> QED
    BY <1>2, <1>3, <2>1, <2>2
<1>6. SubSeq(bytes, 1, Len(bytes)) = bytes /\ rest \in Seq(Byte)
  BY <1>3
<1> HIDE DEF rest, front
<1>7. bytes = front \o rest
  <2> DEFINE all == SubSeq(bytes, 1, Len(bytes))
             both == front \o rest
  <2>1. both = all
    BY <1>5
  <2>2. all = bytes
    BY <1>3
  <2> HIDE DEF all, both
  <2>3. bytes = both
    BY <2>1, <2>2
  <2> QED
    BY <2>3 DEF both
<1>8. IsMessage(front, Len(Carried(m))) /\ UnpackMsgPy(front) = Verdict(m)
  BY <1>1, <1>4
<1>9. UnpackMsgPy(front \o rest) = UnpackMsgPy(front)
  BY <1>6, <1>8, LongerIsTheSame
<1> QED
  BY <1>7, <1>8, <1>9

LEMMA LineWhole == LineInv => WholeArrives
<1> SUFFICES ASSUME LineInv, got.read, IsPrefix(Bytes(sent), line)
             PROVE  /\ got.cpp = Verdict(sent) /\ got.py = Verdict(sent)
                    /\ got.fields = Content(sent)
  BY DEF WholeArrives
<1>1. /\ line \in Seq(Byte) /\ sent \in Messages /\ got.cpp = got.py /\ got.py = UnpackMsgPy(line)
      /\ got.fields = IF got.py.ok THEN FieldsOf(sent.type, got.py.body) ELSE <<>>
  BY DEF LineInv
<1>2. got.py = Verdict(sent)
  BY <1>1, PrefixIsTheSame
<1>3. got.py.ok /\ got.py.body = Carried(sent)
  BY <1>2 DEF Verdict
<1>4. FieldsOf(sent.type, Carried(sent)) = Content(sent)
  BY <1>1, CarriedAndRead DEF IsCarried
<1> QED
  BY <1>1, <1>2, <1>3, <1>4

\* In every state of every run, after any number of blows.
THEOREM WholeMessages == Spec => []WholeArrives
BY LineCorrect, LineWhole, PTL

\* A message after one blow.
Struck(bad, msg) ==
  \/ bad = msg
  \/ \E k \in 1..Len(msg) : OneByte(msg, bad, k)
  \/ \E j \in 1..(Len(msg) - 1) : bad = SubSeq(msg, 1, j)
  \/ \E rest \in Seq(Byte) : rest # <<>> /\ bad = msg \o rest

\* The field of the line that says how long the message is says what was sent, or
\* more; the CRC is looked for over what that field says.
NotShortened ==
  \/ SubSeq(line, 5, 6) = SubSeq(Bytes(sent), 5, 6)
  \/ HdrOf(line).len > Len(Carried(sent))

\* What is on the line after the first blow.
StruckInv ==
  /\ LineInv
  /\ line # <<>> /\ hits \in {0, 1} => Struck(line, Bytes(sent))

LEMMA DamageStrikes ==
  ASSUME LineInv, Damage, hits = 0
  PROVE  Struck(line', Bytes(sent))
<1> DEFINE msg == Bytes(sent)
<1>1. line # <<>> /\ line \in Seq(Byte)
  BY DEF Damage, LineInv
<1>2. line = msg
  BY <1>1 DEF LineInv
<1> HIDE DEF msg
<1>3. CASE \E k \in DOMAIN line, flip \in Flips : line' = [line EXCEPT ![k] = SymDiff(@, flip)]
  <2>1. PICK k \in DOMAIN line, flip \in Flips : line' = [line EXCEPT ![k] = SymDiff(line[k], flip)]
    BY <1>3
  <2>2. line' \in Seq(Byte)
    BY DamageIsBytes
  <2> DEFINE b == SymDiff(line[k], flip)
             bad == line'
  <2>3. /\ k \in 1..Len(line) /\ bad = [line EXCEPT ![k] = b]
    BY <1>1, <2>1
  <2> HIDE DEF b, bad
  <2>4. Len(bad) = Len(line) /\ bad[k] = b /\ \A i \in 1..Len(line) : i # k => bad[i] = line[i]
    BY <1>1, <2>3
  <2>5. CASE b = line[k]
    BY <1>1, <1>2, <2>3, <2>5 DEF Struck, bad, msg
  <2>6. CASE b # line[k]
    <3>1. OneByte(line, bad, k)
      BY <1>1, <2>2, <2>3, <2>4, <2>6 DEF OneByte, bad
    <3> QED
      BY <1>2, <2>3, <3>1 DEF Struck, bad, msg
  <2> QED
    BY <2>5, <2>6
<1>4. CASE \E k \in 1..(Len(line) - 1) : line' = SubSeq(line, 1, k)
  BY <1>2, <1>4 DEF Struck, msg
<1>5. CASE \E flip \in Flips : line' = Append(line, flip)
  <2>1. PICK flip \in Flips : line' = Append(line, flip)
    BY <1>5
  <2>2. <<flip>> \in Seq(Byte) /\ <<flip>> # <<>> /\ Append(line, flip) = line \o <<flip>>
    BY <1>1, DamageAssumption
  <2> QED
    BY <1>2, <2>1, <2>2 DEF Struck, msg
<1> QED
  BY <1>3, <1>4, <1>5 DEF Damage

\* As long as there has been one blow at most, that is all it can have done, for
\* every message and every set of flips.
THEOREM StruckCorrect == Spec => []StruckInv
<1>1. Init => StruckInv
  BY LineInit DEF Init, StruckInv
<1>2. StruckInv /\ [Next]_vars => StruckInv'
  <2> SUFFICES ASSUME StruckInv, [Next]_vars PROVE StruckInv'
    OBVIOUS
  <2>1. LineInv /\ LineInv'
    BY LineStep DEF StruckInv
  <2>2. ASSUME NEW m \in Messages, Send(m) PROVE StruckInv'
    <3>1. sent' = m /\ line' = Bytes(m)
      BY <2>2 DEF Send
    <3>2. line' = Bytes(sent')
      BY <3>1
    <3>3. Bytes(sent)' = Bytes(sent')
      OBVIOUS
    <3> QED
      BY <2>1, <3>2, <3>3 DEF StruckInv, Struck
  <2>3. CASE Damage
    <3>1. sent' = sent /\ hits' = hits + 1 /\ hits \in Nat
      BY <2>1, <2>3 DEF Damage, LineInv
    <3>2. hits' \in {0, 1} => hits = 0
      BY <3>1
    <3>3. hits' \in {0, 1} => Struck(line', Bytes(sent))
      BY <2>1, <2>3, <3>2, DamageStrikes
    <3> QED
      BY <2>1, <3>1, <3>3 DEF StruckInv
  <2>4. CASE Receive
    <3>1. sent' = sent /\ line' = line /\ hits' = hits
      BY <2>4 DEF Receive
    <3> QED
      BY <2>1, <3>1 DEF StruckInv
  <2>5. CASE UNCHANGED vars
    <3>1. sent' = sent /\ line' = line /\ hits' = hits
      BY <2>5 DEF vars
    <3> QED
      BY <2>1, <3>1 DEF StruckInv
  <2> QED
    BY <2>2, <2>3, <2>4, <2>5 DEF Next
<1> QED
  BY <1>1, <1>2, PTL DEF Spec

\* What is accepted of a message after one blow is all of it, or none.
LEMMA StruckIsTold ==
  ASSUME NEW m \in Messages, NEW bad \in Seq(Byte), Struck(bad, Bytes(m)),
         \/ SubSeq(bad, 5, 6) = SubSeq(Bytes(m), 5, 6)
         \/ HdrOf(bad).len > Len(Carried(m))
  PROVE  \/ IsPrefix(Bytes(m), bad) /\ UnpackMsgPy(bad) = Verdict(m)
         \/ ~IsPrefix(Bytes(m), bad) /\ ~UnpackMsgPy(bad).ok
<1> DEFINE msg == Bytes(m)
           len == Len(Carried(m))
<1>1. IsMessage(msg, len)
  BY SentIsMessage
<1>2. UnpackMsgPy(msg) = Verdict(m)
  BY SentIsAccepted
<1> HIDE DEF msg, len
<1>3. msg \in Seq(Byte) /\ Len(msg) \in Nat /\ Len(msg) = 14 + len /\ len \in Nat
  BY <1>1 DEF IsMessage
<1>4. Struck(bad, msg) /\ (SubSeq(bad, 5, 6) = SubSeq(msg, 5, 6) \/ HdrOf(bad).len > len)
  BY DEF msg, len
<1>5. CASE bad = msg
  <2>1. IsPrefix(msg, bad)
    BY <1>3, <1>5 DEF IsPrefix
  <2> QED
    BY <1>2, <1>5, <2>1 DEF msg
<1>6. CASE \E k \in 1..Len(msg) : OneByte(msg, bad, k)
  <2>1. PICK k \in 1..Len(msg) : OneByte(msg, bad, k)
    BY <1>6
  <2>2. Len(bad) = Len(msg) /\ bad[k] # msg[k] /\ Len(bad) \in Nat
    BY <1>3, <2>1 DEF OneByte
  <2>3. ~IsPrefix(msg, bad)
    <3>1. SubSeq(bad, 1, Len(bad)) = bad /\ SubSeq(msg, 1, Len(msg)) = msg
      BY <1>3
    <3> QED
      BY <2>2, <3>1 DEF IsPrefix
  <2>4. CASE k \notin {5, 6}
    BY <1>1, <2>1, <2>3, <2>4, ChangedIsRefused DEF msg
  <2>5. CASE k \in {5, 6}
    <3>1. SubSeq(bad, 5, 6) # SubSeq(msg, 5, 6)
      <4>1. /\ SubSeq(bad, 5, 6)[1] = bad[5] /\ SubSeq(bad, 5, 6)[2] = bad[6]
            /\ SubSeq(msg, 5, 6)[1] = msg[5] /\ SubSeq(msg, 5, 6)[2] = msg[6]
        BY <1>3, <2>2
      <4> QED
        BY <2>2, <2>5, <4>1
    <3>2. HdrOf(bad).len > len
      BY <1>4, <3>1
    <3>3. HdrOf(bad).len \in Nat
      <4>1. HdrOf(bad).len = Number(OfBytes(SubSeq(bad, 5, 6)))
        BY HdrPieces DEF HdrAt
      <4> QED
        BY <4>1, NumberType
    <3> DEFINE said == HdrOf(bad).len
    <3>4. said \in Nat /\ said > len
      BY <3>2, <3>3
    <3> HIDE DEF said
    <3>5. Len(bad) < 14 + said
      BY <1>3, <2>2, <3>4
    <3>6. ~UnpackMsgPy(bad).ok
      BY <2>2, <3>4, <3>5, TooShortIsRefused DEF said
    <3> QED
      BY <2>3, <3>6 DEF msg
  <2> QED
    BY <2>4, <2>5
<1>7. CASE \E j \in 1..(Len(msg) - 1) : bad = SubSeq(msg, 1, j)
  <2>1. PICK j \in 1..(Len(msg) - 1) : bad = SubSeq(msg, 1, j)
    BY <1>7
  <2>2. ~UnpackMsgPy(bad).ok
    BY <1>1, <2>1, CutIsRefused
  <2>3. ~IsPrefix(msg, bad)
    BY <1>3, <2>1 DEF IsPrefix
  <2> QED
    BY <2>2, <2>3 DEF msg
<1>8. CASE \E rest \in Seq(Byte) : rest # <<>> /\ bad = msg \o rest
  <2>1. PICK rest \in Seq(Byte) : bad = msg \o rest
    BY <1>8
  <2>2. UnpackMsgPy(bad) = Verdict(m)
    BY <1>1, <1>2, <2>1, LongerIsTheSame
  <2>3. Len(msg) <= Len(bad)
    BY <1>3, <2>1
  <2>4. SubSeq(bad, 1, Len(msg)) = SubSeq(msg, 1, Len(msg))
    BY <1>3, <2>1
  <2>5. IsPrefix(msg, bad)
    BY <2>3, <2>4 DEF IsPrefix
  <2> QED
    BY <2>2, <2>5 DEF msg
<1> QED
  BY <1>4, <1>5, <1>6, <1>7, <1>8 DEF Struck

\* One blow does not get past the readers: the message is accepted, whole, if and
\* only if all of it has arrived; this is OnlyIntactIsAccepted and ContentSurvives
\* for one blow that does not make the length the header says smaller.
OneBlowIsTold ==
  hits \in {0, 1} /\ NotShortened => OnlyIntactIsAccepted /\ ContentSurvives

LEMMA StruckOnLine == StruckInv => OneBlowIsTold
<1> SUFFICES ASSUME StruckInv, hits \in {0, 1}, NotShortened, got.read
             PROVE  OnlyIntactIsAccepted /\ ContentSurvives
  BY DEF OneBlowIsTold, OnlyIntactIsAccepted, ContentSurvives
<1>1. /\ line # <<>> /\ line \in Seq(Byte) /\ sent \in Messages
      /\ got.cpp = got.py /\ got.py = UnpackMsgPy(line)
      /\ got.fields = IF got.py.ok THEN FieldsOf(sent.type, got.py.body) ELSE <<>>
  BY DEF StruckInv, LineInv
<1>2. Struck(line, Bytes(sent))
  BY <1>1 DEF StruckInv
<1>3. \/ IsPrefix(Bytes(sent), line) /\ got.py = Verdict(sent)
      \/ ~IsPrefix(Bytes(sent), line) /\ ~got.py.ok
  BY <1>1, <1>2, StruckIsTold DEF NotShortened
<1>4. OnlyIntactIsAccepted
  BY <1>3 DEF OnlyIntactIsAccepted, Verdict
<1>5. ContentSurvives
  <2> SUFFICES ASSUME got.py.ok
               PROVE  /\ got.fields = (IF sent.type = "BYE" THEN <<>> ELSE sent.fields)
                      /\ got.py.type = TypeWord(sent.type) /\ got.py.seq = sent.seq
    BY <1>1 DEF ContentSurvives
  <2>1. got.py = Verdict(sent)
    BY <1>3
  <2>2. got.py.type = TypeWord(sent.type) /\ got.py.seq = sent.seq /\ got.py.body = Carried(sent)
    BY <2>1 DEF Verdict
  <2>3. FieldsOf(sent.type, Carried(sent)) = Content(sent)
    BY <1>1, CarriedAndRead DEF IsCarried
  <2> QED
    BY <1>1, <2>2, <2>3 DEF Content
<1> QED
  BY <1>4, <1>5

\* After at most one blow.
THEOREM OneBlow == Spec => []OneBlowIsTold
BY StruckCorrect, StruckOnLine, PTL
=============================================================================
