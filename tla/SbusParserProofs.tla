-------------------------- MODULE SbusParserProofs --------------------------
(***************************************************************************)
(* Theorems about SbusParser: on every stream the scan loop finds exactly  *)
(* the frames that the reference defines, and how the stream was cut into  *)
(* reads makes no difference.                                              *)
(***************************************************************************)
EXTENDS SbusParser, FiniteSetTheorems, NaturalsInduction,
        SequenceTheorems, TLAPS

-----------------------------------------------------------------------------
(* The scan is a recursion that looks ahead. What it does at each position *)
(* is shown from the last one backwards: of the positions where it would   *)
(* fail, take the last.                                                    *)

LEMMA DownwardInduction ==
  ASSUME NEW n \in Nat, NEW set,
         \A i \in 1..n : (\A j \in 1..n : i < j => j \in set) => i \in set
  PROVE  1..n \subseteq set
<1> SUFFICES ASSUME NEW m \in 1..n, m \notin set PROVE FALSE
  OBVIOUS
<1> DEFINE D == {k \in Nat : n - k \in 1..n /\ n - k \notin set}
<1>1. n - m \in D
  <2>1. n - m \in Nat /\ n - (n - m) = m
    OBVIOUS
  <2> QED
    BY <2>1
<1>2. PICK k \in D : \A l \in D : ~(<<l, k>> \in OpToRel(<, Nat))
  BY <1>1, WFMin, NatLessThanWellFounded
<1>3. \A l \in D : ~(l < k)
  BY <1>2 DEF OpToRel
<1>4. k \in Nat /\ n - k \in 1..n /\ n - k \notin set
  OBVIOUS
<1>5. \A j \in 1..n : n - k < j => j \in set
  <2> SUFFICES ASSUME NEW j \in 1..n, n - k < j, j \notin set PROVE FALSE
    OBVIOUS
  <2>1. n - j \in Nat /\ n - j < k /\ n - (n - j) = j
    BY <1>4
  <2>2. n - j \in D
    BY <2>1
  <2> QED
    BY <2>1, <2>2, <1>3
<1> QED
  BY <1>4, <1>5

-----------------------------------------------------------------------------
(* The recursion of Scan has a solution.                                   *)

ScanAt(s, scan, p) ==
  IF ~Fits(s, p) THEN [taken |-> {}, rest |-> p]
  ELSE IF Decodes(s, p)
    THEN [scan[p + FrameLen] EXCEPT !.taken = @ \cup {p}]
    ELSE scan[p + 1]

Result(s) == [taken : SUBSET (1..Len(s)), rest : 1..(Len(s) + 1)]

\* A result is made of the results at later positions only.
LEMMA ScanAtLooksAhead ==
  ASSUME NEW s \in Seq(Byte), NEW p \in 1..(Len(s) + 1), NEW f, NEW g,
         \A q \in 1..(Len(s) + 1) : p < q => f[q] = g[q] /\ f[q] \in Result(s)
  PROVE  ScanAt(s, f, p) = ScanAt(s, g, p) /\ ScanAt(s, f, p) \in Result(s)
<1>1. CASE ~Fits(s, p)
  BY <1>1 DEF ScanAt, Result
<1>2. CASE Fits(s, p)
  <2>1. Len(s) \in Nat /\ p \in 1..Len(s) /\ p + 1 \in 1..(Len(s) + 1)
        /\ p + FrameLen \in 1..(Len(s) + 1) /\ p < p + FrameLen
    BY <1>2, FrameAssumption DEF Fits
  <2>2. f[p + 1] = g[p + 1] /\ f[p + 1] \in Result(s)
        /\ f[p + FrameLen] = g[p + FrameLen] /\ f[p + FrameLen] \in Result(s)
    BY <2>1
  <2>3. [f[p + FrameLen] EXCEPT !.taken = @ \cup {p}] \in Result(s)
    BY <2>1, <2>2 DEF Result
  <2> QED
    BY <1>2, <2>2, <2>3 DEF ScanAt
<1> QED
  BY <1>1, <1>2

LEMMA ScanHasSolution ==
  ASSUME NEW s \in Seq(Byte)
  PROVE  \E f \in [1..(Len(s) + 1) -> Result(s)] :
           \A p \in 1..(Len(s) + 1) : f[p] = ScanAt(s, f, p)
<1> DEFINE n == Len(s) + 1
           Solves(f, i) == /\ f \in [1..n -> Result(s)]
                           /\ \A p \in i..n : f[p] = ScanAt(s, f, p)
           set == {i \in 1..n : \E f : Solves(f, i)}
<1>1. n \in Nat /\ n > 0
  OBVIOUS
<1>2. \E f : Solves(f, n + 1)
  <2>1. [taken |-> {}, rest |-> 1] \in Result(s)
    BY <1>1 DEF Result
  <2>2. Solves([p \in 1..n |-> [taken |-> {}, rest |-> 1]], n + 1)
    BY <1>1, <2>1
  <2> QED
    BY <2>2
<1>3. ASSUME NEW i \in 1..n, \E f : Solves(f, i + 1) PROVE \E f : Solves(f, i)
  <2>1. PICK f : Solves(f, i + 1)
    BY <1>3
  <2> DEFINE g == [f EXCEPT ![i] = ScanAt(s, f, i)]
  <2>2. ScanAt(s, f, i) \in Result(s)
    BY <2>1, ScanAtLooksAhead, <1>1
  <2>3. g \in [1..n -> Result(s)] /\ g[i] = ScanAt(s, f, i)
        /\ \A q \in 1..n : q # i => g[q] = f[q]
    BY <2>1, <2>2
  <2>4. ASSUME NEW p \in i..n PROVE ScanAt(s, f, p) = ScanAt(s, g, p)
    <3>1. p \in 1..n /\ \A q \in 1..n : p < q => g[q] = f[q] /\ f[q] \in Result(s)
      BY <2>1, <2>3, <1>1
    <3> QED
      BY <3>1, ScanAtLooksAhead
  <2>5. ASSUME NEW p \in i..n PROVE g[p] = ScanAt(s, g, p)
    <3>1. CASE p = i
      BY <3>1, <2>3, <2>4
    <3>2. CASE p # i
      <4>1. p \in (i + 1)..n /\ p \in 1..n
        BY <3>2, <1>1
      <4> QED
        BY <4>1, <3>2, <2>1, <2>3, <2>4
    <3> QED
      BY <3>1, <3>2
  <2>6. Solves(g, i)
    BY <2>3, <2>5
  <2> QED
    BY <2>6
<1>4. \A i \in 1..n : (\A j \in 1..n : i < j => j \in set) => i \in set
  <2> SUFFICES ASSUME NEW i \in 1..n, \A j \in 1..n : i < j => j \in set
               PROVE  \E f : Solves(f, i)
    OBVIOUS
  <2>1. CASE i = n
    BY <2>1, <1>2, <1>3
  <2>2. CASE i # n
    <3>1. i + 1 \in 1..n /\ i < i + 1
      BY <2>2, <1>1
    <3>2. \E f : Solves(f, i + 1)
      BY <3>1
    <3> QED
      BY <3>2, <1>3
  <2> QED
    BY <2>1, <2>2
<1>5. 1..n \subseteq set
  <2> HIDE DEF set, n
  <2> QED
    BY <1>1, <1>4, DownwardInduction
<1>6. 1 \in set
  <2> HIDE DEF set, n
  <2> QED
    BY <1>1, <1>5
<1>7. PICK f : Solves(f, 1)
  BY <1>6, Zenon
<1>8. f \in [1..n -> Result(s)] /\ \A p \in 1..n : f[p] = ScanAt(s, f, p)
  BY <1>7, Zenon
<1> QED
  BY <1>8, Zenon

LEMMA ScanEquation ==
  ASSUME NEW s \in Seq(Byte)
  PROVE  \A p \in 1..(Len(s) + 1) : Scan(s)[p] = ScanAt(s, Scan(s), p)
<1> DEFINE Solves(f) == f = [p \in 1..(Len(s) + 1) |-> ScanAt(s, f, p)]
<1>1. \E f : Solves(f)
  <2>1. PICK f \in [1..(Len(s) + 1) -> Result(s)] :
               \A p \in 1..(Len(s) + 1) : f[p] = ScanAt(s, f, p)
    BY ScanHasSolution
  <2>2. f = [p \in 1..(Len(s) + 1) |-> ScanAt(s, f, p)]
    BY <2>1
  <2> QED
    BY <2>2
<1>2. Scan(s) = CHOOSE f : Solves(f)
  BY DEF Scan, ScanAt
<1>3. Solves(CHOOSE f : Solves(f))
  <2> HIDE DEF Solves
  <2> QED
    BY <1>1
<1>4. Solves(Scan(s))
  <2> HIDE DEF Solves
  <2> QED
    BY <1>2, <1>3
<1> QED
  BY <1>4

LEMMA ScanTyped ==
  ASSUME NEW s \in Seq(Byte)
  PROVE  \A p \in 1..(Len(s) + 1) : Scan(s)[p] \in Result(s)
<1> DEFINE n == Len(s) + 1
           set == {p \in 1..n : Scan(s)[p] \in Result(s)}
<1>1. n \in Nat
  OBVIOUS
<1>2. \A i \in 1..n : (\A j \in 1..n : i < j => j \in set) => i \in set
  BY ScanEquation, ScanAtLooksAhead
<1>3. 1..n \subseteq set
  <2> HIDE DEF set, n
  <2> QED
    BY <1>1, <1>2, DownwardInduction
<1> QED
  BY <1>3

-----------------------------------------------------------------------------
(* What the scan finds.                                                    *)

\* From position p of s on, up to position rest, the frames start at taken,
\* and from rest on nothing can be decided.
Parsed(s, p, taken, rest) ==
  /\ rest \in p..(Len(s) + 1) /\ ~Fits(s, rest)
  /\ taken \subseteq p..Len(s)
  /\ \A q \in taken : q + FrameLen <= rest
  /\ \A q \in p..(rest - 1) :
       /\ q \in taken <=> Fits(s, q) /\ Decodes(s, q) /\ Free(taken, q)
       /\ Free(taken, q) => Fits(s, q)

\* A frame taken whole, in front of what the rest of the scan finds.
LEMMA ParsedTakes ==
  ASSUME NEW s \in Seq(Byte), NEW p \in 1..Len(s), Fits(s, p), Decodes(s, p),
         NEW taken, NEW rest, Parsed(s, p + FrameLen, taken, rest)
  PROVE  Parsed(s, p, taken \cup {p}, rest)
<1> DEFINE all == taken \cup {p}
<1>1. Len(s) \in Nat /\ p \in Nat /\ FrameLen \in Nat /\ FrameLen > 4
  BY FrameAssumption
<1>2. /\ rest \in (p + FrameLen)..(Len(s) + 1) /\ ~Fits(s, rest)
      /\ taken \subseteq (p + FrameLen)..Len(s)
      /\ \A q \in taken : q + FrameLen <= rest
  BY DEF Parsed
<1>3. rest \in p..(Len(s) + 1) /\ all \subseteq p..Len(s)
      /\ \A q \in all : q + FrameLen <= rest
  BY <1>1, <1>2
<1>4. ASSUME NEW q \in p..(rest - 1)
      PROVE  /\ q \in all <=> Fits(s, q) /\ Decodes(s, q) /\ Free(all, q)
             /\ Free(all, q) => Fits(s, q)
  <2>0. q \in Int /\ rest \in Int
    BY <1>1, <1>2
  <2>1. CASE q = p
    <3>1. Free(all, p)
      BY <1>1, <1>2 DEF Free
    <3> QED
      BY <2>1, <3>1
  <2>2. CASE p < q /\ q < p + FrameLen
    <3>1. q \notin all
      BY <2>0, <2>2, <1>1, <1>2
    <3>2. ~Free(all, q)
      <4>1. p \in all /\ p < q /\ ~(p + FrameLen <= q)
        BY <2>0, <2>2, <1>1
      <4> QED
        BY <4>1 DEF Free
    <3> QED
      BY <3>1, <3>2
  <2>3. CASE p + FrameLen <= q
    <3>1. Free(all, q) <=> Free(taken, q)
      BY <2>3 DEF Free
    <3>2. q # p /\ q \in (p + FrameLen)..(rest - 1)
      BY <2>0, <2>3, <1>1
    <3>3. /\ q \in taken <=> Fits(s, q) /\ Decodes(s, q) /\ Free(taken, q)
          /\ Free(taken, q) => Fits(s, q)
      BY <3>2 DEF Parsed
    <3> QED
      BY <3>1, <3>2, <3>3
  <2> QED
    BY <2>0, <2>1, <2>2, <2>3, <1>1
<1> QED
  BY <1>2, <1>3, <1>4 DEF Parsed

\* One byte skipped, where no frame decodes.
LEMMA ParsedSkips ==
  ASSUME NEW s \in Seq(Byte), NEW p \in 1..Len(s), Fits(s, p), ~Decodes(s, p),
         NEW taken, NEW rest, Parsed(s, p + 1, taken, rest)
  PROVE  Parsed(s, p, taken, rest)
<1>1. Len(s) \in Nat /\ p \in Nat
  OBVIOUS
<1>2. /\ rest \in (p + 1)..(Len(s) + 1) /\ ~Fits(s, rest)
      /\ taken \subseteq (p + 1)..Len(s)
      /\ \A q \in taken : q + FrameLen <= rest
  BY DEF Parsed
<1>3. rest \in p..(Len(s) + 1) /\ taken \subseteq p..Len(s) /\ p \notin taken
  BY <1>1, <1>2
<1>4. ASSUME NEW q \in p..(rest - 1)
      PROVE  /\ q \in taken <=> Fits(s, q) /\ Decodes(s, q) /\ Free(taken, q)
             /\ Free(taken, q) => Fits(s, q)
  <2>1. CASE q = p
    BY <2>1, <1>3
  <2>2. CASE q # p
    <3>1. q \in (p + 1)..(rest - 1)
      BY <2>2, <1>1, <1>2
    <3> QED
      BY <3>1 DEF Parsed
  <2> QED
    BY <2>1, <2>2
<1> QED
  BY <1>2, <1>3, <1>4 DEF Parsed

LEMMA ScanParses ==
  ASSUME NEW s \in Seq(Byte)
  PROVE  Parsed(s, 1, Scan(s)[1].taken, Scan(s)[1].rest)
<1> DEFINE n == Len(s) + 1
           set == {p \in 1..n : Parsed(s, p, Scan(s)[p].taken, Scan(s)[p].rest)}
<1>1. n \in Nat /\ n > 0 /\ Len(s) \in Nat
  OBVIOUS
<1>2. ASSUME NEW p \in 1..n, \A j \in 1..n : p < j => j \in set
      PROVE  Parsed(s, p, Scan(s)[p].taken, Scan(s)[p].rest)
  <2>1. Scan(s)[p] = ScanAt(s, Scan(s), p)
    BY ScanEquation
  <2>2. CASE ~Fits(s, p)
    <3>1. Scan(s)[p].taken = {} /\ Scan(s)[p].rest = p
      BY <2>1, <2>2 DEF ScanAt
    <3>2. Parsed(s, p, {}, p)
      BY <2>2, <1>1 DEF Parsed
    <3> QED
      BY <3>1, <3>2
  <2>3. CASE Fits(s, p) /\ Decodes(s, p)
    <3> DEFINE next == Scan(s)[p + FrameLen]
    <3>1. p \in 1..Len(s) /\ p + FrameLen \in 1..n /\ p < p + FrameLen
      BY <2>3, <1>1, FrameAssumption DEF Fits
    <3>2. Parsed(s, p + FrameLen, next.taken, next.rest)
      BY <3>1, <1>2
    <3>3. Scan(s)[p] = [next EXCEPT !.taken = @ \cup {p}]
      BY <2>1, <2>3 DEF ScanAt
    <3>4. Scan(s)[p].taken = next.taken \cup {p} /\ Scan(s)[p].rest = next.rest
      BY <3>1, <3>3, ScanTyped DEF Result
    <3> QED
      BY <3>1, <3>2, <3>4, <2>3, ParsedTakes
  <2>4. CASE Fits(s, p) /\ ~Decodes(s, p)
    <3>1. p \in 1..Len(s) /\ p + 1 \in 1..n /\ p < p + 1
      BY <2>4, <1>1, FrameAssumption DEF Fits
    <3>2. Parsed(s, p + 1, Scan(s)[p + 1].taken, Scan(s)[p + 1].rest)
      BY <3>1, <1>2
    <3>3. Scan(s)[p] = Scan(s)[p + 1]
      BY <2>1, <2>4 DEF ScanAt
    <3> QED
      BY <3>1, <3>2, <3>3, <2>4, ParsedSkips
  <2> QED
    BY <2>2, <2>3, <2>4
<1>3. 1..n \subseteq set
  <2>1. \A i \in 1..n : (\A j \in 1..n : i < j => j \in set) => i \in set
    BY <1>2
  <2> HIDE DEF set, n
  <2> QED
    BY <2>1, <1>1, DownwardInduction
<1> QED
  BY <1>1, <1>3

-----------------------------------------------------------------------------
(* The reference is what the scan finds.                                   *)

\* No two sets are both where the frames of s start: take the first position
\* on which they would differ.
LEMMA StartsAreUnique ==
  ASSUME NEW s \in Seq(Byte),
         NEW A \in SUBSET (1..Len(s)), AreStarts(A, s),
         NEW B \in SUBSET (1..Len(s)), AreStarts(B, s)
  PROVE  A = B
<1> SUFFICES ASSUME A # B PROVE FALSE
  OBVIOUS
<1> DEFINE D == (A \ B) \cup (B \ A)
<1>1. D \subseteq Nat /\ D # {}
  <2>1. 1..Len(s) \subseteq Nat
    OBVIOUS
  <2>2. D # {}
    BY Zenon
  <2> QED
    BY <2>1, <2>2
<1>2. PICK p \in D : \A q \in D : ~(<<q, p>> \in OpToRel(<, Nat))
  BY <1>1, WFMin, NatLessThanWellFounded
<1>3. \A q \in D : ~(q < p)
  BY <1>1, <1>2 DEF OpToRel
<1>4. \A q : q \in A /\ q < p <=> q \in B /\ q < p
  BY <1>3
<1>5. Free(A, p) <=> Free(B, p)
  BY <1>4 DEF Free
<1>6. p \in 1..Len(s)
  BY <1>2
<1>7. p \in A <=> p \in B
  BY <1>5, <1>6 DEF AreStarts
<1> QED
  BY <1>2, <1>7

LEMMA ParsedIsReference ==
  ASSUME NEW s \in Seq(Byte), NEW taken, NEW rest, Parsed(s, 1, taken, rest)
  PROVE  taken = Starts(s) /\ rest = Undecided(s)
<1> DEFINE Candidates == {p \in 1..Len(s) : Fits(s, p) /\ Decodes(s, p)}
<1>1. Len(s) \in Nat /\ FrameLen \in Nat /\ FrameLen > 4
  BY FrameAssumption
<1>2. /\ rest \in 1..(Len(s) + 1) /\ ~Fits(s, rest)
      /\ taken \subseteq 1..Len(s)
      /\ \A q \in taken : q + FrameLen <= rest
      /\ \A q \in 1..(rest - 1) :
           /\ q \in taken <=> Fits(s, q) /\ Decodes(s, q) /\ Free(taken, q)
           /\ Free(taken, q) => Fits(s, q)
  BY DEF Parsed
<1>3. ASSUME NEW q \in 1..Len(s), rest <= q PROVE q \notin taken /\ ~Fits(s, q)
  <2>1. q \notin taken
    BY <1>1, <1>2, <1>3
  <2>2. ~Fits(s, q)
    BY <1>1, <1>2, <1>3 DEF Fits
  <2> QED
    BY <2>1, <2>2
<1>4. AreStarts(taken, s)
  <2> SUFFICES ASSUME NEW q \in 1..Len(s)
               PROVE  q \in taken <=> Fits(s, q) /\ Decodes(s, q) /\ Free(taken, q)
    BY DEF AreStarts
  <2>1. CASE rest <= q
    BY <2>1, <1>3
  <2>2. CASE q \in 1..(rest - 1)
    BY <2>2, <1>2
  <2> QED
    BY <2>1, <2>2, <1>1, <1>2
<1>5. taken \in SUBSET Candidates
  BY <1>2, <1>4 DEF AreStarts
<1>6. Starts(s) \in SUBSET Candidates /\ AreStarts(Starts(s), s)
  BY <1>4, <1>5 DEF Starts
<1>7. taken = Starts(s)
  BY <1>2, <1>4, <1>6, StartsAreUnique
<1> DEFINE Ends == {p \in 1..(Len(s) + 1) : ~Fits(s, p) /\ Free(Starts(s), p)}
<1>8. rest \in Ends
  BY <1>2, <1>7 DEF Free
<1>9. \A p \in Ends : rest <= p
  <2> SUFFICES ASSUME NEW p \in Ends, ~(rest <= p) PROVE FALSE
    OBVIOUS
  <2>1. p \in 1..(rest - 1)
    BY <1>1, <1>2
  <2> QED
    BY <2>1, <1>2, <1>7
<1>10. \A p \in Ends : (\A q \in Ends : p <= q) => p = rest
  BY <1>1, <1>2, <1>8, <1>9
<1>11. rest = Min(Ends)
  <2> HIDE DEF Ends
  <2> QED
    BY <1>8, <1>9, <1>10 DEF Min
<1> QED
  BY <1>7, <1>11 DEF Undecided

\* On every stream, the scan takes the frames of the reference, and stops at
\* the first position on which it cannot decide.
THEOREM ScanFindsTheFrames ==
  ASSUME NEW s \in Seq(Byte)
  PROVE  Scan(s)[1].taken = Starts(s) /\ Scan(s)[1].rest = Undecided(s)
BY ScanParses, ParsedIsReference

LEMMA StreamParses ==
  ASSUME NEW s \in Seq(Byte)
  PROVE  Parsed(s, 1, Starts(s), Undecided(s))
BY ScanParses, ScanFindsTheFrames

-----------------------------------------------------------------------------
(* A stream is parsed in pieces: what is not decided yet is kept, and the  *)
(* bytes that follow are scanned behind it.                                *)

Shifted(set, k) == {k + p : p \in set}

LEMMA ShiftedCardinality ==
  ASSUME NEW k \in Nat, NEW n \in Nat, NEW set \in SUBSET (1..n)
  PROVE  /\ IsFiniteSet(set) /\ IsFiniteSet(Shifted(set, k))
         /\ Cardinality(Shifted(set, k)) = Cardinality(set)
<1> DEFINE f == [p \in set |-> k + p]
<1>1. IsFiniteSet(set)
  <2>1. IsFiniteSet(1..n)
    BY FS_Interval
  <2> QED
    BY <2>1, FS_Subset
<1>2. f \in Bijection(set, Shifted(set, k))
  <2>1. f \in [set -> Shifted(set, k)]
    BY DEF Shifted
  <2>2. \A p, q \in set : f[p] = f[q] => p = q
    OBVIOUS
  <2>3. \A t \in Shifted(set, k) : \E p \in set : f[p] = t
    BY DEF Shifted
  <2> HIDE DEF f
  <2> QED
    BY <2>1, <2>2, <2>3 DEF Bijection, Injection, Surjection, IsInjective
<1>3. ExistsBijection(set, Shifted(set, k))
  BY <1>2 DEF ExistsBijection
<1> QED
  BY <1>1, <1>3, FS_Bijection

\* Where the bytes of the kept part and of the whole stream are.
LEMMA KeptBytes ==
  ASSUME NEW s \in Seq(Byte), NEW data \in Seq(Byte), NEW r \in 1..(Len(s) + 1)
  PROVE  LET whole == s \o data
             bytes == From(s, r) \o data
         IN  /\ whole \in Seq(Byte) /\ bytes \in Seq(Byte)
             /\ Len(whole) = Len(s) + Len(data)
             /\ Len(bytes) = Len(whole) - r + 1
             /\ \A p \in 1..Len(s) : whole[p] = s[p]
             /\ \A p \in 1..Len(bytes) : whole[r - 1 + p] = bytes[p]
<1> DEFINE whole == s \o data
           kept == From(s, r)
           bytes == From(s, r) \o data
<1>1. Len(s) \in Nat /\ Len(data) \in Nat /\ r \in Nat
  OBVIOUS
<1>2. kept \in Seq(Byte) /\ Len(kept) = Len(s) - r + 1
      /\ \A p \in 1..Len(kept) : kept[p] = s[r - 1 + p]
  BY DEF From
<1>3. whole \in Seq(Byte) /\ Len(whole) = Len(s) + Len(data)
      /\ (\A p \in 1..Len(s) : whole[p] = s[p])
      /\ (\A p \in 1..Len(data) : whole[Len(s) + p] = data[p])
  OBVIOUS
<1>4. bytes \in Seq(Byte) /\ Len(bytes) = Len(kept) + Len(data)
      /\ (\A p \in 1..Len(kept) : bytes[p] = kept[p])
      /\ (\A p \in 1..Len(data) : bytes[Len(kept) + p] = data[p])
  <2>1. From(s, r) \in Seq(Byte)
    BY <1>2
  <2> QED
    BY <2>1
<1>5. Len(bytes) = Len(whole) - r + 1
  BY <1>1, <1>2, <1>3, <1>4
<1>6. ASSUME NEW p \in 1..Len(bytes) PROVE whole[r - 1 + p] = bytes[p]
  <2> HIDE DEF kept, bytes, whole
  <2>0. Len(kept) \in Nat /\ p \in Nat
    BY <1>1, <1>2, <1>4
  <2>1. CASE p <= Len(kept)
    <3>1. p \in 1..Len(kept) /\ r - 1 + p \in 1..Len(s)
      BY <2>0, <2>1, <1>1, <1>2
    <3> QED
      BY <3>1, <1>2, <1>3, <1>4
  <2>2. CASE p > Len(kept)
    <3> DEFINE i == p - Len(kept)
    <3>1. i \in 1..Len(data) /\ Len(kept) + i = p /\ Len(s) + i = r - 1 + p
      BY <2>0, <2>2, <1>1, <1>2, <1>4
    <3>2. whole[Len(s) + i] = data[i] /\ bytes[Len(kept) + i] = data[i]
      BY <3>1, <1>3, <1>4
    <3> QED
      BY <3>1, <3>2
  <2> QED
    BY <2>0, <2>1, <2>2
<1> QED
  BY <1>3, <1>4, <1>5, <1>6

\* A frame decodes alike wherever its bytes are.
LEMMA DecodesAlike ==
  ASSUME NEW s, NEW t, NEW k \in Nat, NEW p \in Nat,
         \A i \in 0..(FrameLen - 1) : t[k + p + i] = s[p + i]
  PROVE  Decodes(t, k + p) <=> Decodes(s, p)
<1>1. FrameLen \in Nat /\ FrameLen > 4
  BY FrameAssumption
<1>2. t[k + p] = s[p]
  <2>1. 0 \in 0..(FrameLen - 1) /\ k + p + 0 = k + p /\ p + 0 = p
    BY <1>1
  <2> QED
    BY <2>1
<1>3. t[k + p + FrameLen - 2] = s[p + FrameLen - 2]
  <2>1. FrameLen - 2 \in 0..(FrameLen - 1)
        /\ k + p + (FrameLen - 2) = k + p + FrameLen - 2
        /\ p + (FrameLen - 2) = p + FrameLen - 2
    BY <1>1
  <2> QED
    BY <2>1
<1>4. t[k + p + 1] = s[p + 1]
  BY <1>1
<1>5. \A i \in 2..(FrameLen - 3) : t[k + p + i] = s[p + i]
  BY <1>1
<1> QED
  BY <1>2, <1>3, <1>4, <1>5 DEF Decodes

\* What is found in the kept bytes and those behind them completes what was
\* found before.
LEMMA ParsedOn ==
  ASSUME NEW s \in Seq(Byte), NEW data \in Seq(Byte),
         NEW set, NEW r, Parsed(s, 1, set, r),
         NEW T, NEW k, Parsed(From(s, r) \o data, 1, T, k)
  PROVE  Parsed(s \o data, 1, set \cup Shifted(T, r - 1), r - 1 + k)
<1> DEFINE whole == s \o data
           bytes == From(s, r) \o data
           all == set \cup Shifted(T, r - 1)
<1>1. /\ r \in 1..(Len(s) + 1) /\ set \subseteq 1..Len(s)
      /\ \A q \in set : q + FrameLen <= r
      /\ \A q \in 1..(r - 1) :
           /\ q \in set <=> Fits(s, q) /\ Decodes(s, q) /\ Free(set, q)
           /\ Free(set, q) => Fits(s, q)
  BY DEF Parsed
<1>2. /\ k \in 1..(Len(bytes) + 1) /\ ~Fits(bytes, k) /\ T \subseteq 1..Len(bytes)
      /\ \A q \in T : q + FrameLen <= k
      /\ \A q \in 1..(k - 1) :
           /\ q \in T <=> Fits(bytes, q) /\ Decodes(bytes, q) /\ Free(T, q)
           /\ Free(T, q) => Fits(bytes, q)
  BY DEF Parsed
<1>3. /\ whole \in Seq(Byte) /\ bytes \in Seq(Byte)
      /\ Len(whole) = Len(s) + Len(data) /\ Len(bytes) = Len(whole) - r + 1
      /\ \A p \in 1..Len(s) : whole[p] = s[p]
      /\ \A p \in 1..Len(bytes) : whole[r - 1 + p] = bytes[p]
  BY <1>1, KeptBytes
<1>4. /\ FrameLen \in Nat /\ FrameLen > 4 /\ r \in Nat /\ r > 0 /\ k \in Nat /\ k > 0
      /\ Len(s) \in Nat /\ Len(data) \in Nat /\ Len(whole) \in Nat /\ Len(bytes) \in Nat
  BY <1>1, <1>2, <1>3, FrameAssumption
<1> HIDE DEF whole, bytes
<1>5. ASSUME NEW p \in 1..(Len(bytes) + 1) PROVE Fits(whole, r - 1 + p) <=> Fits(bytes, p)
  BY <1>3, <1>4 DEF Fits
<1>6. ASSUME NEW p \in 1..Len(bytes), Fits(bytes, p)
      PROVE  Decodes(whole, r - 1 + p) <=> Decodes(bytes, p)
  <2>1. r - 1 \in Nat /\ p \in Nat
    BY <1>4
  <2>2. ASSUME NEW i \in 0..(FrameLen - 1) PROVE whole[r - 1 + p + i] = bytes[p + i]
    <3>1. p + i \in 1..Len(bytes) /\ r - 1 + (p + i) = r - 1 + p + i
      BY <1>4, <1>6 DEF Fits
    <3> QED
      BY <3>1, <1>3
  <2> QED
    BY <2>1, <2>2, DecodesAlike
<1>7. ASSUME NEW p \in 1..Len(s), Fits(s, p)
      PROVE  Fits(whole, p) /\ (Decodes(whole, p) <=> Decodes(s, p))
  <2>1. Fits(whole, p)
    BY <1>3, <1>4, <1>7 DEF Fits
  <2>2. ASSUME NEW i \in 0..(FrameLen - 1) PROVE whole[0 + p + i] = s[p + i]
    <3>1. p + i \in 1..Len(s) /\ 0 + p + i = p + i
      BY <1>4, <1>7 DEF Fits
    <3> QED
      BY <3>1, <1>3
  <2>3. p \in Nat /\ 0 + p = p
    BY <1>4
  <2>4. Decodes(whole, 0 + p) <=> Decodes(s, p)
    BY <2>2, <2>3, DecodesAlike
  <2> QED
    BY <2>1, <2>3, <2>4
<1>8. /\ r - 1 + k \in 1..(Len(whole) + 1) /\ ~Fits(whole, r - 1 + k)
      /\ all \subseteq 1..Len(whole)
      /\ \A q \in all : q + FrameLen <= r - 1 + k
  <2>1. r - 1 + k \in 1..(Len(whole) + 1)
    BY <1>2, <1>3, <1>4
  <2>2. ~Fits(whole, r - 1 + k)
    BY <1>2, <1>5
  <2>3. ASSUME NEW q \in all PROVE q \in 1..Len(whole) /\ q + FrameLen <= r - 1 + k
    <3>1. CASE q \in set
      BY <3>1, <1>1, <1>3, <1>4
    <3>2. CASE q \in Shifted(T, r - 1)
      <4>1. PICK p \in T : q = r - 1 + p
        BY <3>2 DEF Shifted
      <4>2. p \in 1..Len(bytes) /\ p + FrameLen <= k
        BY <1>2
      <4> QED
        BY <4>1, <4>2, <1>3, <1>4
    <3> QED
      BY <3>1, <3>2
  <2> QED
    BY <2>1, <2>2, <2>3
<1>9. ASSUME NEW q \in 1..(r - 1)
      PROVE  /\ q \in all <=> Fits(whole, q) /\ Decodes(whole, q) /\ Free(all, q)
             /\ Free(all, q) => Fits(whole, q)
  <2>1. q \in 1..Len(s)
    BY <1>1, <1>4
  <2>2. \A x \in Shifted(T, r - 1) : q < x
    <3> SUFFICES ASSUME NEW p \in T PROVE q < r - 1 + p
      BY DEF Shifted
    <3> QED
      BY <1>2, <1>4
  <2>3. q \in all <=> q \in set
    BY <2>1, <2>2
  <2>4. Free(all, q) <=> Free(set, q)
    <3>1. \A x \in Shifted(T, r - 1) : x \in Int /\ ~(x < q)
      <4> SUFFICES ASSUME NEW p \in T PROVE r - 1 + p \in Int /\ ~(r - 1 + p < q)
        BY DEF Shifted
      <4> QED
        BY <1>2, <1>4
    <3> QED
      BY <3>1 DEF Free
  <2> QED
    BY <2>1, <2>3, <2>4, <1>1, <1>7
<1>10. ASSUME NEW q \in r..(r - 1 + k - 1)
       PROVE  /\ q \in all <=> Fits(whole, q) /\ Decodes(whole, q) /\ Free(all, q)
              /\ Free(all, q) => Fits(whole, q)
  <2> DEFINE p == q - r + 1
  <2>1. q \in Int /\ p \in 1..(k - 1) /\ p \in 1..Len(bytes) /\ q = r - 1 + p
    BY <1>2, <1>4
  <2> HIDE DEF p
  <2>2. q \in all <=> p \in T
    <3>1. q \notin set
      BY <1>1, <1>4, <2>1
    <3>2. q \in Shifted(T, r - 1) => p \in T
      <4> SUFFICES ASSUME NEW x \in T, q = r - 1 + x PROVE x = p
        BY DEF Shifted
      <4> QED
        BY <1>2, <1>4, <2>1
    <3>3. p \in T => q \in Shifted(T, r - 1)
      BY <2>1 DEF Shifted
    <3> QED
      BY <3>1, <3>2, <3>3
  <2>3. Free(all, q) <=> Free(T, p)
    <3>1. Free(set, q)
      BY <1>1, <1>4, <2>1 DEF Free
    <3>2. Free(Shifted(T, r - 1), q) <=> Free(T, p)
      <4>1. \A x \in T : /\ r - 1 + x < q <=> x < p
                         /\ r - 1 + x + FrameLen <= q <=> x + FrameLen <= p
        BY <1>2, <1>4, <2>1
      <4> QED
        BY <4>1 DEF Free, Shifted
    <3>3. Free(all, q) <=> Free(set, q) /\ Free(Shifted(T, r - 1), q)
      BY DEF Free
    <3> QED
      BY <3>1, <3>2, <3>3
  <2> QED
    BY <2>1, <2>2, <2>3, <1>2, <1>5, <1>6
<1>11. \A q \in 1..(r - 1 + k - 1) : q \in 1..(r - 1) \/ q \in r..(r - 1 + k - 1)
  BY <1>4
<1> HIDE DEF all
<1>12. Parsed(whole, 1, all, r - 1 + k)
  BY <1>8, <1>9, <1>10, <1>11 DEF Parsed
<1> QED
  BY <1>12 DEF whole, all

\* The same bytes are left over.
LEMMA KeptAlike ==
  ASSUME NEW s \in Seq(Byte), NEW data \in Seq(Byte), NEW r \in 1..(Len(s) + 1),
         NEW k \in 1..(Len(From(s, r) \o data) + 1)
  PROVE  From(From(s, r) \o data, k) = From(s \o data, r - 1 + k)
<1> DEFINE whole == s \o data
           bytes == From(s, r) \o data
<1>1. /\ whole \in Seq(Byte) /\ bytes \in Seq(Byte)
      /\ Len(bytes) = Len(whole) - r + 1
      /\ \A p \in 1..Len(bytes) : whole[r - 1 + p] = bytes[p]
  BY KeptBytes
<1>2. Len(whole) \in Nat /\ Len(bytes) \in Nat /\ r \in Nat /\ k \in Nat /\ r > 0 /\ k > 0
      /\ k <= Len(bytes) + 1
  BY <1>1
<1> HIDE DEF whole, bytes
<1>3. Len(From(bytes, k)) = Len(bytes) - k + 1
      /\ \A i \in 1..(Len(bytes) - k + 1) : From(bytes, k)[i] = bytes[k + i - 1]
  BY <1>1, <1>2 DEF From
<1>4. Len(From(whole, r - 1 + k)) = Len(bytes) - k + 1
      /\ \A i \in 1..(Len(bytes) - k + 1) :
           From(whole, r - 1 + k)[i] = whole[r - 1 + k + i - 1]
  BY <1>1, <1>2 DEF From
<1>5. ASSUME NEW i \in 1..(Len(bytes) - k + 1)
      PROVE  whole[r - 1 + k + i - 1] = bytes[k + i - 1]
  <2>1. k + i - 1 \in 1..Len(bytes) /\ r - 1 + (k + i - 1) = r - 1 + k + i - 1
    BY <1>2
  <2> QED
    BY <2>1, <1>1
<1>6. From(bytes, k) \in Seq(Byte) /\ From(whole, r - 1 + k) \in Seq(Byte)
  BY <1>1, <1>2, SMTT(60) DEF From
<1>7. From(bytes, k) = From(whole, r - 1 + k)
  <2>1. \A i \in 1..Len(From(bytes, k)) : From(bytes, k)[i] = From(whole, r - 1 + k)[i]
    <3> DEFINE n == Len(bytes) - k + 1
    <3>1. \A i \in 1..n : From(whole, r - 1 + k)[i] = whole[r - 1 + k + i - 1]
      BY <1>4
    <3>2. \A i \in 1..n : From(bytes, k)[i] = bytes[k + i - 1]
      BY <1>3
    <3>3. \A i \in 1..n : whole[r - 1 + k + i - 1] = bytes[k + i - 1]
      BY <1>5
    <3>4. Len(From(bytes, k)) = n
      BY <1>3
    <3> HIDE DEF n
    <3> QED
      BY <3>1, <3>2, <3>3, <3>4, Zenon
  <2> QED
    BY <2>1, <1>3, <1>4, <1>6, SeqEqual
<1> QED
  BY <1>7 DEF whole, bytes

\* A stream read in two pieces has the frames of the first, and those of what
\* was left of it with the second behind.
THEOREM ReadingInPieces ==
  ASSUME NEW s \in Seq(Byte), NEW data \in Seq(Byte)
  PROVE  LET r == Undecided(s)
             bytes == From(s, r) \o data
         IN  /\ Starts(s \o data) = Starts(s) \cup Shifted(Starts(bytes), r - 1)
             /\ Starts(s) \cap Shifted(Starts(bytes), r - 1) = {}
             /\ From(s \o data, Undecided(s \o data)) = From(bytes, Undecided(bytes))
<1> DEFINE r == Undecided(s)
           bytes == From(s, r) \o data
           found == Shifted(Starts(bytes), r - 1)
<1>1. Parsed(s, 1, Starts(s), r)
  BY StreamParses
<1>2. r \in 1..(Len(s) + 1) /\ \A q \in Starts(s) : q + FrameLen <= r
      /\ Starts(s) \subseteq 1..Len(s)
  BY <1>1 DEF Parsed
<1>3. bytes \in Seq(Byte) /\ s \o data \in Seq(Byte)
  BY <1>2, KeptBytes
<1>4. Parsed(bytes, 1, Starts(bytes), Undecided(bytes))
  BY <1>3, StreamParses
<1>5. Parsed(s \o data, 1, Starts(s) \cup found, r - 1 + Undecided(bytes))
  BY <1>1, <1>4, ParsedOn
<1>6. Starts(s \o data) = Starts(s) \cup found
      /\ Undecided(s \o data) = r - 1 + Undecided(bytes)
  BY <1>3, <1>5, ParsedIsReference
<1>7. Starts(s) \cap found = {}
  <2> SUFFICES ASSUME NEW p \in Starts(bytes), r - 1 + p \in Starts(s) PROVE FALSE
    BY DEF Shifted
  <2>1. Starts(bytes) \subseteq 1..Len(bytes)
    BY <1>4 DEF Parsed
  <2> QED
    BY <2>1, <1>2, FrameAssumption
<1>8. Undecided(bytes) \in 1..(Len(bytes) + 1)
  BY <1>4 DEF Parsed
<1>9. From(s \o data, Undecided(s \o data)) = From(bytes, Undecided(bytes))
  BY <1>2, <1>6, <1>8, KeptAlike
<1> QED
  BY <1>6, <1>7, <1>9

-----------------------------------------------------------------------------
(* The invariant: the frames counted and the bytes kept are those of the   *)
(* stream, read in one piece.                                              *)

IInv == TypeOK /\ ChunkingIsInvisible

LEMMA EmptyStream ==
  /\ <<>> \in Seq(Byte) /\ Starts(<<>>) = {} /\ Undecided(<<>>) = 1
  /\ From(<<>>, 1) = <<>>
<1>1. <<>> \in Seq(Byte) /\ Len(<<>>) = 0
  OBVIOUS
<1>2. Parsed(<<>>, 1, {}, 1)
  BY <1>1, FrameAssumption DEF Parsed, Fits
<1>3. From(<<>>, 1) = <<>>
  BY <1>1 DEF From
<1> QED
  BY <1>1, <1>2, <1>3, ParsedIsReference

LEMMA InitIInv == Init => IInv
<1> SUFFICES ASSUME Init PROVE IInv
  OBVIOUS
<1>1. TypeOK
  BY EmptyStream, FrameAssumption DEF Init, TypeOK
<1>2. ChunkingIsInvisible
  BY EmptyStream, FS_EmptySet DEF Init, ChunkingIsInvisible
<1> QED
  BY <1>1, <1>2 DEF IInv

LEMMA RejectedIInv == FeedRejected => IInv'
<1> SUFFICES ASSUME FeedRejected PROVE IInv'
  OBVIOUS
<1>1. TypeOK'
  BY EmptyStream, FrameAssumption DEF FeedRejected, TypeOK
<1>2. ChunkingIsInvisible'
  BY EmptyStream, FS_EmptySet DEF FeedRejected, ChunkingIsInvisible
<1> QED
  BY <1>1, <1>2 DEF IInv

\* What the frames of a stream are.
LEMMA StartsTyped ==
  ASSUME NEW s \in Seq(Byte)
  PROVE  /\ Starts(s) \in SUBSET (1..Len(s)) /\ IsFiniteSet(Starts(s))
         /\ Cardinality(Starts(s)) \in Nat
         /\ Undecided(s) \in 1..(Len(s) + 1)
         /\ From(s, Undecided(s)) \in Seq(Byte)
         /\ Len(From(s, Undecided(s))) < FrameLen
<1>1. /\ Undecided(s) \in 1..(Len(s) + 1) /\ ~Fits(s, Undecided(s))
      /\ Starts(s) \in SUBSET (1..Len(s))
  BY StreamParses DEF Parsed
<1>2. Len(s) \in Nat
  OBVIOUS
<1>3. IsFiniteSet(Starts(s))
  <2>1. IsFiniteSet(1..Len(s))
    BY <1>2, FS_Interval
  <2> QED
    BY <2>1, <1>1, FS_Subset
<1>4. From(s, Undecided(s)) \in Seq(Byte)
      /\ Len(From(s, Undecided(s))) = Len(s) - Undecided(s) + 1
  BY <1>1 DEF From
<1>5. Len(From(s, Undecided(s))) < FrameLen
  BY <1>1, <1>2, <1>4, FrameAssumption DEF Fits
<1> QED
  BY <1>1, <1>3, <1>4, <1>5, FS_CardinalityType

LEMMA MaxOfFinite ==
  ASSUME NEW n \in Nat, NEW set \in SUBSET (1..n), set # {}
  PROVE  Max(set) \in set /\ \A p \in set : p <= Max(set)
<1> DEFINE D == {k \in Nat : n - k \in set}
<1>1. D # {}
  <2>1. PICK p \in set : TRUE
    OBVIOUS
  <2>2. n - p \in Nat /\ n - (n - p) = p
    OBVIOUS
  <2> QED
    BY <2>1, <2>2
<1>2. PICK k \in D : \A l \in D : ~(<<l, k>> \in OpToRel(<, Nat))
  BY <1>1, WFMin, NatLessThanWellFounded
<1>3. k \in Nat /\ n - k \in set /\ \A l \in D : ~(l < k)
  BY <1>2 DEF OpToRel
<1>4. ASSUME NEW p \in set PROVE n - k >= p
  <2>1. p \in 1..n /\ n - p \in Nat /\ n - (n - p) = p
    OBVIOUS
  <2>2. n - p \in D
    BY <2>1
  <2> QED
    BY <2>1, <2>2, <1>3
<1>5. \E x \in set : \A y \in set : x >= y
  BY <1>3, <1>4
<1>6. Max(set) \in set /\ \A y \in set : Max(set) >= y
  BY <1>5 DEF Max
<1> QED
  BY <1>6

LEMMA LastSampleTyped ==
  ASSUME NEW s, NEW taken
  PROVE  LastSample(s, taken) \in {"none", "ok", "failsafe"}
BY DEF LastSample, Sample

\* feed() behind what is kept of a stream extends the stream.
LEMMA FeedFromIInv ==
  ASSUME NEW data \in Seq(Byte), NEW history \in Seq(Byte),
         FeedFrom(From(history, Undecided(history)), Cardinality(Starts(history)),
                  history, data)
  PROVE  IInv'
<1> DEFINE bytes == From(history, Undecided(history)) \o data
           found == Shifted(Starts(bytes), Undecided(history) - 1)
<1>1. /\ Starts(history) \in SUBSET (1..Len(history)) /\ IsFiniteSet(Starts(history))
      /\ Cardinality(Starts(history)) \in Nat
      /\ Undecided(history) \in 1..(Len(history) + 1)
  BY StartsTyped
<1>2. bytes \in Seq(Byte) /\ history \o data \in Seq(Byte)
  BY <1>1, KeptBytes
<1>3. /\ buf' = From(bytes, Undecided(bytes))
      /\ frames' = Cardinality(Starts(history)) + Cardinality(Starts(bytes))
      /\ out' = LastSample(bytes, Starts(bytes))
      /\ stream' = history \o data
  BY <1>2, ScanFindsTheFrames DEF FeedFrom
<1>4. /\ Starts(history \o data) = Starts(history) \cup found
      /\ Starts(history) \cap found = {}
      /\ From(history \o data, Undecided(history \o data)) = From(bytes, Undecided(bytes))
  BY ReadingInPieces
<1>5. IsFiniteSet(found) /\ Cardinality(found) = Cardinality(Starts(bytes))
  <2>1. Starts(bytes) \in SUBSET (1..Len(bytes))
    BY <1>2, StartsTyped
  <2>2. Len(bytes) \in Nat /\ Undecided(history) - 1 \in Nat
    BY <1>1, <1>2
  <2> QED
    BY <2>1, <2>2, ShiftedCardinality
<1> HIDE DEF bytes, found
<1>6. Cardinality(Starts(history) \cup found)
        = Cardinality(Starts(history)) + Cardinality(found)
  <2>1. Cardinality({}) = 0
    BY FS_EmptySet
  <2>2. Cardinality(Starts(history) \cup found)
          = Cardinality(Starts(history)) + Cardinality(found)
            - Cardinality(Starts(history) \cap found)
    BY <1>1, <1>5, FS_Union
  <2>3. Cardinality(found) \in Nat
    BY <1>5, FS_CardinalityType
  <2>4. Cardinality(Starts(history) \cap found) = 0
    BY <2>1, <1>4
  <2> QED
    BY <2>2, <2>3, <2>4, <1>1
<1>7. ChunkingIsInvisible'
  BY <1>3, <1>4, <1>5, <1>6 DEF ChunkingIsInvisible
<1>8. TypeOK'
  <2>1. stream' \in Seq(Byte)
    BY <1>2, <1>3
  <2>2. buf' \in Seq(Byte) /\ Len(buf') < FrameLen
    BY <1>2, <1>3, StartsTyped
  <2>3. frames' \in Nat
    BY <1>2, <1>3, <1>1, StartsTyped
  <2>4. out' \in {"none", "ok", "failsafe"}
    BY <1>3, LastSampleTyped
  <2> QED
    BY <2>1, <2>2, <2>3, <2>4 DEF TypeOK
<1> QED
  BY <1>7, <1>8 DEF IInv

\* A burst that drops the residual is read as a stream of its own.
LEMMA FeedIsFeedFrom ==
  ASSUME IInv, NEW data \in Seq(Byte), Feed(data)
  PROVE  \E history \in {stream, <<>>} :
           /\ history \in Seq(Byte)
           /\ history = stream \/ Len(buf) + Len(data) > Buf
           /\ FeedFrom(From(history, Undecided(history)), Cardinality(Starts(history)),
                       history, data)
<1>1. CASE /\ Len(buf) + Len(data) <= Buf
           /\ FeedFrom(buf, frames, stream, data)
  <2>1. FeedFrom(From(stream, Undecided(stream)), Cardinality(Starts(stream)), stream, data)
    BY <1>1 DEF IInv, ChunkingIsInvisible
  <2> QED
    BY <2>1 DEF IInv, TypeOK
<1>2. CASE /\ Len(buf) + Len(data) > Buf
           /\ FeedFrom(<<>>, 0, <<>>, data)
  <2>1. FeedFrom(From(<<>>, Undecided(<<>>)), Cardinality(Starts(<<>>)), <<>>, data)
    BY <1>2, EmptyStream, FS_EmptySet
  <2> QED
    BY <2>1, <1>2, EmptyStream
<1> QED
  BY <1>1, <1>2 DEF Feed

LEMMA ReceiveIsFeed ==
  Receive => \E data \in Seq(Byte) : Len(data) \in 1..Buf /\ Feed(data)
<1> SUFFICES ASSUME NEW len \in 1..Buf, NEW data \in [1..len -> Byte], Feed(data)
             PROVE  data \in Seq(Byte) /\ Len(data) \in 1..Buf
  BY DEF Receive
<1> QED
  BY BufAssumption

LEMMA NextIInv == IInv /\ [Next]_vars => IInv'
<1> SUFFICES ASSUME IInv, [Next]_vars PROVE IInv'
  OBVIOUS
<1>1. CASE Receive
  BY <1>1, ReceiveIsFeed, FeedIsFeedFrom, FeedFromIInv
<1>2. CASE FeedRejected
  BY <1>2, RejectedIInv
<1>3. CASE UNCHANGED vars
  BY <1>3 DEF vars, IInv, TypeOK, ChunkingIsInvisible
<1> QED
  BY <1>1, <1>2, <1>3 DEF Next

\* The parser and the stream it has read so far, after any cuts and resets
\* (rc_parse.cpp:70-95).
THEOREM Invariance == Spec => []IInv
BY InitIInv, NextIInv, PTL DEF Spec

\* Every reachable state is well typed, the residual shorter than a frame.
THEOREM TypeCorrect == Spec => []TypeOK
<1>1. IInv => TypeOK
  BY DEF IInv
<1> QED
  BY <1>1, Invariance, PTL

\* For every length of frame and buffer, every stream and every way to cut it
\* into reads, frames and residual are those of the stream in one piece.
THEOREM Chunking == Spec => []ChunkingIsInvisible
<1>1. IInv => ChunkingIsInvisible
  BY DEF IInv
<1> QED
  BY <1>1, Invariance, PTL

-----------------------------------------------------------------------------
(* The action properties.                                                  *)

\* A burst of at most Buf - FrameLen + 1 bytes never drops those before it.
THEOREM NothingLost == Spec => ShortBurstsLoseNothing
<1>1. ASSUME IInv, [Next]_vars
      PROVE  [\/ IsPrefix(stream, stream')
              \/ stream' = <<>>
              \/ Len(stream') > Buf - FrameLen + 1]_vars
  <2>1. CASE Receive
    <3>1. PICK data \in Seq(Byte) : Len(data) \in 1..Buf /\ Feed(data)
      BY <2>1, ReceiveIsFeed
    <3>2. PICK history \in {stream, <<>>} :
            /\ history \in Seq(Byte)
            /\ history = stream \/ Len(buf) + Len(data) > Buf
            /\ stream' = history \o data
      BY <3>1, <1>1, FeedIsFeedFrom DEF FeedFrom
    <3>3. CASE history = stream
      <4>1. IsPrefix(stream, stream \o data)
        BY <3>2, <3>3 DEF IsPrefix
      <4> QED
        BY <4>1, <3>2, <3>3
    <3>4. CASE history = <<>> /\ Len(buf) + Len(data) > Buf
      <4>1. stream' = data
        BY <3>2, <3>4
      <4>2. Len(buf) \in Nat /\ Len(buf) < FrameLen /\ Len(data) \in Nat
        BY <1>1, <3>1 DEF IInv, TypeOK
      <4>3. Len(data) > Buf - FrameLen + 1
        BY <4>2, <3>4, FrameAssumption, BufAssumption
      <4> QED
        BY <4>1, <4>3
    <3> QED
      BY <3>2, <3>3, <3>4
  <2>2. CASE FeedRejected
    BY <2>2 DEF FeedRejected
  <2>3. CASE UNCHANGED vars
    BY <2>3
  <2> QED
    BY <1>1, <2>1, <2>2, <2>3 DEF Next
<1> QED
  BY <1>1, Invariance, PTL DEF Spec, ShortBurstsLoseNothing

\* When a stream grows by no more than a frame, there is at most one new frame,
\* and it is the last one.
LEMMA NewFrameIsLast ==
  ASSUME NEW s \in Seq(Byte), NEW t \in Seq(Byte),
         IsPrefix(s, t), Len(t) - Len(s) <= FrameLen,
         NEW p \in Starts(t) \ Starts(s)
  PROVE  \A q \in Starts(t) : q <= p
<1> DEFINE data == From(t, Len(s) + 1)
           r == Undecided(s)
           bytes == From(s, r) \o data
<1>1. Len(s) \in Nat /\ Len(t) \in Nat /\ Len(s) <= Len(t) /\ FrameLen \in Nat
      /\ FrameLen > 4
  BY FrameAssumption DEF IsPrefix
<1>2. data \in Seq(Byte) /\ t = s \o data
  <2>1. data \in Seq(Byte) /\ Len(data) = Len(t) - Len(s)
        /\ \A i \in 1..(Len(t) - Len(s)) : data[i] = t[Len(s) + i]
    BY <1>1 DEF From
  <2>2. \A i \in 1..Len(s) : t[i] = s[i]
    <3>1. SubSeq(s, 1, Len(s)) = SubSeq(t, 1, Len(s))
      BY DEF IsPrefix
    <3>2. \A i \in 1..Len(s) : SubSeq(s, 1, Len(s))[i] = s[i]
      BY <1>1
    <3>3. \A i \in 1..Len(s) : SubSeq(t, 1, Len(s))[i] = t[i]
      BY <1>1
    <3> QED
      BY <3>1, <3>2, <3>3
  <2> HIDE DEF data
  <2>3. s \o data \in Seq(Byte) /\ Len(s \o data) = Len(t)
    BY <1>1, <2>1
  <2>4. ASSUME NEW i \in 1..Len(t) PROVE t[i] = (s \o data)[i]
    <3>1. CASE i <= Len(s)
      BY <3>1, <1>1, <2>1, <2>2
    <3>2. CASE i > Len(s)
      <4>1. i - Len(s) \in 1..(Len(t) - Len(s)) /\ Len(s) + (i - Len(s)) = i
        BY <3>2, <1>1
      <4>2. (s \o data)[i] = data[i - Len(s)]
        BY <3>2, <4>1, <1>1, <2>1
      <4> QED
        BY <4>1, <4>2, <2>1
    <3>3. i <= Len(s) \/ i > Len(s)
      BY <1>1
    <3> QED
      BY <3>1, <3>2, <3>3
  <2> QED
    BY <2>1, <2>3, <2>4, SeqEqual
<1>3. Parsed(s, 1, Starts(s), r)
  BY StreamParses
<1>4. r \in 1..(Len(s) + 1) /\ ~Fits(s, r) /\ \A q \in Starts(s) : q + FrameLen <= r
  BY <1>3 DEF Parsed
<1>5. ASSUME NEW q \in Starts(t) \ Starts(s) PROVE q \in Nat /\ r <= q
  <2>1. q \in Shifted(Starts(bytes), r - 1)
    <3>1. Starts(s \o data) = Starts(s) \cup Shifted(Starts(bytes), r - 1)
      BY <1>2, ReadingInPieces
    <3>2. Starts(t) = Starts(s \o data)
      BY <1>2
    <3> QED
      BY <3>1, <3>2
  <2>2. bytes \in Seq(Byte)
    BY <1>2, <1>4, KeptBytes
  <2>3. PICK x \in Starts(bytes) : q = r - 1 + x
    BY <2>1 DEF Shifted
  <2>4. x \in 1..Len(bytes)
    BY <2>2, StartsTyped
  <2> QED
    BY <2>3, <2>4, <1>4
<1>6. Parsed(t, 1, Starts(t), Undecided(t))
  BY StreamParses
<1>7. /\ Undecided(t) \in 1..(Len(t) + 1) /\ Starts(t) \subseteq 1..Len(t)
      /\ \A q \in Starts(t) : q + FrameLen <= Undecided(t)
      /\ \A q \in 1..(Undecided(t) - 1) : q \in Starts(t) => Free(Starts(t), q)
  BY <1>6 DEF Parsed
<1> SUFFICES ASSUME NEW q \in Starts(t), ~(q <= p) PROVE FALSE
  OBVIOUS
<1>8. p \in Nat /\ q \in Nat /\ p < q /\ r <= p /\ q + FrameLen <= Len(t) + 1
  BY <1>1, <1>5, <1>7
<1>9. p + FrameLen <= q
  <2>1. q \in 1..(Undecided(t) - 1)
    BY <1>1, <1>7
  <2> QED
    BY <2>1, <1>7, <1>8 DEF Free
<1>10. r + FrameLen > Len(s) + 1
  BY <1>1, <1>4 DEF Fits
<1> QED
  BY <1>1, <1>4, <1>8, <1>9, <1>10

\* A frame's flags are the same wherever its bytes are.
LEMMA SampleAlike ==
  ASSUME NEW s \in Seq(Byte), NEW data \in Seq(Byte),
         NEW x \in Starts(From(s, Undecided(s)) \o data)
  PROVE  Sample(s \o data, Undecided(s) - 1 + x) = Sample(From(s, Undecided(s)) \o data, x)
<1> DEFINE r == Undecided(s)
           whole == s \o data
           bytes == From(s, r) \o data
<1>1. r \in 1..(Len(s) + 1)
  BY StartsTyped
<1>2. bytes \in Seq(Byte) /\ \A p \in 1..Len(bytes) : whole[r - 1 + p] = bytes[p]
  BY <1>1, KeptBytes
<1>3. Parsed(bytes, 1, Starts(bytes), Undecided(bytes))
  BY <1>2, StreamParses
<1>4. x \in 1..Len(bytes) /\ x + FrameLen <= Undecided(bytes)
      /\ Undecided(bytes) \in 1..(Len(bytes) + 1)
  BY <1>3 DEF Parsed
<1> HIDE DEF bytes, whole
<1>5. x + FrameLen - 2 \in 1..Len(bytes)
      /\ r - 1 + (x + FrameLen - 2) = r - 1 + x + FrameLen - 2
  BY <1>1, <1>2, <1>4, FrameAssumption
<1>6. whole[r - 1 + x + FrameLen - 2] = bytes[x + FrameLen - 2]
  BY <1>2, <1>5
<1>7. Sample(whole, r - 1 + x) = Sample(bytes, x)
  BY <1>6 DEF Sample
<1> QED
  BY <1>7 DEF bytes, whole

\* As long as reads are no longer than a frame, no frame's sample is
\* overwritten by the next one's.
THEOREM EachFrameIsSeen == Spec => NoFrameIsOverwritten
<1>1. ASSUME IInv, IInv', [Next]_vars
      PROVE  [IsPrefix(stream, stream') /\ Len(stream') - Len(stream) <= FrameLen =>
                \A p \in Starts(stream') \ Starts(stream) : out' = Sample(stream', p)]_vars
  <2>1. CASE Receive
    <3> SUFFICES ASSUME IsPrefix(stream, stream'), Len(stream') - Len(stream) <= FrameLen,
                        NEW p \in Starts(stream') \ Starts(stream)
                 PROVE  out' = Sample(stream', p)
      OBVIOUS
    <3>1. PICK data \in Seq(Byte) : Feed(data)
      BY <2>1, ReceiveIsFeed
    <3>2. PICK history \in {stream, <<>>} :
            /\ history \in Seq(Byte)
            /\ FeedFrom(From(history, Undecided(history)), Cardinality(Starts(history)),
                        history, data)
      BY <3>1, <1>1, FeedIsFeedFrom
    <3> DEFINE r == Undecided(history)
               bytes == From(history, r) \o data
    <3>3. bytes \in Seq(Byte) /\ r \in 1..(Len(history) + 1)
      BY <3>2, StartsTyped, KeptBytes
    <3>4. stream' = history \o data /\ out' = LastSample(bytes, Starts(bytes))
      BY <3>2, <3>3, ScanFindsTheFrames DEF FeedFrom
    <3>5. Starts(stream') = Starts(history) \cup Shifted(Starts(bytes), r - 1)
      BY <3>2, <3>4, ReadingInPieces
    <3>6. p \in Shifted(Starts(bytes), r - 1)
      <4>1. p \notin Starts(history)
        BY EmptyStream
      <4> QED
        BY <4>1, <3>5
    <3>7. PICK x \in Starts(bytes) : p = r - 1 + x
      BY <3>6 DEF Shifted
    <3>8. \A q \in Starts(stream') : q <= p
      BY <1>1, NewFrameIsLast DEF IInv, TypeOK
    <3>9. Starts(bytes) \in SUBSET (1..Len(bytes)) /\ Len(bytes) \in Nat
      <4>1. Len(bytes) \in Nat
        BY <3>3
      <4> QED
        BY <4>1, <3>3, StartsTyped
    <3>10. ASSUME NEW y \in Starts(bytes) PROVE y <= x
      <4>1. r - 1 + y \in Starts(stream')
        BY <3>5 DEF Shifted
      <4>2. x \in Nat /\ y \in Nat /\ r \in Nat
        BY <3>3, <3>9
      <4> QED
        BY <4>1, <4>2, <3>7, <3>8
    <3>11. Max(Starts(bytes)) = x
      <4>1. Max(Starts(bytes)) \in Starts(bytes) /\ x <= Max(Starts(bytes))
        BY <3>9, MaxOfFinite
      <4> QED
        BY <4>1, <3>9, <3>10
    <3>12. out' = Sample(bytes, x)
      BY <3>4, <3>11 DEF LastSample
    <3>13. Sample(stream', p) = Sample(bytes, x)
      BY <3>2, <3>4, <3>7, SampleAlike
    <3> QED
      BY <3>12, <3>13
  <2>2. CASE FeedRejected
    BY <2>2, EmptyStream DEF FeedRejected
  <2>3. CASE UNCHANGED vars
    BY <2>3
  <2> QED
    BY <1>1, <2>1, <2>2, <2>3 DEF Next
<1> QED
  BY <1>1, Invariance, PTL DEF Spec, NoFrameIsOverwritten

=============================================================================
