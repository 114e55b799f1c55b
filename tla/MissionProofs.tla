--------------------------- MODULE MissionProofs ----------------------------
(***************************************************************************)
(* Theorems about the RC scenarios: what the plant packs is what the       *)
(* firmware takes out of a frame, for every channel and every flags; what  *)
(* it hears is what the scenario commands, in every tick; a mission is a   *)
(* run of the control loop, whose theorems therefore hold in it; and its   *)
(* motors and its failsafe follow the scenario's script.                   *)
(***************************************************************************)
EXTENDS Mission, ControlLoopProofs, TLAPS

-----------------------------------------------------------------------------
(* The frame.                                                              *)

LEMMA Decompose ==
  ASSUME NEW i \in 0..15, NEW b \in 0..10
  PROVE  /\ 11 * i + b \in 0..175
         /\ (11 * i + b) % 11 = b
         /\ (11 * i + b) \div 11 = i
OBVIOUS

\* Where the bits of a channel lie.
LEMMA BitsOfChannel ==
  ASSUME NEW ch \in [0..15 -> Channel11], NEW i \in 0..15, NEW b \in 0..10
  PROVE  11 * i + b \in Bits(ch) <=> b \in ch[i]
BY Decompose DEF Bits

\* A channel's window: its first byte, its shift, and what they come to.
LEMMA Window ==
  ASSUME NEW i \in 0..15
  PROVE  LET byte  == 1 + (11 * i) \div 8
             shift == (11 * i) % 8
         IN  /\ byte \in 1..21 /\ shift \in 0..7
             /\ 8 * (byte - 1) + shift = 11 * i
             /\ shift + 10 >= 16 => byte + 2 <= 22
             /\ shift = 0 => shift + 10 < 16
OBVIOUS

\* Which of three bytes in a row a bit lies in.
LEMMA BitOfThree ==
  ASSUME NEW lo \in Byte8, NEW mid \in Byte8, NEW hi \in Byte8, NEW x \in 0..17
  PROVE  x \in Raw(lo, mid, hi) <=>
           \/ x < 8 /\ x \in lo
           \/ x \in 8..15 /\ x - 8 \in mid
           \/ x >= 16 /\ x - 16 \in hi
<1>1. lo \subseteq 0..7 /\ mid \subseteq 0..7 /\ hi \subseteq 0..7
  BY DEF Byte8
<1>2. x \in {8 + b : b \in mid} <=> x \in 8..15 /\ x - 8 \in mid
  <2>1. ASSUME NEW b \in mid, x = 8 + b PROVE x \in 8..15 /\ x - 8 = b
    BY <1>1, <2>1
  <2>2. x = 8 + (x - 8)
    OBVIOUS
  <2> QED
    BY <2>1, <2>2
<1>3. x \in {16 + b : b \in hi} <=> x >= 16 /\ x - 16 \in hi
  <2>1. ASSUME NEW b \in hi, x = 16 + b PROVE x >= 16 /\ x - 16 = b
    BY <1>1, <2>1
  <2>2. x = 16 + (x - 16)
    OBVIOUS
  <2> QED
    BY <2>1, <2>2
<1> QED
  BY <1>1, <1>2, <1>3 DEF Raw

\* Bytes cut out of a row of bits show those bits.
LEMMA BitOfRow ==
  ASSUME NEW B, NEW p \in Int, NEW x \in 0..17,
         NEW lo \in Byte8, NEW mid \in Byte8, NEW hi \in Byte8,
         \A c \in 0..7 : c \in lo <=> p + c \in B,
         \A c \in 0..7 : c \in mid <=> p + 8 + c \in B,
         x >= 16 => \A c \in 0..7 : c \in hi <=> p + 16 + c \in B
  PROVE  x \in Raw(lo, mid, hi) <=> p + x \in B
<1>1. CASE x < 8
  BY <1>1, BitOfThree
<1>2. CASE x \in 8..15
  <2>1. p + 8 + (x - 8) = p + x /\ x - 8 \in 0..7
    BY <1>2
  <2> QED
    BY <1>2, <2>1, BitOfThree
<1>3. CASE x >= 16
  <2>1. p + 16 + (x - 16) = p + x /\ x - 16 \in 0..7
    BY <1>3
  <2> QED
    BY <1>3, <2>1, BitOfThree
<1> QED
  BY <1>1, <1>2, <1>3

\* Whatever the channels and the flags, each channel comes out as it went in
\* (rc.py:19-30, rc_parse.cpp:22-31): none of its bits is lost between two
\* bytes, and none of a neighbour's, or of the flags', gets in.
THEOREM RoundTrip ==
  ASSUME NEW ch \in [0..15 -> Channel11], NEW flags, NEW i \in 0..15
  PROVE  Channel(SbusEncode(ch, flags), i) = ch[i]
<1> DEFINE f == SbusEncode(ch, flags)
           byte == 1 + (11 * i) \div 8
           shift == (11 * i) % 8
           p == 8 * (byte - 1)
           hi == IF shift # 0 THEN f[byte + 2] ELSE {}
           raw == Raw(f[byte], f[byte + 1], hi)
<1>1. /\ byte \in 1..21 /\ shift \in 0..7
      /\ p + shift = 11 * i
      /\ shift + 10 >= 16 => byte + 2 <= 22
      /\ shift = 0 => shift + 10 < 16
  BY Window
<1>2. \A k \in 1..22 : \A c \in 0..7 : c \in f[k] <=> 8 * (k - 1) + c \in Bits(ch)
  <2>1. ASSUME NEW k \in 1..22 PROVE f[k] = {c \in 0..7 : 8 * (k - 1) + c \in Bits(ch)}
    BY DEF SbusEncode
  <2> QED
    <3> SUFFICES ASSUME NEW k \in 1..22, NEW c \in 0..7
                 PROVE  c \in f[k] <=> 8 * (k - 1) + c \in Bits(ch)
      OBVIOUS
    <3> HIDE DEF f
    <3> QED
      BY <2>1
<1>3. \A k \in 1..23 : f[k] \in Byte8
  BY DEF SbusEncode, Byte8
<1>4. Channel(f, i) = {b \in 0..10 : b + shift \in raw}
  BY DEF Channel
<1> HIDE DEF f, byte, shift
<1>5. ASSUME NEW b \in 0..10 PROVE b + shift \in raw <=> 11 * i + b \in Bits(ch)
  <2>1. PICK lo, mid, x, q, B : /\ lo = f[byte] /\ mid = f[byte + 1]
                                /\ x = b + shift /\ q = p /\ B = Bits(ch)
    OBVIOUS
  <2>2. x \in 0..17 /\ q \in Int /\ q + x = 11 * i + b
    BY <1>1, <2>1
  <2>3. \A c \in 0..7 : c \in lo <=> q + c \in B
    <3>1. byte \in 1..22 /\ 8 * (byte - 1) = q
      BY <1>1, <2>1
    <3> QED
      BY <1>2, <2>1, <3>1
  <2>4. \A c \in 0..7 : c \in mid <=> q + 8 + c \in B
    <3>1. PICK k \in 1..22 : k = byte + 1 /\ 8 * (k - 1) = q + 8
      BY <1>1, <2>1
    <3>2. f[k] = mid
      BY <2>1, <3>1
    <3>3. \A c \in 0..7 : c \in f[k] <=> 8 * (k - 1) + c \in B
      BY <1>2, <2>1
    <3> HIDE DEF p, hi
    <3> QED
      BY <3>1, <3>2, <3>3
  <2>5. ASSUME x >= 16 PROVE \A c \in 0..7 : c \in hi <=> q + 16 + c \in B
    <3>1. PICK k \in 1..22 : k = byte + 2 /\ 8 * (k - 1) = q + 16 /\ shift # 0
      BY <1>1, <2>1, <2>5
    <3>2. f[k] = hi
      BY <2>1, <3>1
    <3>3. \A c \in 0..7 : c \in f[k] <=> 8 * (k - 1) + c \in B
      BY <1>2, <2>1
    <3> HIDE DEF p, hi
    <3> QED
      BY <3>1, <3>2, <3>3
  <2>6. lo \in Byte8 /\ mid \in Byte8
    BY <1>1, <1>3, <2>1
  <2>7. hi \in Byte8
    <3>1. {} \in Byte8
      BY DEF Byte8
    <3> QED
      BY <1>1, <1>3, <3>1
  <2>8. raw = Raw(lo, mid, hi)
    BY <2>1
  <2> HIDE DEF p, hi, raw
  <2>9. PICK h : h = hi
    OBVIOUS
  <2>10. x \in Raw(lo, mid, h) <=> q + x \in B
    BY <2>2, <2>3, <2>4, <2>5, <2>6, <2>7, <2>9, BitOfRow
  <2> QED
    BY <2>1, <2>2, <2>8, <2>9, <2>10
<1>6. \A b \in 0..10 : b + shift \in raw <=> b \in ch[i]
  BY <1>5, BitsOfChannel
<1>7. ch[i] \subseteq 0..10
  BY DEF Channel11
<1> HIDE DEF raw
<1>8. Channel(f, i) = ch[i]
  BY <1>4, <1>6, <1>7
<1> QED
  BY <1>8 DEF f

\* The firmware accepts each frame of the plant in which two channels differ,
\* and no other: a stuck frame is the only one it drops (rc_parse.cpp:42-56).
THEOREM Accepted ==
  ASSUME NEW ch \in [0..15 -> Channel11], NEW flags
  PROVE  Plausible(SbusEncode(ch, flags)) <=> \E i \in 1..15 : ch[i] # ch[0]
<1>1. SbusEncode(ch, flags)[0] = SbusHeader /\ SbusEncode(ch, flags)[23] \subseteq 0..3
  BY DEF SbusEncode
<1>2. \A i \in 0..15 : Channel(SbusEncode(ch, flags), i) = ch[i]
  BY RoundTrip
<1> QED
  BY <1>1, <1>2 DEF Plausible

-----------------------------------------------------------------------------
(* Numbers and their bits.                                                 *)

\* A number is what is above its last bit, and the bit.
LEMMA HalfAndBit ==
  ASSUME NEW q \in Int, NEW r \in Int, q \div 2 = r \div 2, q % 2 = 1 <=> r % 2 = 1
  PROVE  q = r
OBVIOUS

Num11 == 0..2047

\* No two numbers of 11 bits have the same bits.
LEMMA BitsTell ==
  ASSUME NEW v \in Num11, NEW w \in Num11, ToBits(v) = ToBits(w)
  PROVE  v = w
<1> USE DEF ToBits, Num11
<1>1. v \div 1024 = w \div 1024
  <2>1. 10 \in ToBits(v) <=> (v \div 1024) % 2 = 1
    OBVIOUS
  <2>2. 10 \in ToBits(w) <=> (w \div 1024) % 2 = 1
    OBVIOUS
  <2> HIDE DEF ToBits
  <2>3. ASSUME NEW x \in 0..2047 PROVE x \div 1024 \in 0..1
    OBVIOUS
  <2>4. (v \div 1024) \div 2 = (w \div 1024) \div 2
    BY <2>3
  <2> QED
    BY <2>1, <2>2, <2>3, <2>4, HalfAndBit
<1>2. v \div 512 = w \div 512
  <2>1. 9 \in ToBits(v) <=> (v \div 512) % 2 = 1
    OBVIOUS
  <2>2. 9 \in ToBits(w) <=> (w \div 512) % 2 = 1
    OBVIOUS
  <2> HIDE DEF ToBits
  <2>3. v \div 512 \in Int /\ w \div 512 \in Int
    OBVIOUS
  <2>4. (v \div 512) \div 2 = v \div 1024 /\ (w \div 512) \div 2 = w \div 1024
    OBVIOUS
  <2>5. (v \div 512) \div 2 = (w \div 512) \div 2
    BY <1>1, <2>4
  <2> QED
    BY <2>1, <2>2, <2>3, <2>5, HalfAndBit
<1>3. v \div 256 = w \div 256
  <2>1. 8 \in ToBits(v) <=> (v \div 256) % 2 = 1
    OBVIOUS
  <2>2. 8 \in ToBits(w) <=> (w \div 256) % 2 = 1
    OBVIOUS
  <2> HIDE DEF ToBits
  <2>3. v \div 256 \in Int /\ w \div 256 \in Int
    OBVIOUS
  <2>4. (v \div 256) \div 2 = v \div 512 /\ (w \div 256) \div 2 = w \div 512
    OBVIOUS
  <2>5. (v \div 256) \div 2 = (w \div 256) \div 2
    BY <1>2, <2>4
  <2> QED
    BY <2>1, <2>2, <2>3, <2>5, HalfAndBit
<1>4. v \div 128 = w \div 128
  <2>1. 7 \in ToBits(v) <=> (v \div 128) % 2 = 1
    OBVIOUS
  <2>2. 7 \in ToBits(w) <=> (w \div 128) % 2 = 1
    OBVIOUS
  <2> HIDE DEF ToBits
  <2>3. v \div 128 \in Int /\ w \div 128 \in Int
    OBVIOUS
  <2>4. (v \div 128) \div 2 = v \div 256 /\ (w \div 128) \div 2 = w \div 256
    OBVIOUS
  <2>5. (v \div 128) \div 2 = (w \div 128) \div 2
    BY <1>3, <2>4
  <2> QED
    BY <2>1, <2>2, <2>3, <2>5, HalfAndBit
<1>5. v \div 64 = w \div 64
  <2>1. 6 \in ToBits(v) <=> (v \div 64) % 2 = 1
    OBVIOUS
  <2>2. 6 \in ToBits(w) <=> (w \div 64) % 2 = 1
    OBVIOUS
  <2> HIDE DEF ToBits
  <2>3. v \div 64 \in Int /\ w \div 64 \in Int
    OBVIOUS
  <2>4. (v \div 64) \div 2 = v \div 128 /\ (w \div 64) \div 2 = w \div 128
    OBVIOUS
  <2>5. (v \div 64) \div 2 = (w \div 64) \div 2
    BY <1>4, <2>4
  <2> QED
    BY <2>1, <2>2, <2>3, <2>5, HalfAndBit
<1>6. v \div 32 = w \div 32
  <2>1. 5 \in ToBits(v) <=> (v \div 32) % 2 = 1
    OBVIOUS
  <2>2. 5 \in ToBits(w) <=> (w \div 32) % 2 = 1
    OBVIOUS
  <2> HIDE DEF ToBits
  <2>3. v \div 32 \in Int /\ w \div 32 \in Int
    OBVIOUS
  <2>4. (v \div 32) \div 2 = v \div 64 /\ (w \div 32) \div 2 = w \div 64
    OBVIOUS
  <2>5. (v \div 32) \div 2 = (w \div 32) \div 2
    BY <1>5, <2>4
  <2> QED
    BY <2>1, <2>2, <2>3, <2>5, HalfAndBit
<1>7. v \div 16 = w \div 16
  <2>1. 4 \in ToBits(v) <=> (v \div 16) % 2 = 1
    OBVIOUS
  <2>2. 4 \in ToBits(w) <=> (w \div 16) % 2 = 1
    OBVIOUS
  <2> HIDE DEF ToBits
  <2>3. v \div 16 \in Int /\ w \div 16 \in Int
    OBVIOUS
  <2>4. (v \div 16) \div 2 = v \div 32 /\ (w \div 16) \div 2 = w \div 32
    OBVIOUS
  <2>5. (v \div 16) \div 2 = (w \div 16) \div 2
    BY <1>6, <2>4
  <2> QED
    BY <2>1, <2>2, <2>3, <2>5, HalfAndBit
<1>8. v \div 8 = w \div 8
  <2>1. 3 \in ToBits(v) <=> (v \div 8) % 2 = 1
    OBVIOUS
  <2>2. 3 \in ToBits(w) <=> (w \div 8) % 2 = 1
    OBVIOUS
  <2> HIDE DEF ToBits
  <2>3. v \div 8 \in Int /\ w \div 8 \in Int
    OBVIOUS
  <2>4. (v \div 8) \div 2 = v \div 16 /\ (w \div 8) \div 2 = w \div 16
    OBVIOUS
  <2>5. (v \div 8) \div 2 = (w \div 8) \div 2
    BY <1>7, <2>4
  <2> QED
    BY <2>1, <2>2, <2>3, <2>5, HalfAndBit
<1>9. v \div 4 = w \div 4
  <2>1. 2 \in ToBits(v) <=> (v \div 4) % 2 = 1
    OBVIOUS
  <2>2. 2 \in ToBits(w) <=> (w \div 4) % 2 = 1
    OBVIOUS
  <2> HIDE DEF ToBits
  <2>3. v \div 4 \in Int /\ w \div 4 \in Int
    OBVIOUS
  <2>4. (v \div 4) \div 2 = v \div 8 /\ (w \div 4) \div 2 = w \div 8
    OBVIOUS
  <2>5. (v \div 4) \div 2 = (w \div 4) \div 2
    BY <1>8, <2>4
  <2> QED
    BY <2>1, <2>2, <2>3, <2>5, HalfAndBit
<1>10. v \div 2 = w \div 2
  <2>1. 1 \in ToBits(v) <=> (v \div 2) % 2 = 1
    OBVIOUS
  <2>2. 1 \in ToBits(w) <=> (w \div 2) % 2 = 1
    OBVIOUS
  <2> HIDE DEF ToBits
  <2>3. v \div 2 \in Int /\ w \div 2 \in Int
    OBVIOUS
  <2>4. (v \div 2) \div 2 = v \div 4 /\ (w \div 2) \div 2 = w \div 4
    OBVIOUS
  <2>5. (v \div 2) \div 2 = (w \div 2) \div 2
    BY <1>9, <2>4
  <2> QED
    BY <2>1, <2>2, <2>3, <2>5, HalfAndBit
<1>11. v \div 1 = w \div 1
  <2>1. 0 \in ToBits(v) <=> (v \div 1) % 2 = 1
    OBVIOUS
  <2>2. 0 \in ToBits(w) <=> (w \div 1) % 2 = 1
    OBVIOUS
  <2> HIDE DEF ToBits
  <2>3. v \div 1 \in Int /\ w \div 1 \in Int
    OBVIOUS
  <2>4. (v \div 1) \div 2 = v \div 2 /\ (w \div 1) \div 2 = w \div 2
    OBVIOUS
  <2>5. (v \div 1) \div 2 = (w \div 1) \div 2
    BY <1>10, <2>4
  <2> QED
    BY <2>1, <2>2, <2>3, <2>5, HalfAndBit
<1> QED
  <2>1. v \div 1 = v /\ w \div 1 = w
    OBVIOUS
  <2> QED
    BY <1>11, <2>1

\* A number is the only one with its bits.
LEMMA NumberAgain ==
  ASSUME NEW v \in Num11
  PROVE  FromBits(ToBits(v)) = v /\ ToBits(v) \in Channel11
<1> DEFINE P(u) == ToBits(u) = ToBits(v)
<1>1. FromBits(ToBits(v)) = CHOOSE u \in Num11 : P(u)
  BY DEF FromBits, Num11
<1>2. P(v)
  OBVIOUS
<1>3. \A u \in Num11 : P(u) => u = v
  BY BitsTell
<1>4. FromBits(ToBits(v)) = v
  <2> HIDE DEF P
  <2> QED
    BY <1>1, <1>2, <1>3
<1>5. ToBits(v) \in Channel11
  BY DEF ToBits, Channel11
<1> QED
  BY <1>4, <1>5

-----------------------------------------------------------------------------
(* The scaling.                                                            *)

StickRange == -1000..1000
ThrottleRange == 0..1000
Resolution == -1..1

\* A stick and a throttle come back within a thousandth.
LEMMA StickScales ==
  ASSUME NEW v \in StickRange
  PROVE  StickToSbus(v) \in Num11 /\ v - Norm(StickToSbus(v)) \in Resolution
<1> USE DEF SbusMin, SbusMid, SbusMax, StickRange, ThrottleRange, Resolution
<1>1. StickToSbus(v) \in SbusMin..SbusMax
  <2>1. CASE v >= 0
    <3> DEFINE away == Nearest(v * (SbusMax - SbusMid), 1000)
    <3>1. v \in Int /\ v <= 1000
      OBVIOUS
    <3>2. away \in 0..819
      BY <2>1, <3>1, SMTT(60) DEF Nearest
    <3>3. StickToSbus(v) = SbusMid + away
      BY <2>1, SMTT(60) DEF StickToSbus
    <3> HIDE DEF away
    <3> QED
      BY <3>2, <3>3, SMTT(60)
  <2>2. CASE v < 0
    <3> DEFINE away == Nearest(v * (SbusMid - SbusMin), 1000)
    <3>1. v \in Int /\ v >= -1000 /\ ~(v >= 0)
      BY <2>2
    <3>2. away \in -820..0
      BY <3>1, SMTT(60) DEF Nearest
    <3>3. StickToSbus(v) = SbusMid + away
      BY <3>1, SMTT(60) DEF StickToSbus
    <3> HIDE DEF away
    <3> QED
      BY <3>2, <3>3, SMTT(60)
  <2> QED
    BY <2>1, <2>2
<1>3. v - Norm(StickToSbus(v)) \in Resolution
  <2>1. CASE v >= 0
    BY <2>1, SMTT(60) DEF StickToSbus, Nearest, Norm, Bounded
  <2>2. CASE v < 0
    BY <2>2, SMTT(60) DEF StickToSbus, Nearest, Norm, Bounded
  <2> QED
    BY <2>1, <2>2
<1> QED
  BY <1>1, <1>3 DEF Num11

LEMMA ThrottleScales ==
  ASSUME NEW v \in ThrottleRange
  PROVE  ThrottleToSbus(v) \in Num11 /\ v - NormThrottle(ThrottleToSbus(v)) \in Resolution
<1> USE DEF SbusMin, SbusMid, SbusMax, StickRange, ThrottleRange, Resolution
<1>1. ThrottleToSbus(v) \in SbusMin..SbusMax
  BY DEF ThrottleToSbus, Nearest
<1>2. v - NormThrottle(ThrottleToSbus(v)) \in Resolution
  BY DEF ThrottleToSbus, Nearest, NormThrottle, Bounded
<1> QED
  BY <1>1, <1>2 DEF Num11

StickPositions ==
  [roll : StickRange, pitch : StickRange, yaw : StickRange, throttle : ThrottleRange]

\* A frame of any sticks is accepted, and says what they are and that the switch
\* is on.
LEMMA FrameTells ==
  ASSUME NEW sticks \in StickPositions, NEW flags
  PROVE  LET f == DecodeFrame(Packed(sticks, flags))
         IN  /\ f.ok /\ f.armed_switch = TRUE
             /\ f.throttle = ThrottleClass(ThrottleToSbus(sticks.throttle))
             /\ f.rx_failsafe = (FailsafeBit \in flags)
             /\ f.frame_lost = (FrameLostBit \in flags)
             /\ DOMAIN f.sticks = DOMAIN sticks
             /\ \A a \in DOMAIN sticks : sticks[a] - f.sticks[a] \in Resolution
<1> DEFINE ch == BaseChannels(sticks)
           bits == [i \in 0..15 |-> ToBits(ch[i])]
           f == Packed(sticks, flags)
<1>1. /\ sticks.roll \in StickRange /\ sticks.pitch \in StickRange
      /\ sticks.yaw \in StickRange /\ sticks.throttle \in ThrottleRange
  BY DEF StickPositions
<1>2. /\ ch[0] = StickToSbus(sticks.roll) /\ ch[1] = StickToSbus(sticks.pitch)
      /\ ch[2] = ThrottleToSbus(sticks.throttle) /\ ch[3] = StickToSbus(sticks.yaw)
      /\ ch[4] = SbusMax
      /\ \A i \in 5..15 : ch[i] = 0
  BY DEF BaseChannels
<1>3. \A i \in 0..15 : ch[i] \in Num11
  <2>1. SbusMax \in Num11 /\ 0 \in Num11
    BY DEF SbusMax, Num11
  <2>2. ASSUME NEW i \in 0..15 PROVE i \in {0, 1, 2, 3, 4} \/ i \in 5..15
    OBVIOUS
  <2> HIDE DEF ch
  <2>3. ch[0] \in Num11 /\ ch[1] \in Num11 /\ ch[2] \in Num11 /\ ch[3] \in Num11
    BY <1>1, <1>2, StickScales, ThrottleScales
  <2> QED
    BY <1>2, <2>1, <2>2, <2>3
<1> HIDE DEF ch
<1>4. bits \in [0..15 -> Channel11]
  <2>1. ASSUME NEW i \in 0..15 PROVE ToBits(ch[i]) \in Channel11
    BY <1>3, NumberAgain
  <2> QED
    BY <2>1
<1>5. f = SbusEncode(bits, flags)
  BY DEF Packed, ch
<1>6. \A i \in 0..15 : Channel(f, i) = bits[i]
  BY <1>4, <1>5, RoundTrip
<1>7. \A i \in 0..15 : FromBits(Channel(f, i)) = ch[i]
  BY <1>3, <1>6, NumberAgain
<1>8. Plausible(f)
  <2>1. bits[4] # bits[5]
    <3>1. ch[4] # ch[5]
      BY <1>2 DEF SbusMax
    <3>2. ToBits(ch[4]) # ToBits(ch[5])
      BY <1>3, <3>1, BitsTell
    <3> QED
      BY <3>2
  <2>2. bits[4] # bits[0] \/ bits[5] # bits[0]
    BY <2>1
  <2> QED
    BY <1>4, <1>5, <2>2, Accepted
<1>9. f[23] = flags \cap 0..3
  BY <1>5 DEF SbusEncode
<1> HIDE DEF f, bits
<1>10. /\ DecodeFrame(f).ok = Plausible(f)
       /\ DecodeFrame(f).armed_switch = (FromBits(Channel(f, 4)) > SbusMid)
       /\ DecodeFrame(f).throttle = ThrottleClass(FromBits(Channel(f, 2)))
       /\ DecodeFrame(f).rx_failsafe = (FailsafeBit \in f[23])
       /\ DecodeFrame(f).frame_lost = (FrameLostBit \in f[23])
       /\ DecodeFrame(f).sticks =
            [roll |-> Norm(FromBits(Channel(f, 0))), pitch |-> Norm(FromBits(Channel(f, 1))),
             yaw |-> Norm(FromBits(Channel(f, 3))),
             throttle |-> NormThrottle(FromBits(Channel(f, 2)))]
  BY DEF DecodeFrame
<1>11. FromBits(Channel(f, 2)) = ThrottleToSbus(sticks.throttle)
  BY <1>2, <1>7
<1>12. FromBits(Channel(f, 4)) > SbusMid
  <2>1. FromBits(Channel(f, 4)) = SbusMax
    BY <1>2, <1>7
  <2> QED
    BY <2>1 DEF SbusMax, SbusMid
<1>13. FailsafeBit \in 0..3 /\ FrameLostBit \in 0..3
  BY DEF FailsafeBit, FrameLostBit
<1>14. DOMAIN sticks = {"roll", "pitch", "yaw", "throttle"}
  BY DEF StickPositions
<1>15. ASSUME NEW a \in DOMAIN sticks PROVE sticks[a] - DecodeFrame(f).sticks[a] \in Resolution
  <2>1. /\ DecodeFrame(f).sticks["roll"] = Norm(ch[0])
        /\ DecodeFrame(f).sticks["pitch"] = Norm(ch[1])
        /\ DecodeFrame(f).sticks["yaw"] = Norm(ch[3])
        /\ DecodeFrame(f).sticks["throttle"] = NormThrottle(ch[2])
    BY <1>7, <1>10
  <2> QED
    BY <1>1, <1>2, <1>14, <1>15, <2>1, StickScales, ThrottleScales
<1>16. DOMAIN DecodeFrame(f).sticks = DOMAIN sticks
  BY <1>10, <1>14
<1>17. /\ (FailsafeBit \in f[23]) = (FailsafeBit \in flags)
       /\ (FrameLostBit \in f[23]) = (FrameLostBit \in flags)
  BY <1>9, <1>13
<1>18. /\ DecodeFrame(f).rx_failsafe = (FailsafeBit \in flags)
       /\ DecodeFrame(f).frame_lost = (FrameLostBit \in flags)
  BY <1>10, <1>17, Zenon
<1>19. DecodeFrame(f).ok /\ DecodeFrame(f).armed_switch = TRUE
  <2>1. (FromBits(Channel(f, 4)) > SbusMid) = TRUE
    BY <1>12
  <2>2. DecodeFrame(f).armed_switch = TRUE
    BY <1>10, <2>1, Zenon
  <2> QED
    BY <1>8, <1>10, <2>2
<1>20. DecodeFrame(f).throttle = ThrottleClass(ThrottleToSbus(sticks.throttle))
  BY <1>10, <1>11
<1> QED
  BY <1>15, <1>16, <1>18, <1>19, <1>20, Zenon DEF f

-----------------------------------------------------------------------------
(* The scenarios.                                                          *)

LEMMA StepScripts ==
  /\ DOMAIN RateStep = {"rate_step_roll", "rate_step_pitch", "rate_step_yaw",
                        "rate_hover", "att_hover", "saturation"}
  /\ \A s \in DOMAIN RateStep : /\ RateStep[s].axis \in {"roll", "pitch", "yaw"}
                                /\ RateStep[s].amp \in StickRange
                                /\ RateStep[s].thr \in ThrottleRange
                                /\ RateStep[s].thr \in {300, 520, 550}
<1> DEFINE script == [axis : {"roll", "pitch", "yaw"}, amp : {0, 250, 500, 1000}, thr : {300, 520, 550}]
<1>1. DOMAIN RateStep = {"rate_step_roll", "rate_step_pitch", "rate_step_yaw",
                         "rate_hover", "att_hover", "saturation"}
  BY DEF RateStep
<1>2. /\ RateStep["rate_step_roll"] = [axis |-> "roll", amp |-> 250, thr |-> 550]
      /\ RateStep["rate_step_pitch"] = [axis |-> "pitch", amp |-> 250, thr |-> 550]
      /\ RateStep["rate_step_yaw"] = [axis |-> "yaw", amp |-> 500, thr |-> 550]
  BY DEF RateStep
<1>3. /\ RateStep["rate_hover"] = [axis |-> "roll", amp |-> 0, thr |-> 550]
      /\ RateStep["att_hover"] = [axis |-> "roll", amp |-> 0, thr |-> 520]
      /\ RateStep["saturation"] = [axis |-> "roll", amp |-> 1000, thr |-> 300]
  BY DEF RateStep
<1>4. ASSUME NEW s \in DOMAIN RateStep PROVE RateStep[s] \in script
  <2>1. CASE s \in {"rate_step_roll", "rate_step_pitch", "rate_step_yaw"}
    BY <1>2, <2>1
  <2>2. CASE s \in {"rate_hover", "att_hover", "saturation"}
    BY <1>3, <2>2
  <2> QED
    BY <1>1, <2>1, <2>2
<1>5. ASSUME NEW r \in script
      PROVE  /\ r.axis \in {"roll", "pitch", "yaw"} /\ r.amp \in StickRange
             /\ r.thr \in ThrottleRange /\ r.thr \in {300, 520, 550}
  BY DEF StickRange, ThrottleRange
<1> HIDE DEF script
<1> QED
  BY <1>1, <1>4, <1>5

\* A position with one axis or the throttle moved.
LEMMA Moved ==
  ASSUME NEW p \in StickPositions
  PROVE  /\ \A a \in {"roll", "pitch", "yaw"}, v \in StickRange : [p EXCEPT ![a] = v] \in StickPositions
         /\ \A v \in ThrottleRange : [p EXCEPT !.throttle = v] \in StickPositions
         /\ \A a \in {"roll", "pitch", "yaw"}, v \in StickRange : [p EXCEPT ![a] = v].throttle = p.throttle
<1>1. p = [roll |-> p.roll, pitch |-> p.pitch, yaw |-> p.yaw, throttle |-> p.throttle]
  BY DEF StickPositions
<1> QED
  BY <1>1 DEF StickPositions

LEMMA Positions ==
  /\ Centred \in StickPositions
  /\ Centred.throttle = 500
  /\ \A v \in ThrottleRange : At(v) \in StickPositions /\ At(v).throttle = v
<1>1. Centred \in StickPositions /\ Centred.throttle = 500
  BY DEF Centred, StickPositions, StickRange, ThrottleRange
<1>2. \A v \in ThrottleRange : At(v) \in StickPositions
  BY <1>1, Moved DEF At
<1>3. \A v \in ThrottleRange : At(v).throttle = v
  BY <1>1 DEF At, Centred
<1> QED
  BY <1>1, <1>2, <1>3

\* What a scenario puts into a frame are positions of the sticks, and what it
\* logs as its command is what it puts into the frame.
LEMMA CmdIsSent ==
  ASSUME NEW s \in Scenarios, NEW t \in Nat
  PROVE  Sticks(s, t) \in StickPositions /\ Cmd(s, t) = Sticks(s, t)
<1>1. \A v \in {20, 400, 450, 500, 520, 550, 600, 0} : v \in ThrottleRange
  BY DEF ThrottleRange
<1>2. \A v \in {0, 50, 300} : v \in StickRange
  BY DEF StickRange
<1>3. /\ s \in DOMAIN RateStep =>
           s \notin {"stick_step", "hover_sweep", "rc_loss", "steps", "cut"}
      /\ s \in {"stick_step", "hover_sweep", "rc_loss"} => s \notin DOMAIN RateStep
      /\ s \in {"steps", "cut", "hover", "rx_failsafe", "frame_lost"} =>
           s \notin DOMAIN RateStep /\ s \notin Windowed
      /\ s \in Windowed => s \notin {"steps", "cut"}
  BY StepScripts DEF Windowed
<1>4. Windowed = DOMAIN RateStep \cup {"stick_step", "hover_sweep", "rc_loss"}
  BY DEF Windowed
<1> HIDE DEF RateStep
<1>5. CASE s \in Windowed /\ t < 400
  <2>1. Sticks(s, t) = PreArm
    BY <1>3, <1>5 DEF Sticks
  <2>2. Cmd(s, t) = PreArm
    BY <1>3, <1>4, <1>5 DEF Cmd, PreArm, At
  <2> QED
    BY <1>1, <2>1, <2>2, Positions DEF PreArm
<1>6. CASE s \in DOMAIN RateStep /\ t >= 400
  <2> DEFINE step == RateStep[s]
             amp == IF t >= 1000 THEN step.amp ELSE 0
  <2>1. Sticks(s, t) = [At(step.thr) EXCEPT ![step.axis] = amp]
    BY <1>3, <1>6 DEF Sticks
  <2>2. Cmd(s, t) = [At(step.thr) EXCEPT ![step.axis] = amp]
    <3>1. ~(t < 400)
      BY <1>6
    <3> QED
      BY <1>3, <1>6, <3>1, Zenon DEF Cmd
  <2>3. step.axis \in {"roll", "pitch", "yaw"} /\ amp \in StickRange /\ step.thr \in ThrottleRange
    BY <1>2, <1>6, StepScripts
  <2> HIDE DEF step, amp
  <2>4. Cmd(s, t) = Sticks(s, t)
    BY <2>1, <2>2
  <2>5. At(step.thr) \in StickPositions
    BY <2>3, Positions
  <2>6. [At(step.thr) EXCEPT ![step.axis] = amp] \in StickPositions
    BY <2>3, <2>5, Moved, Zenon
  <2> QED
    BY <2>1, <2>4, <2>6, Zenon
<1>7. CASE s = "stick_step" /\ t >= 400
  <2> DEFINE amp == IF t \in 2000..2499 THEN 50 ELSE 0
  <2>1. Sticks(s, t) = [At(520) EXCEPT !.roll = amp]
    BY <1>3, <1>7 DEF Sticks
  <2>2. Cmd(s, t) = [At(520) EXCEPT !.roll = amp]
    BY <1>3, <1>7 DEF Cmd
  <2>3. amp \in StickRange
    BY <1>2
  <2> HIDE DEF amp
  <2>4. Cmd(s, t) = Sticks(s, t)
    BY <2>1, <2>2
  <2>5. At(520) \in StickPositions
    BY <1>1, Positions
  <2> QED
    BY <2>1, <2>3, <2>4, <2>5, Moved
<1>8. CASE s = "hover_sweep" /\ t >= 400
  <2>1. Sticks(s, t) = Sweep(t) /\ Cmd(s, t) = Sweep(t)
    BY <1>3, <1>8 DEF Sticks, Cmd
  <2>2. ((t - 400) \div 1500) % 5 \in 0..4
    OBVIOUS
  <2>3. \A i \in 1..5 : <<400, 450, 500, 550, 600>>[i] \in ThrottleRange
    BY <1>1
  <2> QED
    BY <2>1, <2>2, <2>3, Positions DEF Sweep
<1>9. CASE s = "rc_loss" /\ t >= 400
  BY <1>1, <1>3, <1>9, Positions DEF Sticks, Cmd
<1>10. CASE s = "steps"
  <2>1. Sticks(s, t) = Steps2s(t) /\ Cmd(s, t) = Steps2s(t)
    BY <1>3, <1>10 DEF Sticks, Cmd
  <2>2. (t \div 2000) % 3 \in 0..2
    OBVIOUS
  <2>3. \A i \in 1..3 : <<Centred, [Centred EXCEPT !.roll = 300],
                           [Centred EXCEPT !.pitch = 300]>>[i] \in StickPositions
    BY <1>2, Positions, Moved
  <2> QED
    BY <2>1, <2>2, <2>3 DEF Steps2s
<1>11. CASE s = "cut"
  BY <1>1, <1>3, <1>11, Positions DEF Sticks, Cmd
<1>12. CASE s \in {"hover", "rx_failsafe", "frame_lost"}
  <2>1. /\ s \notin {"stick_step", "hover_sweep", "rc_loss", "steps", "cut"}
        /\ s \notin DOMAIN RateStep /\ s \notin Windowed
    BY <1>3, <1>12
  <2>2. Sticks(s, t) = Centred
    BY <2>1 DEF Sticks
  <2>3. Cmd(s, t) = Centred
    BY <2>1 DEF Cmd
  <2> QED
    BY <2>2, <2>3, Positions
<1> QED
  BY <1>4, <1>5, <1>6, <1>7, <1>8, <1>9, <1>10, <1>11, <1>12 DEF Scenarios

\* The throttles that count as low for arming, and those that do not.
LowThrottles == {0, 20}
HighThrottles == {300, 400, 450, 500, 520, 550, 600}

\* The throttle is low before the window ends, and in "cut" once it has cut.
ThrottleIsLow(s, t) == (s \in Windowed /\ t < 400) \/ (s = "cut" /\ t >= 3000)

LEMMA ThrottleSent ==
  ASSUME NEW s \in Scenarios, NEW t \in Nat
  PROVE  Sticks(s, t).throttle \in IF ThrottleIsLow(s, t) THEN LowThrottles ELSE HighThrottles
<1>1. /\ 0 \in LowThrottles /\ 20 \in LowThrottles
      /\ \A v \in {300, 400, 450, 500, 520, 550, 600} : v \in HighThrottles
  BY DEF LowThrottles, HighThrottles
<1>2. \A v \in {20, 400, 450, 500, 520, 550, 600, 0, 300} : v \in ThrottleRange
  BY DEF ThrottleRange
<1>3. \A v \in {0, 50, 300} : v \in StickRange
  BY DEF StickRange
<1>4. /\ s \in DOMAIN RateStep =>
           s \notin {"stick_step", "hover_sweep", "rc_loss", "steps", "cut"}
      /\ s \in {"stick_step", "hover_sweep", "rc_loss"} => s \notin DOMAIN RateStep
      /\ s \in {"steps", "cut", "hover", "rx_failsafe", "frame_lost"} =>
           s \notin DOMAIN RateStep /\ s \notin Windowed
      /\ s \in Windowed => s \notin {"steps", "cut"}
  BY StepScripts DEF Windowed
<1>5. Windowed = DOMAIN RateStep \cup {"stick_step", "hover_sweep", "rc_loss"}
  BY DEF Windowed
<1> HIDE DEF RateStep
<1>6. CASE s \in Windowed /\ t < 400
  <2>1. Sticks(s, t).throttle = 20
    BY <1>2, <1>4, <1>6, Positions DEF Sticks, PreArm
  <2>2. ThrottleIsLow(s, t)
    BY <1>6 DEF ThrottleIsLow
  <2> QED
    BY <1>1, <2>1, <2>2
<1>7. CASE s \in DOMAIN RateStep /\ t >= 400
  <2> DEFINE step == RateStep[s]
             amp == IF t >= 1000 THEN step.amp ELSE 0
  <2>1. Sticks(s, t) = [At(step.thr) EXCEPT ![step.axis] = amp]
    BY <1>4, <1>7 DEF Sticks
  <2>2. /\ step.axis \in {"roll", "pitch", "yaw"} /\ amp \in StickRange
        /\ step.thr \in ThrottleRange /\ step.thr \in {300, 520, 550}
    BY <1>3, <1>7, StepScripts
  <2> HIDE DEF step, amp
  <2>3. At(step.thr) \in StickPositions /\ At(step.thr).throttle = step.thr
    BY <2>2, Positions
  <2>4. Sticks(s, t).throttle = step.thr
    BY <2>1, <2>2, <2>3, Moved
  <2>5. ~ThrottleIsLow(s, t)
    BY <1>4, <1>7 DEF ThrottleIsLow
  <2>6. step.thr \in HighThrottles
    BY <1>1, <2>2
  <2> QED
    BY <2>4, <2>5, <2>6
<1>8. CASE s = "stick_step" /\ t >= 400
  <2> DEFINE amp == IF t \in 2000..2499 THEN 50 ELSE 0
  <2>1. Sticks(s, t) = [At(520) EXCEPT !.roll = amp]
    BY <1>4, <1>8 DEF Sticks
  <2>2. amp \in StickRange
    BY <1>3
  <2> HIDE DEF amp
  <2>3. At(520) \in StickPositions /\ At(520).throttle = 520
    BY <1>2, Positions
  <2>4. Sticks(s, t).throttle = 520
    BY <2>1, <2>2, <2>3, Moved
  <2>5. ~ThrottleIsLow(s, t)
    BY <1>8 DEF ThrottleIsLow
  <2> QED
    BY <1>1, <2>4, <2>5
<1>9. CASE s = "hover_sweep" /\ t >= 400
  <2>1. Sticks(s, t) = Sweep(t)
    BY <1>4, <1>9 DEF Sticks
  <2>2. ((t - 400) \div 1500) % 5 \in 0..4
    OBVIOUS
  <2>3. \A i \in 1..5 : /\ <<400, 450, 500, 550, 600>>[i] \in ThrottleRange
                        /\ <<400, 450, 500, 550, 600>>[i] \in HighThrottles
    BY <1>1, <1>2
  <2>4. Sweep(t).throttle \in HighThrottles
    BY <2>2, <2>3, Positions DEF Sweep
  <2>5. ~ThrottleIsLow(s, t)
    BY <1>9 DEF ThrottleIsLow
  <2> QED
    BY <2>1, <2>4, <2>5
<1>10. CASE s = "rc_loss" /\ t >= 400
  <2>1. Sticks(s, t).throttle = 520
    BY <1>2, <1>4, <1>10, Positions DEF Sticks
  <2>2. ~ThrottleIsLow(s, t)
    BY <1>10 DEF ThrottleIsLow
  <2> QED
    BY <1>1, <2>1, <2>2
<1>11. CASE s = "steps"
  <2>1. Sticks(s, t) = Steps2s(t)
    BY <1>4, <1>11 DEF Sticks
  <2>2. (t \div 2000) % 3 \in 0..2
    OBVIOUS
  <2> DEFINE script == <<Centred, [Centred EXCEPT !.roll = 300], [Centred EXCEPT !.pitch = 300]>>
  <2>3. \A i \in 1..3 : script[i].throttle = 500
    <3>1. [Centred EXCEPT !.roll = 300].throttle = 500 /\ [Centred EXCEPT !.pitch = 300].throttle = 500
      BY DEF Centred
    <3>2. Centred.throttle = 500
      BY Positions
    <3>3. script[1].throttle = 500 /\ script[2].throttle = 500 /\ script[3].throttle = 500
      BY <3>1, <3>2
    <3> HIDE DEF script
    <3> QED
      BY <3>3
  <2>4. Steps2s(t) = script[1 + ((t \div 2000) % 3)]
    BY DEF Steps2s
  <2> HIDE DEF script
  <2>5. Steps2s(t).throttle = 500
    BY <2>2, <2>3, <2>4
  <2>6. ~ThrottleIsLow(s, t)
    BY <1>4, <1>11 DEF ThrottleIsLow
  <2> QED
    BY <1>1, <2>1, <2>5, <2>6
<1>12. CASE s = "cut"
  <2>1. Sticks(s, t).throttle = IF t >= 3000 THEN 0 ELSE 500
    BY <1>2, <1>4, <1>12, Positions DEF Sticks
  <2>2. ThrottleIsLow(s, t) <=> t >= 3000
    BY <1>4, <1>12 DEF ThrottleIsLow
  <2> QED
    BY <1>1, <2>1, <2>2
<1>13. CASE s \in {"hover", "rx_failsafe", "frame_lost"}
  <2>1. Sticks(s, t).throttle = 500
    <3>1. /\ s \notin {"stick_step", "hover_sweep", "rc_loss", "steps", "cut"}
          /\ s \notin DOMAIN RateStep /\ s \notin Windowed
      BY <1>4, <1>13
    <3> QED
      BY <3>1, Positions DEF Sticks
  <2>2. ~ThrottleIsLow(s, t)
    BY <1>4, <1>13 DEF ThrottleIsLow
  <2> QED
    BY <1>1, <2>1, <2>2
<1> QED
  BY <1>5, <1>6, <1>7, <1>8, <1>9, <1>10, <1>11, <1>12, <1>13 DEF Scenarios

\* What the firmware hears in a tick of a scenario.
LEMMA FirmwareHears ==
  ASSUME NEW s \in Scenarios, NEW t \in 0..MaxTime
  PROVE  /\ HeardAt(s, t).ok /\ HeardAt(s, t).armed_switch = TRUE
         /\ HeardAt(s, t).throttle = ThrottleClass(ThrottleToSbus(Sticks(s, t).throttle))
         /\ HeardAt(s, t).rx_failsafe = (FailsafeBit \in Flags(s, t))
         /\ HeardAt(s, t).frame_lost = (FrameLostBit \in Flags(s, t))
         /\ \A a \in DOMAIN Cmd(s, t) : Cmd(s, t)[a] - HeardAt(s, t).sticks[a] \in Resolution
<1>1. Sticks(s, t) \in StickPositions /\ Cmd(s, t) = Sticks(s, t)
  BY CmdIsSent
<1>2. HeardAt(s, t) = DecodeFrame(Packed(Sticks(s, t), Flags(s, t)))
  <2> DEFINE x == <<Sticks(s, t), Flags(s, t)>>
  <2>1. x \in {<<Sticks(r, u), Flags(r, u)>> : r \in Scenarios, u \in 0..MaxTime}
    OBVIOUS
  <2>2. x[1] = Sticks(s, t) /\ x[2] = Flags(s, t)
    OBVIOUS
  <2> HIDE DEF x
  <2>3. Heard[x] = DecodeFrame(Packed(x[1], x[2]))
    BY <2>1 DEF Heard
  <2> QED
    BY <2>2, <2>3 DEF HeardAt, x
<1>3. PICK f : f = DecodeFrame(Packed(Sticks(s, t), Flags(s, t)))
  OBVIOUS
<1>4. /\ f.ok /\ f.armed_switch = TRUE
      /\ f.throttle = ThrottleClass(ThrottleToSbus(Sticks(s, t).throttle))
      /\ f.rx_failsafe = (FailsafeBit \in Flags(s, t))
      /\ f.frame_lost = (FrameLostBit \in Flags(s, t))
      /\ \A a \in DOMAIN Sticks(s, t) : Sticks(s, t)[a] - f.sticks[a] \in Resolution
  BY <1>1, <1>3, FrameTells, Zenon
<1> QED
  BY <1>1, <1>2, <1>3, <1>4, Zenon

-----------------------------------------------------------------------------
(* A mission is a run of the loop.                                         *)

\* The clock of the loop is the tick before the one that is due.
DrivenInv ==
  /\ mission \in Missions
  /\ tick \in 0..(MaxTime + 1)
  /\ now = IF tick = 0 THEN 0 ELSE tick - 1

LEMMA MissionType ==
  ASSUME mission \in Missions
  PROVE  mission.scenario \in Scenarios /\ mission.period \in Nat \ {0} /\ mission.imu_after \in Nat
BY MissionAssumption

LEMMA SampleFits ==
  ASSUME mission \in Missions, tick \in 0..MaxTime, switch' = TRUE
  PROVE  Sample(mission, tick) \in Frames(tick) \cup {NoFrame(tick)}
<1> DEFINE h == HeardAt(mission.scenario, tick)
<1>1. h.throttle \in {"low", "high"}
  BY MissionType, FirmwareHears DEF ThrottleClass
<1>2. h.armed_switch = switch' /\ h.rx_failsafe \in BOOLEAN /\ h.frame_lost \in BOOLEAN
  <2>1. /\ h.armed_switch = TRUE
        /\ h.rx_failsafe = (FailsafeBit \in Flags(mission.scenario, tick))
        /\ h.frame_lost = (FrameLostBit \in Flags(mission.scenario, tick))
    BY MissionType, FirmwareHears, Zenon
  <2>2. /\ (FailsafeBit \in Flags(mission.scenario, tick)) \in BOOLEAN
        /\ (FrameLostBit \in Flags(mission.scenario, tick)) \in BOOLEAN
    OBVIOUS
  <2> HIDE DEF h
  <2>3. h.rx_failsafe \in BOOLEAN /\ h.frame_lost \in BOOLEAN
    BY <2>1, <2>2, Zenon
  <2> QED
    BY <2>1, <2>3
<1> HIDE DEF h
<1>3. Decoded(h, tick) \in Frames(tick)
  BY <1>1, <1>2 DEF Decoded, Frames
<1> QED
  BY <1>3 DEF Sample, h

LEMMA ImuFits ==
  ASSUME NEW t \in Nat
  PROVE  Imu(mission, t) \in ImuSamples
<1>1. [valid |-> FALSE, gyro_ok |-> TRUE, accel_ok |-> TRUE, gyro |-> AnyReading] \in ImuSamples
  <2>1. [valid |-> FALSE, gyro_ok |-> ~FALSE, accel_ok |-> TRUE, gyro |-> AnyReading] \in ImuSamples
    BY DEF ImuSamples
  <2>2. (~FALSE) = TRUE
    OBVIOUS
  <2> QED
    BY <2>1, <2>2
<1>2. ASSUME NEW g \in {Still, Moving}
      PROVE  [valid |-> TRUE, gyro_ok |-> TRUE, accel_ok |-> TRUE, gyro |-> g] \in ImuSamples
  BY MissionAssumption DEF ImuSamples
<1> QED
  BY <1>1, <1>2 DEF Imu

LEMMA PlantTickIsTick ==
  ASSUME DrivenInv, PlantTick
  PROVE  Tick /\ DrivenInv'
<1>1. tick \in 0..MaxTime /\ mission \in Missions /\ switch' = TRUE /\ tick' = tick + 1
  BY LoopAssumption DEF DrivenInv, PlantTick
<1>2. PICK step \in {0, 1} : now + step = tick
  <2>1. CASE tick = 0
    BY <2>1 DEF DrivenInv
  <2>2. CASE tick # 0
    <3>1. now + 1 = tick
      BY <1>1, <2>2, LoopAssumption DEF DrivenInv
    <3> QED
      BY <3>1
  <2> QED
    BY <2>1, <2>2
<1>3. Stages(Sample(mission, tick), Imu(mission, tick), "ok", now + step)
  BY <1>2 DEF PlantTick
<1>4. Sample(mission, tick) \in Frames(now + step) \cup {NoFrame(now + step)}
  BY <1>1, <1>2, SampleFits
<1>5. Imu(mission, tick) \in ImuSamples
  BY <1>1, LoopAssumption, ImuFits
<1>6. step \in Steps /\ now + step <= MaxTime /\ "ok" \in Fs!Vbat /\ switch' \in BOOLEAN
  BY <1>1, <1>2, MissionAssumption DEF Fs!Vbat
<1>7. Tick
  BY <1>3, <1>4, <1>5, <1>6 DEF Tick
<1>8. now' = tick
  BY DEF PlantTick, Stages, Fs!Update
<1>9. mission' = mission
  BY DEF PlantTick
<1> QED
  BY <1>1, <1>7, <1>8, <1>9, LoopAssumption DEF DrivenInv

LEMMA MissionDriven == MissionSpec => []DrivenInv
<1>1. MissionInit => DrivenInv
  BY LoopAssumption DEF MissionInit, Init, Fs!Init, DrivenInv
<1>2. DrivenInv /\ [MissionNext]_missionvars => DrivenInv'
  <2> SUFFICES ASSUME DrivenInv, [MissionNext]_missionvars PROVE DrivenInv'
    OBVIOUS
  <2>1. CASE PlantTick
    BY <2>1, PlantTickIsTick
  <2>2. CASE UNCHANGED missionvars
    BY <2>2 DEF missionvars, vars, fsvars, DrivenInv
  <2> QED
    BY <2>1, <2>2 DEF MissionNext, Finished
<1> QED
  BY <1>1, <1>2, PTL DEF MissionSpec

\* Every scenario of rc.py, on every receiver and with every IMU failure, drives
\* the loop within the interface that ControlLoop models (rc.py, runner.py:125-140,
\* control_loop.cpp:10-91): the theorems about the loop hold in every SIL run.
THEOREM MissionsRunTheLoop == MissionSpec => RunsTheControlLoop
<1>1. MissionInit => Init
  BY DEF MissionInit
<1>2. DrivenInv /\ [MissionNext]_missionvars => [Next]_vars
  <2> SUFFICES ASSUME DrivenInv, [MissionNext]_missionvars PROVE [Next]_vars
    OBVIOUS
  <2>1. CASE PlantTick
    BY <2>1, PlantTickIsTick, NextIsTick
  <2>2. CASE UNCHANGED missionvars
    BY <2>2 DEF missionvars
  <2> QED
    BY <2>1, <2>2 DEF MissionNext, Finished
<1> QED
  BY <1>1, <1>2, MissionDriven, PTL DEF MissionSpec, Spec, RunsTheControlLoop

\* So in a SIL run without --arm-test, too, motors that turn have the whole chain
\* of evidence behind them.
THEOREM MissionMotorEvidence == MissionSpec => []MotorsNeedEvidence
BY MissionsRunTheLoop, MotorEvidence, PTL DEF RunsTheControlLoop

\* What the firmware hears is what the scenario's _cmd logs, to a thousandth of
\* full stick, in every tick of every scenario, however long the run
\* (rc.py:19-52, rc_parse.cpp:22-68).
THEOREM CommandSurvives == MissionSpec => []CommandSurvivesTheLink
<1>1. DrivenInv => CommandSurvivesTheLink
  <2> SUFFICES ASSUME DrivenInv, tick > 0
               PROVE  \A a \in DOMAIN Cmd(mission.scenario, now) :
                        Cmd(mission.scenario, now)[a] - HeardAt(mission.scenario, now).sticks[a] \in Resolution
    BY DEF CommandSurvivesTheLink, Resolution
  <2>1. now \in 0..MaxTime /\ mission \in Missions
    BY LoopAssumption DEF DrivenInv
  <2> QED
    BY <2>1, MissionType, FirmwareHears
<1> QED
  BY <1>1, MissionDriven, PTL

-----------------------------------------------------------------------------
(* Ticks with a frame: the multiples of the receiver's period.             *)

LEMMA MultipleBelow ==
  ASSUME NEW a \in Nat, NEW p \in Nat \ {0}
  PROVE  /\ (a \div p) * p \in Nat
         /\ (a \div p) * p <= a /\ a < (a \div p) * p + p
         /\ ((a \div p) * p) % p = 0
<1>1. a \div p \in Nat
  OBVIOUS
<1>2. ASSUME NEW k \in Nat PROVE (k * p) % p = 0
  OBVIOUS
<1>3. (a \div p) * p \in Nat
  OBVIOUS
<1>4. (a \div p) * p <= a /\ a < (a \div p) * p + p
  OBVIOUS
<1> QED
  BY <1>1, <1>2, <1>3, <1>4

\* Two multiples less than a period apart are one.
LEMMA MultiplesApart ==
  ASSUME NEW p \in Nat \ {0}, NEW x \in Nat, NEW y \in Nat,
         x % p = 0, y % p = 0, x < y + p, y < x + p
  PROVE  x = y
<1>1. PICK a \in Int, b \in Int : x = p * a /\ y = p * b
  <2>1. ASSUME NEW z \in Nat, z % p = 0 PROVE z = p * (z \div p) /\ z \div p \in Int
    BY <2>1
  <2> QED
    BY <2>1
<1>2. ASSUME NEW c \in Int, NEW d \in Int, p * c < p * d + p, p * d < p * c + p PROVE c = d
  BY <1>2
<1> QED
  BY <1>1, <1>2

\* FrameBefore and FrameFrom say what they are meant to.
LEMMA FrameBeforeIsLast ==
  ASSUME NEW t \in Nat \ {0}, mission.period \in Nat \ {0}
  PROVE  /\ FrameBefore(mission, t) \in Nat
         /\ FrameBefore(mission, t) < t /\ t <= FrameBefore(mission, t) + mission.period
         /\ FrameBefore(mission, t) % mission.period = 0
<1>1. t - 1 \in Nat
  OBVIOUS
<1> DEFINE f == ((t - 1) \div mission.period) * mission.period
<1>2. f \in Nat /\ f <= t - 1 /\ t - 1 < f + mission.period /\ f % mission.period = 0
  BY <1>1, MultipleBelow
<1>3. FrameBefore(mission, t) = f
  BY DEF FrameBefore
<1> HIDE DEF f
<1> QED
  BY <1>2, <1>3

LEMMA FrameFromIsFirst ==
  ASSUME NEW t \in Nat \ {0}, mission.period \in Nat \ {0}
  PROVE  /\ FrameFrom(mission, t) \in Nat
         /\ t <= FrameFrom(mission, t) /\ FrameFrom(mission, t) < t + mission.period
         /\ FrameFrom(mission, t) % mission.period = 0
<1>1. t + mission.period - 1 \in Nat
  OBVIOUS
<1> DEFINE f == ((t + mission.period - 1) \div mission.period) * mission.period
<1>2. /\ f \in Nat /\ f <= t + mission.period - 1
      /\ t + mission.period - 1 < f + mission.period /\ f % mission.period = 0
  BY <1>1, MultipleBelow
<1>3. FrameFrom(mission, t) = f
  BY DEF FrameFrom
<1> HIDE DEF f
<1> QED
  BY <1>2, <1>3

\* From one tick to the next.
LEMMA NextFrame ==
  ASSUME NEW t \in Nat, mission.period \in Nat \ {0}
  PROVE  /\ t % mission.period = 0 => FrameBefore(mission, t + 1) = t
         /\ t > 0 /\ t % mission.period # 0 => FrameBefore(mission, t + 1) = FrameBefore(mission, t)
<1> DEFINE p == mission.period
           g == FrameBefore(mission, t + 1)
           f == FrameBefore(mission, t)
<1>1. g \in Nat /\ g < t + 1 /\ t + 1 <= g + p /\ g % p = 0
  <2>1. t + 1 \in Nat \ {0}
    OBVIOUS
  <2> QED
    BY <2>1, FrameBeforeIsLast
<1>2. t > 0 => f \in Nat /\ f < t /\ t <= f + p /\ f % p = 0
  BY FrameBeforeIsLast
<1> HIDE DEF f, g
<1>3. ASSUME t % p = 0 PROVE g = t
  BY <1>1, <1>3, MultiplesApart
<1>4. ASSUME t > 0, t % p # 0 PROVE g = f
  <2>1. g < f + p /\ f < g + p
    <3>1. g # t
      BY <1>1, <1>4
    <3> QED
      BY <1>1, <1>2, <1>4, <3>1
  <2> QED
    BY <1>1, <1>2, <1>4, <2>1, MultiplesApart
<1> QED
  BY <1>3, <1>4 DEF f, g

-----------------------------------------------------------------------------
(* What the parts of the program hold after each tick of a mission.        *)

\* The last tick so far in which a frame arrived.
LastFrame == FrameBefore(mission, IF mission.scenario = "rc_loss" /\ tick > 3000 THEN 3000 ELSE tick)

ReceiverInv ==
  /\ tick = 0 => ~have_frame /\ good_frames = 0
  /\ tick > 0 => have_frame /\ last_good = LastFrame
  /\ mission.period = 1 /\ (mission.scenario = "rc_loss" => tick <= 3000) => good_frames = tick
  /\ mission.period > 1 => good_frames \in {0, 1} /\ (good_frames = 1 => last_good = now)

SensorInv ==
  /\ imu_bad_count = IF mission.imu_after = 0 \/ tick <= mission.imu_after THEN 0
                     ELSE IF tick - mission.imu_after < ImuInvalidDebounce
                          THEN tick - mission.imu_after ELSE ImuInvalidDebounce
  /\ invalid_count \in 0..imu_bad_count
  /\ imu_valid <=> invalid_count < ImuInvalidDebounce

ImuLasts == mission.imu_after \notin 1..(CalibSamples - 1)

CalibrationInv ==
  ~arm_test =>
    /\ tick < CalibSamples /\ (mission.imu_after = 0 \/ tick <= mission.imu_after) =>
         n = tick /\ state # "Done"
    /\ ~ImuLasts => n < CalibSamples /\ state # "Done"
    /\ ImuLasts /\ tick >= CalibSamples => state = "Done"

\* Is a fault due by tick t?
FaultDue(t) ==
  \/ mission.imu_after > 0 /\ t >= mission.imu_after + ImuInvalidDebounce - 1
  \/ mission.scenario = "rx_failsafe" /\ t >= FrameFrom(mission, 3000)
  \/ mission.scenario = "rc_loss" /\ t >= FrameBefore(mission, 3000) + RcTimeout

LatchInv ==
  /\ arm_test_prev <=> arm_test /\ tick > 0
  /\ active <=> tick > 0 /\ FaultDue(now)
  /\ latched <=> active \/ boot_latched
  /\ arm_test /\ tick > 0 => ~boot_latched

\* Does the script have the craft armed in tick t?
Scripted(t) ==
  /\ ~FaultDue(t)
  /\ \/ arm_test
     \/ /\ ~arm_test /\ mission.period = 1 /\ ~boot_latched /\ ImuLasts
        /\ \/ mission.scenario \in Windowed /\ t >= CalibSamples
              /\ (mission.scenario = "rc_loss" => t < 3000)
           \/ mission.scenario = "cut" /\ t >= 3000

ArmedInv ==
  /\ armed <=> tick > 0 /\ Scripted(now)
  /\ motors = "on" <=> armed

ScriptInv == ReceiverInv /\ SensorInv /\ CalibrationInv /\ LatchInv /\ ArmedInv

LEMMA LowThrottle ==
  ASSUME NEW s \in Scenarios, NEW t \in 0..MaxTime
  PROVE  HeardAt(s, t).throttle = "low" <=> ThrottleIsLow(s, t)
<1>1. HeardAt(s, t).throttle = ThrottleClass(ThrottleToSbus(Sticks(s, t).throttle))
  BY FirmwareHears
<1>2. \A v \in HighThrottles : ThrottleClass(ThrottleToSbus(v)) = "high"
  BY DEF HighThrottles, ThrottleClass, ThrottleToSbus, Nearest, SbusMin, SbusMax
<1>3. \A v \in LowThrottles : ThrottleClass(ThrottleToSbus(v)) = "low"
  BY DEF LowThrottles, ThrottleClass, ThrottleToSbus, Nearest, SbusMin, SbusMax
<1> QED
  BY <1>1, <1>2, <1>3, ThrottleSent

\* The sample of a tick.
LEMMA SampleSays ==
  ASSUME mission \in Missions, tick \in 0..MaxTime
  PROVE  /\ Sample(mission, tick).t = tick
         /\ Sample(mission, tick).frame_ok <=> Delivered(mission, tick)
         /\ Sample(mission, tick).armed_switch <=> Delivered(mission, tick)
         /\ Sample(mission, tick).rx_failsafe <=>
              Delivered(mission, tick) /\ mission.scenario = "rx_failsafe" /\ tick >= 3000
         /\ Delivered(mission, tick) =>
              (Sample(mission, tick).throttle = "low" <=> ThrottleIsLow(mission.scenario, tick))
<1> DEFINE s == mission.scenario
           h == HeardAt(s, tick)
           rc == Sample(mission, tick)
<1>1. s \in Scenarios
  BY MissionType
<1>2. /\ h.ok /\ h.armed_switch = TRUE
      /\ h.rx_failsafe = (FailsafeBit \in Flags(s, tick))
      /\ h.throttle = "low" <=> ThrottleIsLow(s, tick)
  BY <1>1, FirmwareHears, LowThrottle, Zenon
<1>3. FailsafeBit \in Flags(s, tick) <=> s = "rx_failsafe" /\ tick >= 3000
  BY DEF Flags, FailsafeBit, FrameLostBit
<1> HIDE DEF h
<1>4. CASE Delivered(mission, tick)
  <2>1. rc = Decoded(h, tick)
    BY <1>2, <1>4 DEF Sample, h
  <2>2. /\ rc.t = tick /\ rc.frame_ok = TRUE /\ rc.armed_switch = h.armed_switch
        /\ rc.rx_failsafe = h.rx_failsafe /\ rc.throttle = h.throttle
    BY <2>1 DEF Decoded
  <2> HIDE DEF rc, s
  <2>3. rc.frame_ok /\ rc.armed_switch
    BY <1>2, <2>2, Zenon
  <2>4. rc.rx_failsafe <=> s = "rx_failsafe" /\ tick >= 3000
    <3>1. rc.rx_failsafe = (FailsafeBit \in Flags(s, tick))
      BY <1>2, <2>2, Zenon
    <3>2. CASE FailsafeBit \in Flags(s, tick)
      <4>1. (FailsafeBit \in Flags(s, tick)) = TRUE
        BY <3>2
      <4>2. rc.rx_failsafe
        BY <3>1, <4>1, Zenon
      <4> QED
        BY <1>3, <3>2, <4>2
    <3>3. CASE ~(FailsafeBit \in Flags(s, tick))
      <4>1. (FailsafeBit \in Flags(s, tick)) = FALSE
        BY <3>3
      <4>2. ~rc.rx_failsafe
        BY <3>1, <4>1, Zenon
      <4> QED
        BY <1>3, <3>3, <4>2
    <3> QED
      BY <3>2, <3>3
  <2>5. rc.throttle = "low" <=> ThrottleIsLow(s, tick)
    BY <1>2, <2>2, Zenon
  <2>6. rc.t = tick
    BY <2>2, Zenon
  <2> QED
    BY <1>4, <2>3, <2>4, <2>5, <2>6 DEF rc, s
<1>5. CASE ~Delivered(mission, tick)
  <2>1. rc = NoFrame(tick)
    BY <1>5 DEF Sample
  <2>2. rc.t = tick /\ rc.frame_ok = FALSE /\ rc.armed_switch = FALSE /\ rc.rx_failsafe = FALSE
    BY <2>1 DEF NoFrame
  <2> HIDE DEF rc
  <2>3. ~rc.frame_ok /\ ~rc.armed_switch /\ ~rc.rx_failsafe /\ rc.t = tick
    BY <2>2, Zenon
  <2> QED
    BY <1>5, <2>3 DEF rc
<1> QED
  BY <1>4, <1>5

LEMMA ImuSays ==
  ASSUME mission \in Missions, tick \in 0..MaxTime
  PROVE  LET imu == Imu(mission, tick)
             bad == mission.imu_after > 0 /\ tick >= mission.imu_after
         IN  /\ Est!ImuBad(imu) <=> bad
             /\ Est!GyroUsable(imu) <=> ~bad
             /\ ~bad /\ ~arm_test /\ motors # "on" => imu.gyro = Still
<1> DEFINE bad == mission.imu_after > 0 /\ tick >= mission.imu_after
<1>1. CASE bad
  <2>1. Imu(mission, tick).valid = FALSE
    BY <1>1 DEF Imu
  <2>2. Est!ImuBad(Imu(mission, tick)) /\ ~Est!GyroUsable(Imu(mission, tick))
    BY <2>1, Zenon DEF Est!ImuBad, Est!GyroUsable
  <2> QED
    BY <1>1, <2>2
<1>2. CASE ~bad
  <2>1. /\ Imu(mission, tick).valid = TRUE /\ Imu(mission, tick).gyro_ok = TRUE
        /\ Imu(mission, tick).accel_ok = TRUE
        /\ Imu(mission, tick).gyro = IF arm_test \/ motors = "on" THEN Moving ELSE Still
    BY <1>2 DEF Imu
  <2>2. ~Est!ImuBad(Imu(mission, tick)) /\ Est!GyroUsable(Imu(mission, tick))
    BY <2>1, Zenon DEF Est!ImuBad, Est!GyroUsable
  <2> QED
    BY <1>2, <2>1, <2>2
<1> QED
  BY <1>1, <1>2

-----------------------------------------------------------------------------
(* One tick of a mission, part by part.                                    *)

\* The types of the parts.
PartsTyped ==
  /\ last_good \in Nat /\ good_frames \in Nat /\ have_frame \in BOOLEAN
  /\ imu_bad_count \in Nat /\ n \in Nat /\ invalid_count \in Nat
  /\ reason \subseteq Fs!FailsafeReason /\ Fs!LatchesAgree

\* What PlantTick does to each part.
TickIsOf(rc, imu) ==
  /\ tick \in 0..MaxTime /\ tick' = tick + 1 /\ now' = tick
  /\ mission' = mission /\ arm_test' = arm_test
  /\ arm_test_prev' = arm_test
  /\ Fs!ObserveRc(rc) /\ Fs!ObserveImu(Est!ImuBad(imu))
  /\ \/ arm_test /\ Fs!ArmRequest
     \/ arm_test /\ Fs!ArmHeld(Fs!Faults(rc, "ok"))
     \/ ~arm_test /\ Fs!ArmBySwitch(rc, state = "Done", Fs!Faults(rc, "ok"))
  /\ Estimate(imu) /\ OutputApply

LEMMA PlantTickParts ==
  ASSUME DrivenInv, PlantTick
  PROVE  TickIsOf(Sample(mission, tick), Imu(mission, tick))
<1>1. tick \in 0..MaxTime
  BY LoopAssumption DEF DrivenInv, PlantTick
<1> QED
  BY <1>1 DEF PlantTick, Stages, Fs!Update, TickIsOf

LEMMA ReceiverTick ==
  ASSUME DrivenInv, PartsTyped, ReceiverInv, PlantTick
  PROVE  ReceiverInv'
<1> DEFINE p == mission.period
           loss == mission.scenario = "rc_loss"
           rc == Sample(mission, tick)
           d == Delivered(mission, tick)
           Last(t) == FrameBefore(mission, IF loss /\ t > 3000 THEN 3000 ELSE t)
<1>1. TickIsOf(rc, Imu(mission, tick))
  BY PlantTickParts
<1>2. tick \in Nat /\ tick' = tick + 1 /\ now' = tick /\ mission' = mission /\ Fs!ObserveRc(rc)
  BY <1>1, LoopAssumption DEF TickIsOf
<1>3. rc.t = tick /\ (rc.frame_ok <=> d)
  BY <1>1, SampleSays DEF TickIsOf, DrivenInv
<1>4. p \in Nat \ {0} /\ mission \in Missions
  BY MissionType DEF DrivenInv
<1>5. d <=> tick % p = 0 /\ (loss => tick < 3000)
  BY DEF Delivered
<1>6. LastFrame = Last(tick) /\ LastFrame' = Last(tick + 1)
  BY <1>2 DEF LastFrame, FrameBefore
<1>7. tick > 0 => /\ Last(tick) \in Nat /\ Last(tick) < tick /\ Last(tick) % p = 0
                  /\ have_frame /\ last_good = Last(tick)
  <2>1. ASSUME tick > 0
        PROVE  Last(tick) \in Nat /\ Last(tick) < tick /\ Last(tick) % p = 0
    <3> DEFINE t == IF loss /\ tick > 3000 THEN 3000 ELSE tick
    <3>1. t \in Nat \ {0} /\ t <= tick
      BY <1>2, <2>1
    <3> HIDE DEF t
    <3>2. FrameBefore(mission, t) \in Nat /\ FrameBefore(mission, t) < t /\ FrameBefore(mission, t) % p = 0
      BY <1>4, <3>1, FrameBeforeIsLast
    <3>3. FrameBefore(mission, t) < tick
      BY <1>2, <3>1, <3>2
    <3> QED
      BY <3>2, <3>3 DEF t
  <2> QED
    BY <1>2, <1>6, <2>1 DEF ReceiverInv
<1>8. now = IF tick = 0 THEN 0 ELSE tick - 1
  BY DEF DrivenInv
<1>9. ASSUME tick % p = 0 PROVE p > 1 => good_frames = 0
  <2> SUFFICES ASSUME p > 1, good_frames = 1 PROVE FALSE
    BY DEF ReceiverInv
  <2>1. tick > 0
    BY <1>2 DEF ReceiverInv
  <2>2. last_good = tick - 1 /\ last_good % p = 0
    BY <1>7, <1>8, <2>1 DEF ReceiverInv
  <2>3. tick = last_good
    <3>1. tick < last_good + p /\ last_good < tick + p /\ last_good \in Nat
      BY <1>2, <1>4, <1>7, <2>1, <2>2
    <3> QED
      BY <1>2, <1>4, <1>9, <2>2, <3>1, MultiplesApart
  <2> QED
    BY <1>2, <2>2, <2>3
<1>10. /\ tick % p = 0 => FrameBefore(mission, tick + 1) = tick
       /\ tick > 0 /\ tick % p # 0 => FrameBefore(mission, tick + 1) = FrameBefore(mission, tick)
  BY <1>2, <1>4, NextFrame
<1>11. ReceiverInv' <=>
         /\ have_frame' /\ last_good' = Last(tick + 1)
         /\ p = 1 /\ (loss => tick + 1 <= 3000) => good_frames' = tick + 1
         /\ p > 1 => good_frames' \in {0, 1} /\ (good_frames' = 1 => last_good' = tick)
  BY <1>2, <1>6 DEF ReceiverInv
<1>12. CASE d
  <2>1. tick % p = 0 /\ (loss => tick < 3000)
    BY <1>5, <1>12
  <2>2. Fs!Fresh(rc)
    <3>1. have_frame => rc.t > last_good
      BY <1>2, <1>3, <1>7 DEF ReceiverInv
    <3> QED
      BY <1>3, <1>12, <3>1 DEF Fs!Fresh
  <2>3. good_frames' = good_frames + 1 /\ last_good' = tick /\ have_frame' = TRUE
    BY <1>2, <1>3, <2>2 DEF Fs!ObserveRc
  <2>4. Last(tick + 1) = tick
    BY <1>2, <1>10, <2>1
  <2>5. p = 1 /\ (loss => tick + 1 <= 3000) => good_frames' = tick + 1
    BY <1>2, <2>1, <2>3 DEF ReceiverInv
  <2>6. p > 1 => good_frames' = 1
    BY <1>9, <2>1, <2>3
  <2> HIDE DEF Last, p, loss
  <2> QED
    BY <1>11, <2>3, <2>4, <2>5, <2>6
<1>13. CASE ~d
  <2>1. ~Fs!Fresh(rc)
    BY <1>3, <1>13 DEF Fs!Fresh
  <2>2. good_frames' = 0 /\ last_good' = last_good /\ have_frame' = have_frame
    BY <1>2, <2>1 DEF Fs!ObserveRc
  <2>3. tick > 0
    <3>1. 0 % p = 0
      BY <1>4
    <3> QED
      BY <1>2, <1>5, <1>13, <3>1
  <2>4. Last(tick + 1) = Last(tick)
    <3>1. CASE loss /\ tick >= 3000
      BY <1>2, <3>1
    <3>2. CASE ~(loss /\ tick >= 3000)
      BY <1>2, <1>5, <1>10, <1>13, <2>3, <3>2
    <3> QED
      BY <3>1, <3>2
  <2>5. ~(p = 1 /\ (loss => tick + 1 <= 3000))
    <3>1. tick % 1 = 0
      BY <1>2
    <3> QED
      BY <1>2, <1>5, <1>13, <3>1
  <2>6. have_frame /\ last_good = Last(tick)
    BY <1>7, <2>3
  <2> HIDE DEF Last, p, loss
  <2> QED
    BY <1>11, <2>2, <2>4, <2>5, <2>6
<1> QED
  BY <1>12, <1>13

LEMMA SensorTick ==
  ASSUME DrivenInv, PartsTyped, SensorInv, PlantTick
  PROVE  SensorInv'
<1> DEFINE imu == Imu(mission, tick)
           a == mission.imu_after
           D == ImuInvalidDebounce
           bad == a > 0 /\ tick >= a
           Count(t) == IF a = 0 \/ t <= a THEN 0 ELSE IF t - a < D THEN t - a ELSE D
<1>1. TickIsOf(Sample(mission, tick), imu)
  BY PlantTickParts
<1>2. tick \in Nat /\ tick' = tick + 1 /\ mission' = mission
  BY <1>1, LoopAssumption DEF TickIsOf
<1>3. Est!ImuBad(imu) <=> bad
  BY <1>1, ImuSays DEF TickIsOf, DrivenInv
<1>4. a \in Nat /\ D \in Nat /\ D >= 2
  BY MissionType, LoopAssumption, ScriptAssumption DEF DrivenInv
<1>5. imu_bad_count = Count(tick) /\ invalid_count \in 0..imu_bad_count
  BY DEF SensorInv
<1>6. imu_bad_count' = Count(tick + 1)
  <2>1. Fs!ObserveImu(Est!ImuBad(imu))
    BY <1>1 DEF TickIsOf
  <2>2. imu_bad_count' = IF bad THEN IF imu_bad_count < D THEN imu_bad_count + 1 ELSE imu_bad_count ELSE 0
    BY <1>3, <2>1 DEF Fs!ObserveImu
  <2> QED
    BY <1>2, <1>4, <1>5, <2>2
<1>7. /\ invalid_count' \in 0..imu_bad_count'
      /\ imu_valid' <=> invalid_count' < D
  <2>1. CASE ~armed'
    <3>1. invalid_count' = invalid_count /\ imu_valid' = imu_valid
      BY <1>1, <2>1 DEF TickIsOf, Estimate, Est!CalibrateUpdate, Est!fusionvars
    <3>2. invalid_count' \in 0..imu_bad_count'
      BY <1>2, <1>4, <1>5, <1>6, <3>1
    <3>3. imu_valid <=> invalid_count < D
      BY DEF SensorInv
    <3> QED
      BY <3>1, <3>2, <3>3
  <2>2. CASE armed' /\ bad
    <3>1. Est!UpdateBad
      BY <1>1, <1>3, <2>2 DEF TickIsOf, Estimate, Est!Update
    <3>2. /\ invalid_count' = IF invalid_count < D THEN invalid_count + 1 ELSE invalid_count
          /\ imu_valid' = (invalid_count' < D)
      BY <3>1, Zenon DEF Est!UpdateBad
    <3>3. invalid_count' \in 0..imu_bad_count'
      BY <1>2, <1>4, <1>5, <1>6, <2>2, <3>2
    <3>4. imu_valid' <=> invalid_count' < D
      BY <3>2, Zenon
    <3> QED
      BY <3>3, <3>4
  <2>3. CASE armed' /\ ~bad
    <3>1. Est!UpdateGood
      BY <1>1, <1>3, <2>3 DEF TickIsOf, Estimate, Est!Update
    <3>2. invalid_count' = 0 /\ imu_valid' = TRUE
      BY <3>1 DEF Est!UpdateGood
    <3>3. invalid_count' \in 0..imu_bad_count'
      BY <1>2, <1>4, <1>6, <3>2
    <3> QED
      BY <1>4, <3>2, <3>3
  <2> QED
    BY <2>1, <2>2, <2>3
<1> QED
  BY <1>2, <1>6, <1>7 DEF SensorInv

\* Before the script has it armed, the craft is not, and an uncalibrated craft
\* does not arm.
LEMMA EarlyUnarmed ==
  ASSUME DrivenInv, ArmedInv, ~arm_test, tick <= CalibSamples \/ ~ImuLasts
  PROVE  ~armed /\ motors # "on"
<1>1. tick \in Nat /\ now = IF tick = 0 THEN 0 ELSE tick - 1
  BY LoopAssumption DEF DrivenInv
<1>2. tick > 0 => ~Scripted(now)
  BY <1>1, LoopAssumption, ScriptAssumption DEF Scripted
<1> QED
  BY <1>2 DEF ArmedInv

LEMMA UncalibratedStays ==
  ASSUME NEW rc, NEW imu, TickIsOf(rc, imu), ~arm_test, ~armed, state # "Done"
  PROVE  ~armed'
<1>1. Fs!ArmBySwitch(rc, state = "Done", Fs!Faults(rc, "ok"))
  BY DEF TickIsOf
<1>2. ~(armed \/ Fs!MayArm(rc, state = "Done"))
  BY DEF Fs!MayArm
<1> QED
  BY <1>1, <1>2 DEF Fs!ArmBySwitch

LEMMA CalibrationTick ==
  ASSUME DrivenInv, PartsTyped, CalibrationInv, ArmedInv, PlantTick
  PROVE  CalibrationInv'
<1> DEFINE imu == Imu(mission, tick)
           a == mission.imu_after
           bad == a > 0 /\ tick >= a
<1>1. TickIsOf(Sample(mission, tick), imu)
  BY PlantTickParts
<1>2. tick \in Nat /\ tick' = tick + 1 /\ mission' = mission /\ arm_test' = arm_test
  BY <1>1, LoopAssumption DEF TickIsOf
<1>3. a \in Nat /\ n \in Nat /\ CalibSamples \in Nat \ {0}
  BY MissionType, LoopAssumption DEF DrivenInv, PartsTyped
<1>4. /\ Est!GyroUsable(imu) <=> ~bad
      /\ ~bad /\ ~arm_test /\ motors # "on" => imu.gyro = Still
  BY <1>1, ImuSays DEF TickIsOf, DrivenInv
<1> SUFFICES ASSUME ~arm_test
             PROVE  /\ tick + 1 < CalibSamples /\ (a = 0 \/ tick + 1 <= a) =>
                         n' = tick + 1 /\ state' # "Done"
                    /\ ~ImuLasts => n' < CalibSamples /\ state' # "Done"
                    /\ ImuLasts /\ tick + 1 >= CalibSamples => state' = "Done"
  BY <1>2 DEF CalibrationInv, ImuLasts
<1>5. /\ tick < CalibSamples /\ (a = 0 \/ tick <= a) => n = tick /\ state # "Done"
      /\ ~ImuLasts => n < CalibSamples /\ state # "Done"
      /\ ImuLasts /\ tick >= CalibSamples => state = "Done"
  BY DEF CalibrationInv
<1>6. state = "Done" => state' = "Done"
  BY <1>1 DEF TickIsOf, Estimate, Est!Update, Est!calibvars, Est!CalibrateUpdate
<1>7. ASSUME state # "Done", tick <= CalibSamples \/ ~ImuLasts
      PROVE  /\ bad => n' = n /\ state' # "Done"
             /\ ~bad => n' = n + 1 /\ state' = IF n + 1 >= CalibSamples THEN "Done" ELSE "Collect"
  <2>1. ~armed /\ motors # "on"
    BY <1>7, EarlyUnarmed
  <2>2. ~armed'
    BY <1>1, <1>7, <2>1, UncalibratedStays
  <2>3. Est!CalibrateUpdate(imu)
    BY <1>1, <2>2 DEF TickIsOf, Estimate
  <2>4. CASE bad
    BY <1>4, <1>7, <2>3, <2>4 DEF Est!CalibrateUpdate
  <2>5. CASE ~bad
    <3>1. Est!Magnitude(imu.gyro) <= CalibMaxGyro /\ Est!Magnitude(imu.gyro) \in Int
      <4>1. Still \in Int
        BY MissionAssumption, LoopAssumption
      <4> QED
        BY <1>4, <2>1, <2>5, <4>1, ScriptAssumption DEF Est!Magnitude
    <3>2. ~(Est!Magnitude(imu.gyro) > CalibMaxGyro)
      BY <3>1, LoopAssumption
    <3>3. Est!Collect(imu)
      BY <1>4, <1>7, <2>3, <2>5, <3>2 DEF Est!CalibrateUpdate
    <3> QED
      BY <2>5, <3>3 DEF Est!Collect
  <2> QED
    BY <2>4, <2>5
<1>8. tick + 1 < CalibSamples /\ (a = 0 \/ tick + 1 <= a) => n' = tick + 1 /\ state' # "Done"
  BY <1>2, <1>3, <1>5, <1>7
<1>9. ~ImuLasts => n' < CalibSamples /\ state' # "Done"
  <2> SUFFICES ASSUME ~ImuLasts PROVE n' < CalibSamples /\ state' # "Done"
    OBVIOUS
  <2>1. a \in 1..(CalibSamples - 1)
    BY DEF ImuLasts
  <2> QED
    BY <1>2, <1>3, <1>5, <1>7, <2>1
<1>10. ImuLasts /\ tick + 1 >= CalibSamples => state' = "Done"
  <2> SUFFICES ASSUME ImuLasts, tick + 1 >= CalibSamples PROVE state' = "Done"
    OBVIOUS
  <2>1. a = 0 \/ a >= CalibSamples
    BY <1>3 DEF ImuLasts
  <2> QED
    BY <1>2, <1>3, <1>5, <1>6, <1>7, <2>1
<1> QED
  BY <1>8, <1>9, <1>10

\* The faults of a tick are those that fall due in it.
FaultNow(rc) == Fs!RcTimedOut' \/ rc.rx_failsafe \/ Fs!ImuInvalid'

LEMMA FaultsAreNow ==
  ASSUME NEW rc
  PROVE  Fs!Faults(rc, "ok") # {} <=> FaultNow(rc)
BY DEF Fs!Faults, Fs!FaultReason, FaultNow

LEMMA SensorFault ==
  ASSUME DrivenInv, PartsTyped, SensorInv, PlantTick
  PROVE  Fs!ImuInvalid' <=> mission.imu_after > 0 /\ tick >= mission.imu_after + ImuInvalidDebounce - 1
<1>1. TickIsOf(Sample(mission, tick), Imu(mission, tick))
  BY PlantTickParts
<1>2. tick \in Nat /\ tick' = tick + 1 /\ mission' = mission
  BY <1>1, LoopAssumption DEF TickIsOf
<1>3. mission.imu_after \in Nat /\ ImuInvalidDebounce \in Nat /\ ImuInvalidDebounce >= 2
  BY MissionType, LoopAssumption, ScriptAssumption DEF DrivenInv
<1>4. SensorInv'
  BY SensorTick
<1> QED
  BY <1>2, <1>3, <1>4 DEF SensorInv, Fs!ImuInvalid

LEMMA ReceiverFault ==
  ASSUME DrivenInv, PartsTyped, ReceiverInv, PlantTick
  PROVE  Fs!RcTimedOut' <=> mission.scenario = "rc_loss" /\ tick >= FrameBefore(mission, 3000) + RcTimeout
<1> DEFINE p == mission.period
           loss == mission.scenario = "rc_loss"
           f == FrameBefore(mission, 3000)
           g == FrameBefore(mission, tick + 1)
<1>1. TickIsOf(Sample(mission, tick), Imu(mission, tick))
  BY PlantTickParts
<1>2. tick \in Nat /\ tick' = tick + 1 /\ now' = tick /\ mission' = mission
  BY <1>1, LoopAssumption DEF TickIsOf
<1>3. p \in Nat \ {0} /\ p <= RcTimeout /\ RcTimeout \in Nat
  BY MissionType, LoopAssumption, ScriptAssumption DEF DrivenInv
<1>4. f \in Nat /\ f < 3000 /\ 3000 <= f + p
  BY <1>3, FrameBeforeIsLast
<1>5. g \in Nat /\ g < tick + 1 /\ tick + 1 <= g + p
  <2>1. tick + 1 \in Nat \ {0}
    BY <1>2
  <2> QED
    BY <1>3, <2>1, FrameBeforeIsLast
<1>6. have_frame' /\ last_good' = IF loss /\ tick + 1 > 3000 THEN f ELSE g
  <2>1. ReceiverInv'
    BY ReceiverTick
  <2>2. LastFrame' = IF loss /\ tick + 1 > 3000 THEN f ELSE g
    BY <1>2 DEF LastFrame, FrameBefore
  <2> QED
    BY <1>2, <2>1, <2>2 DEF ReceiverInv
<1>7. Fs!RcTimedOut' <=> tick - last_good' >= RcTimeout
  BY <1>2, <1>6 DEF Fs!RcTimedOut
<1> HIDE DEF f, g, p
<1> QED
  BY <1>2, <1>3, <1>4, <1>5, <1>6, <1>7 DEF f

LEMMA FaultTick ==
  ASSUME DrivenInv, PartsTyped, ReceiverInv, SensorInv, PlantTick
  PROVE  LET rc == Sample(mission, tick)
         IN  /\ FaultNow(rc) => FaultDue(tick)
             /\ FaultDue(tick) => FaultNow(rc) \/ (tick > 0 /\ FaultDue(tick - 1))
             /\ tick > 0 /\ FaultDue(tick - 1) => FaultDue(tick)
             /\ ~FaultDue(0)
<1> DEFINE p == mission.period
           f == FrameFrom(mission, 3000)
           g == FrameBefore(mission, 3000)
           rc == Sample(mission, tick)
           rx == mission.scenario = "rx_failsafe"
<1>1. TickIsOf(rc, Imu(mission, tick))
  BY PlantTickParts
<1>2. tick \in Nat
  BY <1>1, LoopAssumption DEF TickIsOf
<1>3. p \in Nat \ {0} /\ RcTimeout \in Nat \ {0}
  BY MissionType, LoopAssumption DEF DrivenInv
<1>4. f \in Nat /\ 3000 <= f /\ f < 3000 + p /\ f % p = 0
  BY <1>3, FrameFromIsFirst
<1>5. g \in Nat
  BY <1>3, FrameBeforeIsLast
<1>6. mission.imu_after \in Nat /\ ImuInvalidDebounce \in Nat /\ ImuInvalidDebounce >= 2
  BY MissionType, LoopAssumption, ScriptAssumption DEF DrivenInv
<1>7. rc.rx_failsafe <=> Delivered(mission, tick) /\ rx /\ tick >= 3000
  BY <1>1, SampleSays DEF TickIsOf, DrivenInv
<1>8. rc.rx_failsafe <=> tick % p = 0 /\ rx /\ tick >= 3000
  <2>1. rx => (Delivered(mission, tick) <=> tick % p = 0)
    BY DEF Delivered
  <2> HIDE DEF rc
  <2> QED
    BY <1>7, <2>1
<1>9. rc.rx_failsafe => rx /\ tick >= f
  <2> SUFFICES ASSUME tick % p = 0, tick >= 3000, tick < f PROVE FALSE
    BY <1>2, <1>4, <1>8
  <2>1. tick < f + p /\ f < tick + p
    BY <1>2, <1>3, <1>4
  <2>2. tick = f
    BY <1>2, <1>3, <1>4, <2>1, MultiplesApart
  <2> QED
    BY <1>2, <1>4, <2>2
<1>10. rx /\ tick = f => rc.rx_failsafe
  BY <1>2, <1>4, <1>8
<1>11. FaultNow(rc) <=>
         \/ mission.scenario = "rc_loss" /\ tick >= g + RcTimeout
         \/ rc.rx_failsafe
         \/ mission.imu_after > 0 /\ tick >= mission.imu_after + ImuInvalidDebounce - 1
  BY SensorFault, ReceiverFault DEF FaultNow
<1>12. \A t \in Int : FaultDue(t) <=>
         \/ mission.imu_after > 0 /\ t >= mission.imu_after + ImuInvalidDebounce - 1
         \/ rx /\ t >= f
         \/ mission.scenario = "rc_loss" /\ t >= g + RcTimeout
  BY DEF FaultDue
<1> HIDE DEF f, g, p, rc
<1>13. FaultNow(rc) => FaultDue(tick)
  BY <1>2, <1>9, <1>11, <1>12
<1>14. FaultDue(tick) => FaultNow(rc) \/ (tick > 0 /\ FaultDue(tick - 1))
  <2>1. rx /\ tick >= f => rc.rx_failsafe \/ (tick > 0 /\ FaultDue(tick - 1))
    BY <1>2, <1>4, <1>10, <1>12
  <2> QED
    BY <1>2, <1>11, <1>12, <2>1
<1>15. tick > 0 /\ FaultDue(tick - 1) => FaultDue(tick)
  BY <1>2, <1>3, <1>4, <1>5, <1>6, <1>12
<1>16. ~FaultDue(0)
  BY <1>3, <1>4, <1>5, <1>6, <1>12
<1> QED
  BY <1>13, <1>14, <1>15, <1>16 DEF rc

LEMMA LatchTick ==
  ASSUME DrivenInv, PartsTyped, ReceiverInv, SensorInv, LatchInv, PlantTick
  PROVE  /\ active' <=> FaultDue(tick)
         /\ latched' <=> active' \/ boot_latched'
         /\ arm_test => ~boot_latched'
         /\ ~arm_test => (boot_latched' <=> boot_latched)
<1> DEFINE rc == Sample(mission, tick)
           F == Fs!Faults(rc, "ok")
<1>1. TickIsOf(rc, Imu(mission, tick))
  BY PlantTickParts
<1>2. tick \in Nat /\ now = IF tick = 0 THEN 0 ELSE tick - 1
  BY <1>1, LoopAssumption DEF TickIsOf, DrivenInv
<1>3. F # {} <=> FaultNow(rc)
  BY FaultsAreNow
<1>4. /\ FaultNow(rc) => FaultDue(tick)
      /\ FaultDue(tick) => FaultNow(rc) \/ (tick > 0 /\ FaultDue(tick - 1))
      /\ tick > 0 /\ FaultDue(tick - 1) => FaultDue(tick)
      /\ ~FaultDue(0)
  BY FaultTick
<1>5. active <=> tick > 0 /\ FaultDue(now)
  BY DEF LatchInv
<1>6. latched <=> active \/ boot_latched
  BY DEF LatchInv
<1>7. \/ arm_test /\ Fs!ArmRequest
      \/ arm_test /\ Fs!ArmHeld(F)
      \/ ~arm_test /\ Fs!ArmBySwitch(rc, state = "Done", F)
  BY <1>1 DEF TickIsOf
<1> HIDE DEF rc, F
<1>8. ASSUME Fs!Latch(F)
      PROVE  /\ active' <=> FaultDue(tick)
             /\ latched' <=> active' \/ boot_latched'
             /\ boot_latched' <=> boot_latched
  <2>1. /\ active' = (active \/ F # {}) /\ latched' = (latched \/ F # {})
        /\ boot_latched' = boot_latched
    BY <1>8 DEF Fs!Latch
  <2>2. (active' <=> active \/ F # {}) /\ (latched' <=> latched \/ F # {})
    BY <2>1, Zenon
  <2>3. active <=> tick > 0 /\ FaultDue(tick - 1)
    BY <1>2, <1>5
  <2>4. active' <=> FaultDue(tick)
    BY <1>3, <1>4, <2>2, <2>3
  <2> QED
    BY <1>6, <2>1, <2>2, <2>4
<1>9. CASE arm_test /\ Fs!ArmRequest
  <2>1. tick = 0
    <3>1. ~arm_test_prev
      BY <1>9 DEF Fs!ArmRequest
    <3> QED
      BY <1>2, <1>9, <3>1 DEF LatchInv
  <2>2. ~active' /\ ~latched' /\ ~boot_latched'
    BY <1>9, Zenon DEF Fs!ArmRequest
  <2> QED
    BY <1>4, <1>9, <2>1, <2>2
<1>10. CASE arm_test /\ Fs!ArmHeld(F)
  <2>1. Fs!Latch(F) /\ arm_test_prev
    BY <1>10 DEF Fs!ArmHeld
  <2>2. ~boot_latched
    BY <2>1 DEF LatchInv
  <2> QED
    BY <1>8, <1>10, <2>1, <2>2
<1>11. CASE ~arm_test /\ Fs!ArmBySwitch(rc, state = "Done", F)
  <2>1. Fs!Latch(F)
    BY <1>11 DEF Fs!ArmBySwitch
  <2> QED
    BY <1>8, <1>11, <2>1
<1> QED
  BY <1>7, <1>9, <1>10, <1>11

\* What a script without --arm-test asks for, the latches apart.
Asked(t) ==
  /\ mission.period = 1 /\ ImuLasts
  /\ \/ mission.scenario \in Windowed /\ t >= CalibSamples
        /\ (mission.scenario = "rc_loss" => t < 3000)
     \/ mission.scenario = "cut" /\ t >= 3000

\* What it takes to arm, where the script has not had it armed before.
LEMMA MayArmWhen ==
  ASSUME DrivenInv, PartsTyped, ReceiverInv, CalibrationInv, PlantTick, ~arm_test,
         Delivered(mission, tick), ~(tick > 0 /\ Asked(tick - 1))
  PROVE  Fs!MayArm(Sample(mission, tick), state = "Done") <=> Asked(tick)
<1> DEFINE rc == Sample(mission, tick)
           s == mission.scenario
           loss == s = "rc_loss"
<1>1. TickIsOf(rc, Imu(mission, tick))
  BY PlantTickParts
<1>2. tick \in Nat /\ tick' = tick + 1 /\ mission' = mission
  BY <1>1, LoopAssumption DEF TickIsOf
<1>3. /\ mission.period \in Nat \ {0} /\ mission.imu_after \in Nat
      /\ CalibSamples \in Nat \ {0} /\ CalibSamples < 400
      /\ ArmMinGoodFrames \in Nat /\ ArmMinGoodFrames >= 2 /\ ArmMinGoodFrames <= CalibSamples + 1
  BY MissionType, LoopAssumption, ScriptAssumption DEF DrivenInv
<1>4. rc.throttle = "low" <=> ThrottleIsLow(s, tick)
  BY <1>1, SampleSays DEF TickIsOf, DrivenInv
<1>5. /\ mission.period = 1 /\ (loss => tick + 1 <= 3000) => good_frames' = tick + 1
      /\ mission.period > 1 => good_frames' \in {0, 1}
  <2>1. ReceiverInv'
    BY ReceiverTick
  <2> QED
    BY <1>2, <2>1 DEF ReceiverInv
<1>6. loss => tick < 3000
  BY DEF Delivered
<1>7. ThrottleIsLow(s, tick) <=> (s \in Windowed /\ tick < 400) \/ (s = "cut" /\ tick >= 3000)
  BY DEF ThrottleIsLow
<1>8. s = "cut" => s \notin Windowed
  BY DEF Windowed, RateStep
<1>9. /\ tick < CalibSamples /\ (mission.imu_after = 0 \/ tick <= mission.imu_after) => state # "Done"
      /\ ~ImuLasts => state # "Done"
      /\ ImuLasts /\ tick >= CalibSamples => state = "Done"
  BY DEF CalibrationInv
<1>10. ImuLasts <=> mission.imu_after = 0 \/ mission.imu_after >= CalibSamples
  BY <1>3 DEF ImuLasts
<1>11. Fs!MayArm(rc, state = "Done") <=>
         state = "Done" /\ good_frames' >= ArmMinGoodFrames /\ rc.throttle = "low"
  BY DEF Fs!MayArm
<1>12. \A t \in Int : Asked(t) <=>
         /\ mission.period = 1 /\ ImuLasts
         /\ \/ s \in Windowed /\ t >= CalibSamples /\ (loss => t < 3000)
            \/ s = "cut" /\ t >= 3000
  BY DEF Asked
<1> HIDE DEF rc, s
<1>13. ASSUME Fs!MayArm(rc, state = "Done") PROVE Asked(tick)
  <2>1. ImuLasts /\ tick >= CalibSamples
    BY <1>2, <1>3, <1>9, <1>10, <1>11, <1>13
  <2>2. mission.period = 1
    BY <1>3, <1>5, <1>11, <1>13
  <2> QED
    BY <1>2, <1>4, <1>6, <1>7, <1>11, <1>12, <1>13, <2>1, <2>2
<1>14. ASSUME Asked(tick) PROVE Fs!MayArm(rc, state = "Done")
  <2>1. mission.period = 1 /\ ImuLasts
    BY <1>2, <1>12, <1>14
  <2>2. (s \in Windowed /\ tick = CalibSamples) \/ (s = "cut" /\ tick = 3000)
    BY <1>2, <1>3, <1>8, <1>12, <1>14
  <2>3. state = "Done"
    BY <1>2, <1>3, <1>9, <2>1, <2>2
  <2>4. good_frames' >= ArmMinGoodFrames
    BY <1>2, <1>3, <1>5, <1>6, <2>1, <2>2
  <2>5. rc.throttle = "low"
    BY <1>3, <1>4, <1>7, <2>2
  <2> QED
    BY <1>11, <2>3, <2>4, <2>5
<1> QED
  BY <1>13, <1>14 DEF rc

LEMMA SwitchArmed ==
  ASSUME DrivenInv, PartsTyped, ReceiverInv, SensorInv, CalibrationInv, LatchInv, ArmedInv,
         PlantTick, ~arm_test
  PROVE  armed' <=> ~FaultDue(tick) /\ ~boot_latched' /\ Asked(tick)
<1> DEFINE rc == Sample(mission, tick)
           d == Delivered(mission, tick)
<1>1. TickIsOf(rc, Imu(mission, tick))
  BY PlantTickParts
<1>2. tick \in Nat /\ now = IF tick = 0 THEN 0 ELSE tick - 1
  BY <1>1, LoopAssumption DEF TickIsOf, DrivenInv
<1>3. /\ active' <=> FaultDue(tick)
      /\ latched' <=> active' \/ boot_latched'
      /\ boot_latched' <=> boot_latched
  BY LatchTick
<1>4. armed <=> tick > 0 /\ ~FaultDue(tick - 1) /\ ~boot_latched /\ Asked(tick - 1)
  <2>1. armed <=> tick > 0 /\ Scripted(now)
    BY DEF ArmedInv
  <2>2. tick > 0 => (Scripted(now) <=> ~FaultDue(tick - 1) /\ ~boot_latched /\ Asked(tick - 1))
    BY <1>2 DEF Scripted, Asked
  <2> QED
    BY <2>1, <2>2
<1>5. tick > 0 /\ FaultDue(tick - 1) => FaultDue(tick)
  BY FaultTick
<1>6. Fs!ImuInvalid' => FaultDue(tick)
  BY SensorFault DEF FaultDue
<1>7. (rc.frame_ok <=> d) /\ (rc.armed_switch <=> d)
  BY <1>1, SampleSays DEF TickIsOf, DrivenInv
<1>8. armed' <=> Fs!MayStayArmed(rc) /\ (armed \/ Fs!MayArm(rc, state = "Done")) /\ ~active'
  <2>1. Fs!ArmBySwitch(rc, state = "Done", Fs!Faults(rc, "ok"))
    BY <1>1 DEF TickIsOf
  <2>2. armed' = (/\ Fs!MayStayArmed(rc)
                  /\ armed \/ Fs!MayArm(rc, state = "Done")
                  /\ ~active')
    BY <2>1, Zenon DEF Fs!ArmBySwitch
  <2> QED
    BY <2>2, Zenon
<1>9. Fs!MayStayArmed(rc) <=> d /\ ~latched' /\ ~boot_latched' /\ ~Fs!ImuInvalid'
  BY <1>7 DEF Fs!MayStayArmed
<1>10. armed' <=> d /\ ~FaultDue(tick) /\ ~boot_latched' /\ (armed \/ Fs!MayArm(rc, state = "Done"))
  <2> HIDE DEF rc, d
  <2> QED
    BY <1>3, <1>6, <1>8, <1>9
<1>11. Asked(tick) => d
  <2> SUFFICES ASSUME Asked(tick) PROVE d
    OBVIOUS
  <2>1. mission.period = 1 /\ (mission.scenario = "rc_loss" => tick < 3000)
    <3>1. mission.scenario = "cut" => mission.scenario # "rc_loss"
      OBVIOUS
    <3> QED
      BY <3>1 DEF Asked
  <2>2. tick % 1 = 0
    BY <1>2
  <2> QED
    BY <2>1, <2>2 DEF Delivered
<1>12. d /\ ~(tick > 0 /\ Asked(tick - 1)) => (Fs!MayArm(rc, state = "Done") <=> Asked(tick))
  BY MayArmWhen
<1>13. d /\ tick > 0 /\ Asked(tick - 1) => Asked(tick)
  <2>1. d => (mission.scenario = "rc_loss" => tick < 3000)
    BY DEF Delivered
  <2> QED
    BY <1>2, <2>1, LoopAssumption DEF Asked
<1> HIDE DEF rc, d
<1>14. CASE tick > 0 /\ Asked(tick - 1)
  BY <1>3, <1>4, <1>5, <1>10, <1>11, <1>13, <1>14
<1>15. CASE ~(tick > 0 /\ Asked(tick - 1))
  BY <1>4, <1>10, <1>11, <1>12, <1>15
<1> QED
  BY <1>14, <1>15

LEMMA RequestArmed ==
  ASSUME DrivenInv, PartsTyped, ReceiverInv, SensorInv, LatchInv, ArmedInv,
         PlantTick, arm_test
  PROVE  armed' <=> ~FaultDue(tick)
<1> DEFINE rc == Sample(mission, tick)
           F == Fs!Faults(rc, "ok")
<1>1. TickIsOf(rc, Imu(mission, tick))
  BY PlantTickParts
<1>2. tick \in Nat /\ now = IF tick = 0 THEN 0 ELSE tick - 1
  BY <1>1, LoopAssumption DEF TickIsOf, DrivenInv
<1>3. /\ active' <=> FaultDue(tick)
      /\ latched' <=> active' \/ boot_latched'
      /\ ~boot_latched'
  BY LatchTick
<1>4. (tick > 0 /\ FaultDue(tick - 1) => FaultDue(tick)) /\ ~FaultDue(0)
  BY FaultTick
<1>5. Fs!ArmRequest \/ Fs!ArmHeld(F)
  BY <1>1 DEF TickIsOf
<1> HIDE DEF rc, F
<1>6. CASE Fs!ArmRequest
  <2>1. tick = 0
    <3>1. ~arm_test_prev
      BY <1>6 DEF Fs!ArmRequest
    <3> QED
      BY <1>2, <3>1 DEF LatchInv
  <2>2. armed'
    BY <1>6, Zenon DEF Fs!ArmRequest
  <2> QED
    BY <1>4, <2>1, <2>2
<1>7. CASE Fs!ArmHeld(F)
  <2>1. arm_test_prev /\ armed' = (armed /\ ~latched' /\ ~active')
    BY <1>7, Zenon DEF Fs!ArmHeld
  <2>2. armed' <=> armed /\ ~latched' /\ ~active'
    BY <2>1, Zenon
  <2>3. tick > 0
    BY <2>1 DEF LatchInv
  <2>4. armed <=> ~FaultDue(tick - 1)
    BY <1>2, <2>3 DEF ArmedInv, Scripted
  <2> QED
    BY <1>3, <1>4, <2>2, <2>3, <2>4
<1> QED
  BY <1>5, <1>6, <1>7

LEMMA PlantTickScript ==
  ASSUME DrivenInv, PartsTyped, ScriptInv, PlantTick
  PROVE  ScriptInv'
<1> USE DEF ScriptInv
<1>1. TickIsOf(Sample(mission, tick), Imu(mission, tick))
  BY PlantTickParts
<1>2. /\ tick \in Nat /\ tick' = tick + 1 /\ now' = tick /\ mission' = mission
      /\ arm_test' = arm_test /\ arm_test_prev' = arm_test
  BY <1>1, LoopAssumption DEF TickIsOf
<1>3. ReceiverInv' /\ SensorInv' /\ CalibrationInv'
  BY ReceiverTick, SensorTick, CalibrationTick
<1>4. FaultDue(now)' <=> FaultDue(tick)
  BY <1>2 DEF FaultDue, FrameFrom, FrameBefore
<1>5. LatchInv'
  BY <1>2, <1>4, LatchTick DEF LatchInv
<1>6. armed' <=> Scripted(now)'
  <2>1. Scripted(now)' <=>
          ~FaultDue(tick) /\ (arm_test \/ (~arm_test /\ ~boot_latched' /\ Asked(tick)))
    BY <1>2, <1>4 DEF Scripted, Asked, ImuLasts
  <2>2. CASE arm_test
    BY <2>1, <2>2, RequestArmed
  <2>3. CASE ~arm_test
    BY <2>1, <2>3, SwitchArmed
  <2> QED
    BY <2>2, <2>3
<1>7. armed' => ~active' /\ imu_valid'
  <2> SUFFICES ASSUME armed' PROVE ~active' /\ imu_valid'
    OBVIOUS
  <2>1. ~FaultDue(tick)
    BY <1>2, <1>4, <1>6 DEF Scripted
  <2>2. ~Fs!ImuInvalid'
    BY <2>1, SensorFault DEF FaultDue
  <2>3. imu_bad_count' \in Int /\ invalid_count' \in 0..imu_bad_count' /\ ImuInvalidDebounce \in Nat
    <3>1. SensorInv'
      BY <1>3
    <3>2. mission.imu_after \in Nat
      BY MissionType DEF DrivenInv
    <3>3. imu_bad_count' \in Int
      BY <1>2, <3>1, <3>2, LoopAssumption DEF SensorInv
    <3> QED
      BY <3>1, <3>3, LoopAssumption DEF SensorInv
  <2>4. invalid_count' < ImuInvalidDebounce
    BY <2>2, <2>3 DEF Fs!ImuInvalid
  <2>5. imu_valid'
    BY <1>3, <2>4 DEF SensorInv
  <2> QED
    BY <2>1, <2>5, LatchTick
<1>8. motors' = "on" <=> armed'
  <2>1. motors' = IF armed' /\ ~active' /\ imu_valid' THEN "on" ELSE "off"
    BY <1>1 DEF TickIsOf, OutputApply
  <2> QED
    BY <1>7, <2>1
<1> QED
  BY <1>2, <1>3, <1>5, <1>6, <1>8 DEF ArmedInv

\* The types, from the invariants that the parts have anyway.
LEMMA Types == MissionSpec => []PartsTyped
<1>1. MissionSpec => []FsP!IInv
  BY MissionsRunTheLoop, FailsafeHolds, PTL DEF RunsTheControlLoop
<1>2. Spec => []EsP!TypeOK
  <2>1. EsP!Spec => []EsP!TypeOK
    BY EsP!TypeCorrect, EstimatorAssumptions
  <2> QED
    BY <2>1, UsesEstimator, PTL
<1>3. FsP!IInv /\ EsP!TypeOK => PartsTyped
  BY LoopAssumption
  DEF FsP!IInv, FsP!TypeOK, EsP!TypeOK, FsP!LatchesAgree, FsP!FaultReason, FsP!FailsafeReason,
      PartsTyped, Fs!LatchesAgree, Fs!FaultReason, Fs!FailsafeReason
<1> QED
  BY <1>1, <1>2, <1>3, MissionsRunTheLoop, PTL DEF RunsTheControlLoop

LEMMA MissionInitScript == MissionInit => ScriptInv
<1> SUFFICES ASSUME MissionInit PROVE ScriptInv
  OBVIOUS
<1>1. /\ tick = 0 /\ mission \in Missions /\ armed = FALSE /\ active = FALSE
      /\ arm_test_prev = FALSE /\ have_frame = FALSE
      /\ good_frames = 0 /\ imu_bad_count = 0 /\ latched = boot_latched
      /\ state = "Idle" /\ n = 0 /\ invalid_count = 0 /\ imu_valid = TRUE /\ motors = "off"
  BY DEF MissionInit, Init, Fs!Init, Est!Init
<1>2. mission.period \in Nat \ {0} /\ mission.imu_after \in Nat
  BY <1>1, MissionType
<1>3. ReceiverInv
  BY <1>1 DEF ReceiverInv
<1>4. SensorInv
  BY <1>1, <1>2, LoopAssumption DEF SensorInv
<1>5. CalibrationInv
  BY <1>1, LoopAssumption DEF CalibrationInv
<1>6. LatchInv
  BY <1>1 DEF LatchInv
<1>7. ArmedInv
  BY <1>1 DEF ArmedInv
<1> QED
  BY <1>3, <1>4, <1>5, <1>6, <1>7 DEF ScriptInv

LEMMA ScriptKept == DrivenInv /\ PartsTyped /\ ScriptInv /\ [MissionNext]_missionvars => ScriptInv'
<1> SUFFICES ASSUME DrivenInv, PartsTyped, ScriptInv, [MissionNext]_missionvars PROVE ScriptInv'
  OBVIOUS
<1>1. CASE PlantTick
  BY <1>1, PlantTickScript
<1>2. CASE UNCHANGED missionvars
  BY <1>2 DEF missionvars, vars, fsvars, estvars, ScriptInv, ReceiverInv, SensorInv, CalibrationInv,
              LatchInv, ArmedInv, LastFrame, FrameBefore, FrameFrom, ImuLasts, FaultDue, Scripted
<1> QED
  BY <1>1, <1>2 DEF MissionNext, Finished

LEMMA ScriptHolds == MissionSpec => []ScriptInv
BY MissionInitScript, ScriptKept, MissionDriven, Types, PTL DEF MissionSpec

\* The least of a few ticks.
LEMMA LeastOf ==
  ASSUME NEW S \in SUBSET Int, NEW least \in S, \A x \in S : least <= x
  PROVE  Min(S) = least
<1>1. Min(S) = CHOOSE x \in S : \A y \in S : x <= y
  BY DEF Min
<1> DEFINE P(x) == \A y \in S : x <= y
<1>2. P(least)
  OBVIOUS
<1>3. \A x \in S : P(x) => x = least
  BY <1>2
<1>4. Min(S) = CHOOSE x \in S : P(x)
  BY <1>1
<1> HIDE DEF P
<1> QED
  BY <1>2, <1>3, <1>4

LEMMA SoonestOf ==
  ASSUME NEW S \in SUBSET Int, NEW b \in S, NEW c \in S, NEW d \in S, NEW e \in S,
         S = {b, c, d, e}
  PROVE  Min(S) \in S /\ \A t \in Int : t >= Min(S) <=> \E x \in S : t >= x
<1>1. PICK least \in S : \A x \in S : least <= x
  OBVIOUS
<1>2. Min(S) = least
  BY <1>1, LeastOf
<1> QED
  BY <1>1, <1>2

LEMMA FailAtIsDue ==
  ASSUME DrivenInv, tick > 0
  PROVE  /\ FailAt \in Int
         /\ now >= FailAt <=> FaultDue(now)
<1> DEFINE i == mission.imu_after + ImuInvalidDebounce - 1
           f == FrameFrom(mission, 3000)
           g == FrameBefore(mission, 3000) + RcTimeout
           imu == mission.imu_after > 0
           rx == mission.scenario = "rx_failsafe"
           loss == mission.scenario = "rc_loss"
           b == IF imu THEN i ELSE Never
           c == IF rx THEN f ELSE Never
           d == IF loss THEN g ELSE Never
           S == {Never, b, c, d}
<1>1. now \in Nat /\ Never \in Int /\ now < Never
  BY LoopAssumption DEF DrivenInv, Never
<1>2. mission.imu_after \in Nat /\ mission.period \in Nat \ {0}
  BY MissionType DEF DrivenInv
<1>3. f \in Int /\ g \in Int /\ i \in Int
  BY <1>2, LoopAssumption, FrameFromIsFirst, FrameBeforeIsLast
<1>4. FailAt = Min(S)
  <2> DEFINE T == {Never} \cup {t \in {i} : imu} \cup {t \in {f} : rx} \cup {t \in {g} : loss}
  <2>1. T = S
    <3> HIDE DEF i, f, g, imu, rx, loss
    <3> QED
      OBVIOUS
  <2>2. FailAt = Min(T)
    BY DEF FailAt
  <2> HIDE DEF T, S
  <2> QED
    BY <2>1, <2>2
<1>5. FaultDue(now) <=> (imu /\ now >= i) \/ (rx /\ now >= f) \/ (loss /\ now >= g)
  BY DEF FaultDue
<1> HIDE DEF i, f, g, imu, rx, loss
<1>6. b \in Int /\ c \in Int /\ d \in Int
  BY <1>1, <1>3
<1>7. now >= Min(S) <=> \E x \in S : now >= x
  BY <1>1, <1>6, SoonestOf
<1>8. Min(S) \in Int
  <2>1. Min(S) \in S
    BY <1>1, <1>6, SoonestOf
  <2> QED
    BY <1>1, <1>6, <2>1
<1>9. (\E x \in S : now >= x) <=> (imu /\ now >= i) \/ (rx /\ now >= f) \/ (loss /\ now >= g)
  BY <1>1, <1>3
<1> QED
  BY <1>4, <1>5, <1>7, <1>8, <1>9

\* The failsafe comes up in the tick in which the mission's fault is due and in no
\* other (failsafe.cpp:33-98): on time for every period of the receiver within the
\* timeout, every tick in which the IMU may fail, every debounce, and for as long
\* as the run lasts.
THEOREM FaultsOnTime == MissionSpec => []FailsafeOnTime
<1>1. DrivenInv /\ ScriptInv => FailsafeOnTime
  <2> SUFFICES ASSUME DrivenInv, ScriptInv, tick > 0 PROVE active <=> now >= FailAt
    BY DEF FailsafeOnTime
  <2> QED
    BY FailAtIsDue DEF ScriptInv, LatchInv
<1> QED
  BY <1>1, MissionDriven, ScriptHolds, PTL

\* A script moves the motors when it is meant to and never else (rc.py:98-267,
\* failsafe.cpp:71-98, control_loop.cpp:10-91): for every calibration that ends in
\* the window and every streak within it, at every period and IMU failure.
THEOREM MotorScript == MissionSpec => []MotorsFollowScript
<1>1. DrivenInv /\ PartsTyped /\ ScriptInv => MotorsFollowScript
  <2> SUFFICES ASSUME DrivenInv, PartsTyped, ScriptInv, tick > 0
               PROVE  motors = "on" <=> ArmAt <= now /\ now < EndAt
    BY DEF MotorsFollowScript
  <2> DEFINE s == mission.scenario
             loss == s = "rc_loss"
  <2>1. now \in Nat /\ now < Never /\ Never \in Int
    BY LoopAssumption DEF DrivenInv, Never
  <2>2. mission.period \in Nat \ {0} /\ CalibSamples \in Nat \ {0} /\ CalibSamples < 400
    BY MissionType, LoopAssumption, ScriptAssumption DEF DrivenInv
  <2>3. FailAt \in Int /\ (now >= FailAt <=> FaultDue(now))
    BY FailAtIsDue
  <2>4. now < EndAt <=> ~FaultDue(now) /\ (loss /\ ~arm_test => now < 3000)
    <3>1. CASE loss /\ ~arm_test
      <4> DEFINE S == {3000, FailAt}
      <4>1. EndAt = Min(S)
        BY <3>1 DEF EndAt
      <4>2. Min(S) = IF FailAt < 3000 THEN FailAt ELSE 3000
        BY <2>3, LeastOf
      <4> QED
        BY <2>1, <2>3, <3>1, <4>1, <4>2
    <3>2. CASE ~(loss /\ ~arm_test)
      <4>1. EndAt = FailAt
        BY <3>2 DEF EndAt
      <4> QED
        BY <2>1, <2>3, <3>2, <4>1
    <3> QED
      BY <3>1, <3>2
  <2>5. boot_latched <=> "BootLatch" \in reason
    BY DEF PartsTyped, Fs!LatchesAgree
  <2>6. ImuLasts <=> mission.imu_after \notin 1..(CalibSamples - 1)
    BY DEF ImuLasts
  <2>7. s = "cut" => ~loss /\ s \notin Windowed
    BY DEF Windowed, RateStep
  <2>8. motors = "on" <=> Scripted(now)
    BY DEF ScriptInv, ArmedInv
  <2>9. Scripted(now) <=>
          /\ ~FaultDue(now)
          /\ \/ arm_test
             \/ /\ ~arm_test /\ mission.period = 1 /\ ~boot_latched /\ ImuLasts
                /\ \/ s \in Windowed /\ now >= CalibSamples /\ (loss => now < 3000)
                   \/ s = "cut" /\ now >= 3000
    BY DEF Scripted
  <2>10. ArmAt = IF arm_test THEN 0
                 ELSE IF mission.period > 1 \/ boot_latched \/ ~ImuLasts THEN Never
                 ELSE IF s \in Windowed THEN CalibSamples
                 ELSE IF s = "cut" THEN 3000 ELSE Never
    BY <2>5, <2>6 DEF ArmAt
  <2> HIDE DEF s, loss
  <2>11. mission.period = 1 <=> ~(mission.period > 1)
    BY <2>2
  <2>12. CASE arm_test
    BY <2>1, <2>4, <2>8, <2>9, <2>10, <2>12
  <2>13. CASE ~arm_test
    BY <2>1, <2>2, <2>4, <2>7, <2>8, <2>9, <2>10, <2>11, <2>13
  <2> QED
    BY <2>12, <2>13
<1> QED
  BY <1>1, MissionDriven, Types, ScriptHolds, PTL
=============================================================================
