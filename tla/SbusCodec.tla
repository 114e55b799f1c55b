----------------------------- MODULE SbusCodec ------------------------------
(***************************************************************************)
(* The SBUS frame as bits: sbus_encode (plant/rc.py) packs 16 channels of  *)
(* 11 bits into 22 bytes, and the firmware's SbusParser::channel takes     *)
(* each out again from the two or three bytes it lies in.                  *)
(*                                                                         *)
(* A channel, and a byte, is the set of its bits that are one.             *)
(***************************************************************************)
EXTENDS Integers

Channel11 == SUBSET (0..10)
Byte8 == SUBSET (0..7)

SbusHeader == {0, 1, 2, 3}    \* 0x0F
FrameLostBit == 2             \* FLAG_FRAME_LOST
FailsafeBit == 3              \* FLAG_FAILSAFE

\* The 176 bits of the channels, the least significant first.
Bits(ch) == {p \in 0..175 : p % 11 \in ch[p \div 11]}

SbusEncode(ch, flags) ==
  [k \in 0..24 |-> IF k = 0 THEN SbusHeader
                   ELSE IF k \in 1..22 THEN {b \in 0..7 : 8 * (k - 1) + b \in Bits(ch)}
                   ELSE IF k = 23 THEN flags \cap 0..3
                   ELSE {}]

\* Three bytes in a row, as one number.
Raw(lo, mid, hi) == lo \cup {8 + b : b \in mid} \cup {16 + b : b \in hi}

\* Mutant: no channel is taken to reach into a third byte.
ChannelTwoBytes(f, i) ==
  LET byte  == 1 + (11 * i) \div 8
      shift == (11 * i) % 8
      raw   == Raw(f[byte], f[byte + 1], {})
  IN  {b \in 0..10 : b + shift \in raw}

\* channel.  The third byte of the last channel would be the flags.
Channel(f, i) ==
  LET byte  == 1 + (11 * i) \div 8
      shift == (11 * i) % 8
      raw   == Raw(f[byte], f[byte + 1], IF shift # 0 THEN f[byte + 2] ELSE {})
  IN  {b \in 0..10 : b + shift \in raw}

\* The checks of decodeFrame: header, flags, stuck guard.
Plausible(f) == /\ f[0] = SbusHeader
                /\ f[23] \subseteq 0..3
                /\ \E i \in 1..15 : Channel(f, i) # Channel(f, 0)
=============================================================================
