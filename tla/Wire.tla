-------------------------------- MODULE Wire --------------------------------
(***************************************************************************)
(* The messages of the SIL, byte by byte: the header, the CRC and the      *)
(* payloads, as the firmware writes and reads them (hal/sil_wire.hpp and   *)
(* .cpp: packed structs) and as the plant does (plant/sil_proto.py: format *)
(* strings, and the order of the values given to them).                    *)
(*                                                                         *)
(* A byte, and a wider word, is the set of its bits that are one, so that  *)
(* exclusive or is the symmetric difference.  A payload is a function from *)
(* its fields to sequences of scalars, and a scalar a sequence of bytes,   *)
(* the least significant first on both sides; what a scalar means, a float *)
(* or an integer, is left out.                                             *)
(*                                                                         *)
(* A line between the two (the socket, or the serial line of a HIL) may    *)
(* damage a message.                                                       *)
(***************************************************************************)
EXTENDS Integers, SequencesExt

CONSTANTS
  Messages,     \* what is sent: type, seq and fields of each
  Flips,        \* what damage to a byte may do: the sets of bits that change
  MaxHits       \* bound on the damage to one message

VARIABLES
  sent,         \* the message on the line
  line,         \* its bytes, as they are now
  hits,         \* damage done so far
  rx,           \* rx_, which keeps what an earlier, longer message has left
  got           \* what each side's reader makes of the line

vars == <<sent, line, hits, rx, got>>

-----------------------------------------------------------------------------
(* Bytes and words.                                                        *)

Byte == SUBSET (0..7)

\* What op makes of base and the first i elements of seq, for each i, and of all
\* of them.
Running(op, base, seq) ==
  LET run[i \in 0..Len(seq)] == IF i = 0 THEN base ELSE op[<<run[i - 1], seq[i]>>] IN run

Overall(op, base, seq) == Running(op, base, seq)[Len(seq)]

Plus == [p \in Nat \X Nat |-> p[1] + p[2]]
Put == [p \in Seq(Byte) \X Seq(Byte) |-> p[1] \o p[2]]

Total(widths) == Overall(Plus, 0, widths)
Joined(parts) == Overall(Put, <<>>, parts)

Word(n, bits) == {b \in 0..(bits - 1) : (n \div 2^b) % 2 = 1}
Number(word) == Total([i \in 1..16 |-> IF i - 1 \in word THEN 2^(i - 1) ELSE 0])
ToBytes(word, w) == [j \in 1..w |-> {b \in 0..7 : 8 * (j - 1) + b \in word}]
OfBytes(bytes) == {p \in 0..(8 * Len(bytes) - 1) : p % 8 \in bytes[1 + p \div 8]}

\* The bytes from the first to the last, and the pieces of the given widths.
Cut(bytes, widths) ==
  LET end == Running(Plus, 0, widths)
  IN  [i \in DOMAIN widths |-> SubSeq(bytes, end[i - 1] + 1, end[i])]

Times(k, w) == [i \in 1..k |-> w]

-----------------------------------------------------------------------------
(* CRC-32, by the firmware's table and bit by bit.                         *)

kPoly == {5, 8, 9, 15, 19, 20, 21, 23, 24, 26, 27, 29, 30, 31}   \* 0xEDB88320
Ones == 0..31

ShiftRight(word, k) == {b - k : b \in {c \in word : c >= k}}

Divided(c) == IF 0 \in c THEN SymDiff(kPoly, ShiftRight(c, 1)) ELSE ShiftRight(c, 1)

\* Divided once for each bit of a byte.
Twice(c) == Divided(Divided(c))
EightTimes(c) == Twice(Twice(Twice(Twice(c))))

\* Mutant: seven times for a byte.
BuildTableSeven == [i \in Byte |-> Divided(Twice(Twice(Twice(i))))]

BuildTable == [i \in Byte |-> EightTimes(i)]

TableStep ==
  [p \in (SUBSET Ones) \X Byte |->
     LET crc == p[1] byte == p[2]
     IN  SymDiff(BuildTable[SymDiff(crc \cap 0..7, byte)], ShiftRight(crc, 8))]

Crc32Update(crc, data) == Overall(TableStep, crc, data)

Crc32Final(crc) == SymDiff(crc, Ones)

\* zlib.crc32: each bit of the data in its turn, by the definition.
BitStep == [p \in (SUBSET Ones) \X Byte |-> EightTimes(SymDiff(p[1], p[2]))]

ZlibCrc32(data) == SymDiff(Overall(BitStep, Ones, data), Ones)

-----------------------------------------------------------------------------
(* The header, on both sides: magic, ver, type, len, seq, crc.             *)

kMagic == {0, 2, 3, 6, 8, 9, 12, 14}    \* 0x534D
kProtoVersion == {0}

HdrFmt == <<2, 1, 1, 2, 4, 4>>
HdrSize == 14

Hdr(type, len, seq, crc) ==
  ToBytes(kMagic, 2) \o ToBytes(kProtoVersion, 1) \o ToBytes(type, 1)
    \o ToBytes(Word(len, 16), 2) \o ToBytes(seq, 4) \o ToBytes(crc, 4)

HdrOf(bytes) ==
  LET f == [i \in DOMAIN HdrFmt |-> OfBytes(Cut(bytes, HdrFmt)[i])]
  IN  [magic |-> f[1], ver |-> f[2], type |-> f[3], len |-> Number(f[4]), seq |-> f[5], crc |-> f[6]]

PackMsg(type, seq, payload) ==
  LET crc == Crc32Final(Crc32Update(Ones, Hdr(type, Len(payload), seq, {}) \o payload))
  IN  Hdr(type, Len(payload), seq, crc) \o payload

PackMsgPy(type, seq, payload) ==
  Hdr(type, Len(payload), seq, ZlibCrc32(Hdr(type, Len(payload), seq, {}) \o payload)) \o payload

Refused == [ok |-> FALSE, type |-> {}, seq |-> {}, body |-> <<>>]
Accepted(h, body) == [ok |-> TRUE, type |-> h.type, seq |-> h.seq, body |-> body]

\* Mutant: the buffer is read past what has been received.
UnpackMsgAnyLength(buf, len) ==
  LET h    == HdrOf(buf)
      body == SubSeq(buf, HdrSize + 1, HdrSize + h.len)
      crc  == Crc32Final(Crc32Update(Crc32Update(Ones, Hdr(h.type, h.len, h.seq, {})), body))
  IN  IF len >= HdrSize /\ h.magic = kMagic /\ h.ver = kProtoVersion
         /\ HdrSize + h.len <= Len(buf) /\ crc = h.crc
      THEN Accepted(h, body) ELSE Refused

\* unpackMsg: the first len bytes of buf hold a whole message of this version.
UnpackMsg(buf, len) ==
  LET h    == HdrOf(buf)
      body == SubSeq(buf, HdrSize + 1, HdrSize + h.len)
      crc  == Crc32Final(Crc32Update(Crc32Update(Ones, Hdr(h.type, h.len, h.seq, {})), body))
  IN  IF len >= HdrSize /\ h.magic = kMagic /\ h.ver = kProtoVersion
         /\ HdrSize + h.len <= len /\ crc = h.crc
      THEN Accepted(h, body) ELSE Refused

UnpackMsgPy(buf) ==
  LET h    == HdrOf(buf)
      body == SubSeq(buf, HdrSize + 1, HdrSize + h.len)
  IN  IF Len(buf) >= HdrSize /\ h.magic = kMagic /\ h.ver = kProtoVersion
         /\ HdrSize + h.len <= Len(buf)
         /\ ZlibCrc32(Hdr(h.type, h.len, h.seq, {}) \o body) = h.crc
      THEN Accepted(h, body) ELSE Refused

-----------------------------------------------------------------------------
(* The payloads.  The firmware's are packed structs: members in order.     *)

Member(name, width, count) == [name |-> name, width |-> width, count |-> count]
Float(name) == Member(name, 4, 1)
U8(name) == Member(name, 1, 1)

SilImu == <<Member("gyro_rps", 4, 3), Member("accel_mps2", 4, 3), Member("mag_uT", 4, 3),
            Float("temp_c"), Member("t_us", 8, 1), U8("valid")>>
SilRc == <<Member("sticks", 4, 4), U8("armed_switch"), U8("frame_ok"), Member("t_us", 8, 1)>>
SilPwm == <<Member("mot", 4, 4)>>
StateRc == SilImu \o <<Float("vbat"), U8("rc_proto"), U8("rc_len"), Member("rc_raw", 32, 1)>>
SilOut == <<Member("mot", 4, 4), Float("roll_est"), Float("pitch_est"), Float("yaw_est"),
            U8("armed"), U8("failsafe"), U8("led_mode"), U8("imu_valid"),
            Member("tick", 4, 1), Float("sat_shift")>>
SilTelem == <<Member("t_us", 8, 1), Member("angles", 4, 4), Member("pos", 4, 3), Member("vel", 4, 3),
              Member("est", 4, 3), Member("mot", 4, 4), Float("vbat"), Member("modes", 1, 4),
              Float("sat_shift")>>
SilHello == <<Member("dt_us", 4, 1), Member("sizes", 4, 7)>>

Names(struct) == {struct[i].name : i \in DOMAIN struct}
Extents(struct) == [i \in DOMAIN struct |-> struct[i].width * struct[i].count]

\* A struct in memory, and memory read as a struct.
Memory(struct, c) == Joined([i \in DOMAIN struct |-> Joined(c[struct[i].name])])

StructOf(struct, bytes) ==
  LET part == Cut(bytes, Extents(struct))
  IN  [name \in Names(struct) |->
         LET i == CHOOSE j \in DOMAIN struct : struct[j].name = name
         IN  Cut(part[i], Times(struct[i].count, struct[i].width))]

(* The plant's: a format, and the order of the values in a call.           *)

ImuFmt   == Times(9, 4) \o <<4, 8, 1>>
RcFmt    == Times(4, 4) \o <<1, 1, 8>>
PwmFmt   == Times(4, 4)
StateFmt == Times(9, 4) \o <<4, 8, 1, 4, 1, 1, 32>>
FwOutFmt == Times(4, 4) \o Times(3, 4) \o Times(4, 1) \o <<4, 4>>
TelemFmt == <<8>> \o Times(17, 4) \o <<4>> \o Times(4, 1) \o <<4>>
HelloFmt == Times(8, 4)

\* struct.pack: each value takes the width its place in the format gives it.
StructPack(fmt, values) ==
  Joined([i \in DOMAIN fmt |->
    [j \in 1..fmt[i] |-> IF j <= Len(values[i]) THEN values[i][j] ELSE {}]])

\* Mutant: temperature and time stamp in the other order.
PackStateSwapped(c) ==
  StructPack(StateFmt, c.gyro_rps \o c.accel_mps2 \o c.mag_uT \o c.t_us \o c.temp_c \o c.valid
                         \o c.vbat \o c.rc_proto \o c.rc_len \o c.rc_raw)

PackState(c) ==
  StructPack(StateFmt, c.gyro_rps \o c.accel_mps2 \o c.mag_uT \o c.temp_c \o c.t_us \o c.valid
                         \o c.vbat \o c.rc_proto \o c.rc_len \o c.rc_raw)

UnpackOut(body) ==
  LET f == Cut(body, FwOutFmt)
  IN  [mot |-> SubSeq(f, 1, 4), roll_est |-> <<f[5]>>, pitch_est |-> <<f[6]>>, yaw_est |-> <<f[7]>>,
       armed |-> <<f[8]>>, failsafe |-> <<f[9]>>, led_mode |-> <<f[10]>>, imu_valid |-> <<f[11]>>,
       tick |-> <<f[12]>>, sat_shift |-> <<f[13]>>]

PackHello(c) == StructPack(HelloFmt, c.dt_us \o c.sizes)

UnpackHello(body) ==
  LET f == Cut(body, HelloFmt) IN [dt_us |-> <<f[1]>>, sizes |-> Tail(f)]

-----------------------------------------------------------------------------
(* The handshake.                                                          *)

kSilDtUs == 1000

\* Numbers below 2^16, in 32 bits.
Hello(dt_us, sizes) == [dt_us |-> <<ToBytes(Word(dt_us, 16), 4)>>,
                        sizes |-> [i \in DOMAIN sizes |-> ToBytes(Word(sizes[i], 16), 4)]]

kHelloSizes == <<Total(Extents(SilImu)), Total(Extents(SilRc)), Total(Extents(SilPwm)),
                 Total(Extents(StateRc)), Total(Extents(SilOut)), Total(Extents(SilTelem)), HdrSize>>

HelloSizesPy == <<Total(ImuFmt), Total(RcFmt), Total(PwmFmt), Total(StateFmt), Total(FwOutFmt),
                  Total(TelemFmt), Total(HdrFmt)>>

\* Mutant: the last of the sizes is not compared.
HelloMatchesSix(local, peer) ==
  local.dt_us = peer.dt_us /\ \A i \in 1..6 : local.sizes[i] = peer.sizes[i]

HelloMatches(local, peer) ==
  local.dt_us = peer.dt_us /\ \A i \in 1..7 : local.sizes[i] = peer.sizes[i]

FwAcceptsAck(fields)      == HelloMatches(Hello(kSilDtUs, kHelloSizes), fields)
PlantAcceptsHello(fields) == fields = Hello(kSilDtUs, HelloSizesPy)

-----------------------------------------------------------------------------
(* What is sent and read.                                                  *)

MsgType == <<"HELLO", "ACK", "STATE", "FW_OUT", "BYE">>
TypeWord(type) == Word(CHOOSE i \in DOMAIN MsgType : MsgType[i] = type, 8)

FromFirmware(m) == m.type \in {"HELLO", "FW_OUT"}

\* The struct a message carries, and its fields: so many scalars of so many bytes.
ContentOf(type) == CASE type \in {"HELLO", "ACK"} -> SilHello
                     [] type = "STATE"  -> StateRc
                     [] type = "FW_OUT" -> SilOut
                     [] type = "BYE"    -> <<>>

Fills(struct, c) ==
  /\ c \in [Names(struct) -> Seq(Seq(Byte))]
  /\ \A i \in DOMAIN struct : c[struct[i].name] \in [1..struct[i].count -> [1..struct[i].width -> Byte]]

ASSUME MessagesAssumption ==
  \A m \in Messages : /\ m.type \in {"HELLO", "ACK", "STATE", "FW_OUT", "BYE"}
                      /\ m.seq \subseteq Ones
                      /\ Fills(ContentOf(m.type), m.fields)

ASSUME DamageAssumption == (\A flip \in Flips : flip \in Byte) /\ MaxHits \in Nat

\* The message's bytes; a BYE here is the plant's.
Bytes(m) ==
  LET payload == CASE m.type = "HELLO"  -> Memory(SilHello, m.fields)
                   [] m.type = "ACK"    -> PackHello(m.fields)
                   [] m.type = "STATE"  -> PackState(m.fields)
                   [] m.type = "FW_OUT" -> Memory(SilOut, m.fields)
                   [] m.type = "BYE"    -> <<>>
  IN  IF FromFirmware(m) THEN PackMsg(TypeWord(m.type), m.seq, payload)
      ELSE PackMsgPy(TypeWord(m.type), m.seq, payload)

\* The payload as the message's receiver reads it.
FieldsOf(type, body) ==
  CASE type = "HELLO"  -> UnpackHello(body)
    [] type = "ACK"    -> StructOf(SilHello, body)
    [] type = "STATE"  -> StructOf(StateRc, body)
    [] type = "FW_OUT" -> UnpackOut(body)
    [] type = "BYE"    -> <<>>

\* What comes after a message of each type, in a run of the lockstep.
Follows(type) == CASE type = "none"   -> {"HELLO"}
                   [] type = "HELLO"  -> {"ACK"}
                   [] type = "ACK"    -> {"STATE"}
                   [] type = "STATE"  -> {"FW_OUT"}
                   [] type = "FW_OUT" -> {"STATE", "BYE"}
                   [] type = "BYE"    -> {}

Unread == [read |-> FALSE]

Init ==
  /\ sent = [type |-> "none"] /\ line = <<>> /\ hits = 0
  /\ rx = Times(256, {}) /\ got = Unread

\* Does the receiver go on after what it has read?
GoesOn ==
  /\ got.read /\ got.cpp.ok /\ got.py.ok
  /\ sent.type = "HELLO" => PlantAcceptsHello(got.fields)
  /\ sent.type = "ACK" => FwAcceptsAck(got.fields)

Send(m) ==
  /\ sent.type = "none" \/ GoesOn
  /\ m.type \in Follows(sent.type)
  /\ sent' = m /\ line' = Bytes(m) /\ hits' = 0
  /\ got' = Unread
  /\ UNCHANGED rx

Damage ==
  /\ line # <<>> /\ ~got.read /\ hits < MaxHits
  /\ hits' = hits + 1
  /\ \/ \E k \in DOMAIN line, flip \in Flips : line' = [line EXCEPT ![k] = SymDiff(@, flip)]
     \/ \E k \in 1..(Len(line) - 1) : line' = SubSeq(line, 1, k)
     \/ \E flip \in Flips : line' = Append(line, flip)
  /\ UNCHANGED <<sent, rx, got>>

\* recv() puts the bytes at the front of rx_, and unpackMsg looks at them there;
\* the plant's buffer is new.  Here both read each message.
Receive ==
  /\ line # <<>> /\ ~got.read
  /\ LET buf == line \o SubSeq(rx, Len(line) + 1, Len(rx))
         cpp == UnpackMsg(buf, Len(line))
         py  == UnpackMsgPy(line)
         own == IF FromFirmware(sent) THEN py ELSE cpp
     IN  /\ rx' = IF FromFirmware(sent) THEN rx ELSE buf
         /\ got' = [read |-> TRUE, cpp |-> cpp, py |-> py,
                    fields |-> IF own.ok THEN FieldsOf(sent.type, own.body) ELSE <<>>]
  /\ UNCHANGED <<sent, line, hits>>

Next == (\E m \in Messages : Send(m)) \/ Damage \/ Receive

Spec == Init /\ [][Next]_vars

-----------------------------------------------------------------------------
\* The two implementations, one with a table and one bit by bit, one in a
\* reused buffer and one in a new one, refuse the same messages and find the
\* same type, sequence number and body in the others.
SameVerdict == got.read => got.cpp = got.py

\* A message is accepted if and only if its bytes are at the front of what has
\* arrived: a message that was cut, or in which a byte was changed, is refused,
\* wherever that is, even in the field that says how long the message is.
OnlyIntactIsAccepted == got.read => (got.py.ok <=> IsPrefix(Bytes(sent), line))

\* Each field of an accepted message is read where the other language has
\* written it, and the header says what was sent.
ContentSurvives ==
  got.read /\ got.cpp.ok /\ got.py.ok =>
    /\ got.fields = (IF sent.type = "BYE" THEN <<>> ELSE sent.fields)
    /\ got.py.type = TypeWord(sent.type) /\ got.py.seq = sent.seq

\* The handshake goes on between equal builds, and stops between builds whose
\* tick or whose size of any one struct differ, whichever side sees it.
HandshakeTellsBuilds ==
  got.read /\ hits = 0 /\ sent.type \in {"HELLO", "ACK"} =>
    (GoesOn <=> sent.fields = Hello(kSilDtUs, HelloSizesPy))

=============================================================================
