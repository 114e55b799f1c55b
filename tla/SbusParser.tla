----------------------------- MODULE SbusParser -----------------------------
(***************************************************************************)
(* SbusParser (firmware/main/flight/rc_parse.cpp): a byte stream, fed in   *)
(* chunks of any size, in which frames are found by header and by what a   *)
(* plausible frame looks like.                                             *)
(*                                                                         *)
(* A byte is one of three kinds, by what the parser looks at:              *)
(*   "H"  0x0F, the header; as the flags byte, one with rx_failsafe set    *)
(*   "P"  another byte whose upper nibble is zero                          *)
(*   "N"  a byte whose upper nibble is not zero                            *)
(* A frame is the header, the channels (one byte each here), the flags and *)
(* the footer, which the code does not check.                              *)
(***************************************************************************)
EXTENDS Integers, Sequences, SequencesExt, FiniteSets

CONSTANTS FrameLen,   \* kSbusLen: header, channels, flags, footer
          Buf,        \* kBuf
          MaxStream   \* bound on the bytes received since the last reset

ASSUME FrameAssumption == FrameLen \in Nat /\ FrameLen > 4
ASSUME BufAssumption == Buf \in Nat /\ Buf >= FrameLen /\ MaxStream \in Nat

VARIABLES
  buf,      \* buf_[0 .. n_ - 1]
  frames,   \* frames_
  out,      \* what the last feed() returned: no sample, or its rx_failsafe
  stream    \* history: every byte received since the last reset

vars == <<buf, frames, out, stream>>

Byte == {"H", "P", "N"}

\* Between two calls the residual is less than a frame.
TypeOK ==
  /\ buf \in Seq(Byte) /\ Len(buf) < FrameLen
  /\ frames \in Nat
  /\ out \in {"none", "ok", "failsafe"}
  /\ stream \in Seq(Byte)

-----------------------------------------------------------------------------
\* There is room for a frame in bytes s from position p on.
Fits(s, p) == p + FrameLen <= Len(s) + 1

\* decodeFrame at position p of s: header, flags, stuck guard.
Decodes(s, p) ==
  /\ s[p] = "H"
  /\ s[p + FrameLen - 2] # "N"
  /\ \E i \in 2..(FrameLen - 3) : s[p + i] # s[p + 1]

\* The rx_failsafe bit of the frame at position p of s.
Sample(s, p) == IF s[p + FrameLen - 2] = "H" THEN "failsafe" ELSE "ok"

From(s, p) == SubSeq(s, p, Len(s))

\* Mutant: a candidate that fails takes its whole length with it.
ScanSkipsFrame(s) ==
  LET scan[p \in 1..(Len(s) + 1)] ==
        IF ~Fits(s, p) THEN [taken |-> {}, rest |-> p]
        ELSE IF Decodes(s, p)
          THEN [scan[p + FrameLen] EXCEPT !.taken = @ \cup {p}]
          ELSE scan[IF s[p] = "H" THEN p + FrameLen ELSE p + 1]
  IN  scan

\* Mutant: the loop stops with one whole frame still in the buffer.
ScanStopsEarly(s) ==
  LET scan[p \in 1..(Len(s) + 1)] ==
        IF ~Fits(s, p + 1) THEN [taken |-> {}, rest |-> p]
        ELSE IF Decodes(s, p)
          THEN [scan[p + FrameLen] EXCEPT !.taken = @ \cup {p}]
          ELSE scan[p + 1]
  IN  scan

\* The scan loop from position p of s: take a frame whole, or skip one byte
\* and look again. It yields where it took a frame, and where it stopped.
Scan(s) ==
  LET scan[p \in 1..(Len(s) + 1)] ==
        IF ~Fits(s, p) THEN [taken |-> {}, rest |-> p]
        ELSE IF Decodes(s, p)
          THEN [scan[p + FrameLen] EXCEPT !.taken = @ \cup {p}]
          ELSE scan[p + 1]
  IN  scan

-----------------------------------------------------------------------------
Init == buf = <<>> /\ frames = 0 /\ out = "none" /\ stream = <<>>

\* A burst that is empty or larger than the buffer resets the parser.
FeedRejected ==
  /\ buf' = <<>> /\ frames' = 0
  /\ out' = "none"
  /\ stream' = <<>>

\* Each frame's sample overwrites the one before it.
LastSample(s, taken) == IF taken = {} THEN "none" ELSE Sample(s, Max(taken))

FeedFrom(kept, count, history, data) ==
  LET bytes == kept \o data
      scan == Scan(bytes)[1]
  IN  /\ buf' = From(bytes, scan.rest)
      /\ frames' = count + Cardinality(scan.taken)
      /\ out' = LastSample(bytes, scan.taken)
      /\ stream' = history \o data

\* Mutant: a burst that just fits drops the residual.
FeedDropsEarly(data) ==
  \/ /\ Len(buf) + Len(data) < Buf
     /\ FeedFrom(buf, frames, stream, data)
  \/ /\ Len(buf) + Len(data) >= Buf
     /\ FeedFrom(<<>>, 0, <<>>, data)

\* feed(data, len): a burst that does not fit behind the residual drops it.
Feed(data) ==
  \/ /\ Len(buf) + Len(data) <= Buf
     /\ FeedFrom(buf, frames, stream, data)
  \/ /\ Len(buf) + Len(data) > Buf
     /\ FeedFrom(<<>>, 0, <<>>, data)

Receive ==
  \E len \in 1..Buf :
    /\ Len(stream) + len <= MaxStream
    /\ \E data \in [1..len -> Byte] : Feed(data)

Next == Receive \/ FeedRejected

Spec == Init /\ [][Next]_vars

-----------------------------------------------------------------------------
(* The reference: what the stream means, however it was cut into chunks.   *)

\* Position p of s is not inside a frame that starts earlier, at one of set.
Free(set, p) == \A q \in set : q < p => q + FrameLen <= p

\* set is where the frames of s start: a frame starts wherever one decodes
\* that no earlier frame covers.
AreStarts(set, s) ==
  \A p \in 1..Len(s) : p \in set <=> Fits(s, p) /\ Decodes(s, p) /\ Free(set, p)

Starts(s) ==
  CHOOSE set \in SUBSET {p \in 1..Len(s) : Fits(s, p) /\ Decodes(s, p)} :
    AreStarts(set, s)

\* The first position on which no frame can be decided yet.
Undecided(s) ==
  Min({p \in 1..(Len(s) + 1) : ~Fits(s, p) /\ Free(Starts(s), p)})

\* Chunking is invisible: the frames counted, and the bytes kept for later,
\* are those of the whole stream read in one piece.
ChunkingIsInvisible ==
  /\ frames = Cardinality(Starts(stream))
  /\ buf = From(stream, Undecided(stream))

\* A burst never costs the bytes before it unless it is empty or longer than
\* Buf - FrameLen + 1: the SIL's reads of at most 32 bytes never do.
ShortBurstsLoseNothing ==
  [][\/ IsPrefix(stream, stream')
     \/ stream' = <<>>
     \/ Len(stream') > Buf - FrameLen + 1]_vars

\* feed() returns one sample, its last: yet as long as a read is no longer than
\* a frame, as the SIL's are, each frame's own sample is returned, and a
\* receiver failsafe flagged in one is not overwritten by the next.
NoFrameIsOverwritten ==
  [][IsPrefix(stream, stream') /\ Len(stream') - Len(stream) <= FrameLen =>
       \A p \in Starts(stream') \ Starts(stream) : out' = Sample(stream', p)]_vars

=============================================================================
