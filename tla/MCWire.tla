------------------------------- MODULE MCWire -------------------------------
(***************************************************************************)
(* Wire with one message of each kind: fields all of whose bytes differ,   *)
(* the smallest and the largest sequence numbers of 32 bits, and handshakes*)
(* of builds that differ in one number.                                    *)
(***************************************************************************)
EXTENDS Wire

\* Scalar s of member i, byte by byte.
Filled(struct) ==
  [name \in Names(struct) |->
     LET i == CHOOSE j \in DOMAIN struct : struct[j].name = name
     IN  [s \in 1..struct[i].count |->
            [j \in 1..struct[i].width |-> Word((20 * i + 5 * s + j) % 256, 8)]]]

Builds == {Hello(1000, HelloSizesPy), Hello(2000, HelloSizesPy)}
            \cup {Hello(1000, [HelloSizesPy EXCEPT ![i] = @ + 4]) : i \in 1..7}

AllMessages ==
  [type : {"HELLO", "ACK"}, seq : {{}}, fields : Builds]
    \cup [type : {"STATE"}, seq : {{}, 0..31}, fields : {Filled(StateRc)}]
    \cup [type : {"FW_OUT"}, seq : {{0}}, fields : {Filled(SilOut)}]
    \cup [type : {"BYE"}, seq : {{}}, fields : {<<>>}]

SomeFlips == {{0}, {7}, 0..7}
=============================================================================
