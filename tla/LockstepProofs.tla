--------------------------- MODULE LockstepProofs ---------------------------
(***************************************************************************)
(* Theorems about the lockstep, for every number of ticks and every set of *)
(* faults: what a row of the log pairs, what an exit code and a log say of *)
(* a run, and who is left behind.                                          *)
(***************************************************************************)
EXTENDS Lockstep, Functions, TLAPS

-----------------------------------------------------------------------------
(* The inductive invariant.                                                *)

\* The plant's places before it has seen the run through, and after.
Loop == {"accept", "hello", "tick", "out"}
Left == {"cleanup", "reap", "exited"}

\* What p has yet to receive.
Msgs(p) == Range(queue[p])

\* The FW_OUTs that the plant would still accept.
Fresh == {m \in Msgs("plant") : m.type = "FW_OUT" /\ m.seq > last_out_seq}

\* The last STATE that may have been sent.
LastSent == IF pc["plant"] \in {"accept", "hello", "tick"} THEN tick - 1 ELSE tick

\* While the plant runs, it has a row per tick it finished, and at most one
\* FW_OUT is under way that it would accept: the answer to this tick's STATE.
PairInv ==
  /\ RowsPairStates
  /\ tick - 1 <= last_state_seq /\ last_state_seq <= LastSent
  /\ \A m \in Msgs("firmware") : m.type = "STATE" => m.seq <= LastSent /\ m.seq < NTicks
  /\ pc["plant"] \in Loop =>
       /\ Len(rows) = tick /\ tick < NTicks
       /\ pc["firmware"] = "send" => last_state_seq = tick
       /\ \A m \in Fresh : /\ m.seq = seq - 1 /\ m.of = tick
                           /\ last_state_seq = tick /\ pc["firmware"] # "send"

\* The firmware numbers its messages one per STATE, after its HELLO; what it
\* sent has a number it has passed.
CountInv ==
  /\ seq <= last_state_seq + 2
  /\ pc["firmware"] \in {"connect", "hello", "ack"} => last_state_seq = -1
  /\ pc["firmware"] \in {"connect", "hello", "send"} => seq <= last_state_seq + 1
  /\ \A m \in Msgs("plant") : m.type = "FW_OUT" => m.seq < seq

\* Only an end that its process has left is closed, and a BYE, or a firmware
\* on its way out with code 0, is a sign of a plant that has left its loop.
EndInv ==
  /\ end["plant"] = "closed" => pc["plant"] \in {"reap", "exited"}
  /\ end["firmware"] = "closed" => pc["firmware"] = "exited"
  /\ "firmware" \in reset => end["plant"] = "closed"
  /\ \A p \in Process : \A m \in Msgs(p) : m.type = "BYE" => pc["plant"] \in Left
  /\ pc["firmware"] \in {"bye", "close"} => pc["plant"] \in Left
  /\ FirmwareCleanMeansPlantLeft

\* The plant decides between a complete and an aborted log when it leaves: it
\* lacks a row at most, and then only as the firmware has ended.
LogInv ==
  /\ pc["plant"] \notin Left => code["plant"] = Running
  /\ pc["plant"] = "bye" => \/ Len(rows) = NTicks
                            \/ Len(rows) = NTicks - 1 /\ end["firmware"] = "closed"
  /\ ~aborted => pc["plant"] \in Left /\ Len(rows) >= NTicks - 1
  /\ CleanMeansComplete
  /\ log = "complete" => ~aborted
  /\ pc["plant"] \in {"reap", "exited"} /\ log = "open" => code["plant"] = Killed

IInv == TypeOK /\ PairInv /\ CountInv /\ EndInv /\ LogInv /\ NoOrphan

-----------------------------------------------------------------------------
(* Sequences: what they hold after a message is taken, added or replaced.  *)

LEMMA TailHolds ==
  ASSUME NEW S, NEW s \in Seq(S), s # <<>>
  PROVE  /\ Tail(s) \in Seq(S) /\ Range(Tail(s)) \subseteq Range(s)
         /\ Head(s) \in Range(s) /\ Head(s) \in S
<1>1. Len(s) \in Nat \ {0} /\ DOMAIN s = 1..Len(s)
  OBVIOUS
<1>2. /\ Tail(s) \in Seq(S) /\ DOMAIN Tail(s) = 1..(Len(s) - 1)
      /\ \A i \in 1..(Len(s) - 1) : Tail(s)[i] = s[i + 1]
  BY <1>1
<1>3. Head(s) = s[1] /\ 1 \in DOMAIN s
  BY <1>1
<1>4. Range(Tail(s)) \subseteq Range(s)
  BY <1>1, <1>2 DEF Range
<1> QED
  BY <1>2, <1>3, <1>4 DEF Range

LEMMA AppendHolds ==
  ASSUME NEW S, NEW s \in Seq(S), NEW x \in S
  PROVE  /\ Append(s, x) \in Seq(S) /\ Range(Append(s, x)) \subseteq Range(s) \cup {x}
         /\ Len(Append(s, x)) = Len(s) + 1
         /\ \A i \in 1..Len(s) : Append(s, x)[i] = s[i]
         /\ Append(s, x)[Len(s) + 1] = x
<1>1. /\ Append(s, x) \in Seq(S) /\ DOMAIN Append(s, x) = 1..(Len(s) + 1)
      /\ Len(Append(s, x)) = Len(s) + 1
      /\ \A i \in 1..Len(s) : Append(s, x)[i] = s[i]
      /\ Append(s, x)[Len(s) + 1] = x
      /\ Len(s) \in Nat /\ DOMAIN s = 1..Len(s)
  OBVIOUS
<1>2. Range(Append(s, x)) \subseteq Range(s) \cup {x}
  BY <1>1 DEF Range
<1> QED
  BY <1>1, <1>2

LEMMA ReplaceHolds ==
  ASSUME NEW S, NEW s \in Seq(S), NEW x \in S, NEW k \in DOMAIN s
  PROVE  /\ [s EXCEPT ![k] = x] \in Seq(S)
         /\ Range([s EXCEPT ![k] = x]) \subseteq Range(s) \cup {x}
<1>1. Len(s) \in Nat /\ DOMAIN s = 1..Len(s)
  OBVIOUS
<1>2. [s EXCEPT ![k] = x] \in [1..Len(s) -> S]
  BY <1>1
<1>3. [s EXCEPT ![k] = x] \in Seq(S)
  BY <1>1, <1>2
<1>4. Range([s EXCEPT ![k] = x]) \subseteq Range(s) \cup {x}
  BY <1>1 DEF Range
<1> QED
  BY <1>3, <1>4

-----------------------------------------------------------------------------
(* What the operations on the socket do to the messages under way.         *)

LEMMA MsgsTyped ==
  ASSUME TypeOK, NEW p \in Process
  PROVE  Msgs(p) \subseteq Message
<1>1. queue[p] \in Seq(Message)
  BY DEF TypeOK
<1>2. \A i \in DOMAIN queue[p] : queue[p][i] \in Message
  BY <1>1
<1> QED
  BY <1>2 DEF Msgs, Range

\* Nothing new is under way to either process.
Quiet == /\ queue' \in [Process -> Seq(Message)]
         /\ \A q \in Process : Msgs(q)' \subseteq Msgs(q)

\* Nothing new is under way but m, to p.
Brings(p, m) == /\ queue' \in [Process -> Seq(Message)]
                /\ \A q \in Process : Msgs(q)' \subseteq Msgs(q) \cup {m}
                /\ \A q \in Process \ {p} : Msgs(q)' \subseteq Msgs(q)

LEMMA UnchangedIsQuiet ==
  ASSUME TypeOK, UNCHANGED queue
  PROVE  Quiet
BY DEF TypeOK, Quiet, Msgs

LEMMA TakeIsQuiet ==
  ASSUME TypeOK, NEW p \in Process, queue[p] # <<>>,
         queue' = [queue EXCEPT ![p] = Tail(@)]
  PROVE  Quiet /\ Received(p) \in Msgs(p) /\ Received(p) \in Message
<1>1. queue \in [Process -> Seq(Message)] /\ queue[p] \in Seq(Message)
  BY DEF TypeOK
<1>2. /\ Tail(queue[p]) \in Seq(Message) /\ Range(Tail(queue[p])) \subseteq Range(queue[p])
      /\ Head(queue[p]) \in Range(queue[p]) /\ Head(queue[p]) \in Message
  BY <1>1, TailHolds
<1>3. queue'[p] = Tail(queue[p]) /\ \A q \in Process \ {p} : queue'[q] = queue[q]
  BY <1>1
<1>4. queue' \in [Process -> Seq(Message)]
  BY <1>1, <1>2
<1> QED
  BY <1>2, <1>3, <1>4 DEF Quiet, Msgs, Received

LEMMA SendBrings ==
  ASSUME TypeOK, NEW p \in Process, NEW m \in Message, queue' = Sent(p, m)
  PROVE  Brings(Peer(p), m)
<1>1. queue \in [Process -> Seq(Message)] /\ Peer(p) \in Process
  BY DEF TypeOK, Peer, Process
<1>2. /\ Append(queue[Peer(p)], m) \in Seq(Message)
      /\ Range(Append(queue[Peer(p)], m)) \subseteq Range(queue[Peer(p)]) \cup {m}
  BY <1>1, AppendHolds
<1>3. /\ queue'[Peer(p)] = Append(queue[Peer(p)], m)
      /\ \A q \in Process \ {Peer(p)} : queue'[q] = queue[q]
      /\ queue' \in [Process -> Seq(Message)]
  BY <1>1, <1>2 DEF Sent
<1> QED
  BY <1>2, <1>3 DEF Brings, Msgs

LEMMA MsgIsMessage ==
  ASSUME NEW type \in Types, NEW s \in Nat, NEW of \in Int
  PROVE  /\ Msg(type, s, of) \in Message
         /\ Msg(type, s, of).type = type /\ Msg(type, s, of).seq = s /\ Msg(type, s, of).of = of
BY DEF Msg, Message

\* Closing an end can reset the peer only.
LEMMA CloseIsQuiet ==
  ASSUME TypeOK, NEW p \in Process, Close(p)
  PROVE  /\ Quiet
         /\ end' = [end EXCEPT ![p] = "closed"]
         /\ end'[p] = "closed" /\ end'[Peer(p)] = end[Peer(p)]
         /\ reset' \subseteq reset \cup {Peer(p)}
<1>1. queue \in [Process -> Seq(Message)] /\ Peer(p) \in Process
  BY DEF TypeOK, Peer, Process
<1>2. queue' = [queue EXCEPT ![p] = <<>>]
  BY DEF Close
<1>3. queue'[p] = <<>> /\ \A q \in Process \ {p} : queue'[q] = queue[q]
  BY <1>1, <1>2
<1>4. queue' \in [Process -> Seq(Message)]
  BY <1>1, <1>2
<1>5. Range(<<>>) = {}
  BY DEF Range
<1>6. Quiet
  BY <1>3, <1>4, <1>5 DEF Quiet, Msgs
<1>7. end'[p] = "closed" /\ end'[Peer(p)] = end[Peer(p)]
  BY <1>1 DEF Close, TypeOK, Peer, Process
<1> QED
  BY <1>6, <1>7 DEF Close

-----------------------------------------------------------------------------
(* Frames: what of the invariant a step keeps by leaving things alone.     *)

LEMMA PairFrame ==
  ASSUME TypeOK, PairInv, UNCHANGED <<rows, tick, last_out_seq, seq, last_state_seq>>,
         \A m \in Msgs("plant")' : m.type = "FW_OUT" => m \in Msgs("plant"),
         \A m \in Msgs("firmware")' : m.type = "STATE" => m \in Msgs("firmware"),
         pc'["plant"] \in Loop =>
           pc["plant"] \in Loop /\ (pc["plant"] = "out" => pc'["plant"] = "out"),
         pc'["firmware"] = "send" => pc["firmware"] = "send"
  PROVE  PairInv'
<1>1. RowsPairStates'
  BY DEF PairInv, RowsPairStates
<1>2. LastSent <= LastSent' /\ LastSent \in Int /\ LastSent' \in Int
  BY DEF LastSent, Loop, TypeOK
<1>3. tick' - 1 <= last_state_seq' /\ last_state_seq' <= LastSent'
  BY <1>2 DEF PairInv, TypeOK
<1>4. ASSUME NEW m \in Msgs("firmware")', m.type = "STATE"
      PROVE  m.seq <= LastSent' /\ m.seq < NTicks
  <2>1. m.seq <= LastSent /\ m.seq < NTicks /\ m \in Msgs("firmware")
    BY <1>4 DEF PairInv
  <2>2. m.seq \in Nat
    BY <2>1, MsgsTyped DEF Message, Process
  <2> QED
    BY <1>2, <2>1, <2>2
<1>5. Fresh' \subseteq Fresh
  BY DEF Fresh
<1> QED
  BY <1>1, <1>3, <1>4, <1>5 DEF PairInv

LEMMA CountFrame ==
  ASSUME CountInv, UNCHANGED <<seq, last_state_seq>>,
         \A m \in Msgs("plant")' : m.type = "FW_OUT" => m \in Msgs("plant"),
         pc'["firmware"] \in {"connect", "hello", "ack"} =>
           pc["firmware"] \in {"connect", "hello", "ack"},
         pc'["firmware"] \in {"connect", "hello", "send"} =>
           pc["firmware"] \in {"connect", "hello", "send"}
  PROVE  CountInv'
BY DEF CountInv

LEMMA EndFrame ==
  ASSUME EndInv, pc["plant"] \in Left => pc'["plant"] \in Left,
         pc["plant"] \in {"reap", "exited"} => pc'["plant"] \in {"reap", "exited"},
         pc["firmware"] = "exited" => pc'["firmware"] = "exited",
         end'["plant"] = "closed" => end["plant"] = "closed" \/ pc'["plant"] \in {"reap", "exited"},
         end'["firmware"] = "closed" => end["firmware"] = "closed" \/ pc'["firmware"] = "exited",
         end["plant"] = "closed" => end'["plant"] = "closed",
         "firmware" \in reset' => "firmware" \in reset \/ end'["plant"] = "closed",
         \A p \in Process : \A m \in Msgs(p)' :
           m.type = "BYE" => m \in Msgs(p) \/ pc'["plant"] \in Left,
         pc'["firmware"] \in {"bye", "close"} =>
           pc["firmware"] \in {"bye", "close"} \/ pc'["plant"] \in Left,
         code'["firmware"] = Clean => code["firmware"] = Clean \/ pc["plant"] \in Left
  PROVE  EndInv'
BY DEF EndInv, FirmwareCleanMeansPlantLeft, Process, Left

LEMMA LogFrame ==
  ASSUME LogInv, UNCHANGED <<rows, aborted, log>>, code'["plant"] = code["plant"],
         pc["plant"] \in Left => pc'["plant"] \in Left,
         pc'["plant"] \in {"reap", "exited"} => pc["plant"] \in {"reap", "exited"},
         pc'["plant"] = "bye" => pc["plant"] = "bye",
         end["firmware"] = "closed" => end'["firmware"] = "closed"
  PROVE  LogInv'
BY DEF LogInv, CleanMeansComplete

-----------------------------------------------------------------------------
(* Where the processes go.                                                 *)

Places == {"accept", "hello", "tick", "out", "bye", "cleanup", "reap",
           "connect", "ack", "state", "send", "close", "exited"}
Codes == {Running, Clean, Traceback, Proto, Timeout, Numerical, Killed}
Ends == {"none", "listening", "pending", "open", "closed"}

ControlTyped == pc \in [Process -> Places] /\ code \in [Process -> Codes]
SocketTyped == end \in [Process -> Ends] /\ queue \in [Process -> Seq(Message)]
                 /\ reset \subseteq Process
DataTyped ==
  /\ match \in BOOLEAN /\ faults \subseteq FaultKinds /\ aborted \in BOOLEAN
  /\ rows \in Seq(Int)
  /\ tick \in 0..NTicks /\ last_out_seq \in -1..seq
  /\ log \in {"none", "open", "complete", "aborted"}
  /\ seq \in 0..NTicks + 1 /\ last_state_seq \in -1..NTicks - 1

LEMMA TypeParts == TypeOK <=> ControlTyped /\ SocketTyped /\ DataTyped
BY DEF TypeOK, ControlTyped, SocketTyped, DataTyped, Places, Codes, Ends

LEMMA TypePartsNext == ControlTyped' /\ SocketTyped' /\ DataTyped' => TypeOK'
BY DEF TypeOK, ControlTyped, SocketTyped, DataTyped, Places, Codes, Ends

LEMMA GotoGoes ==
  ASSUME TypeOK, NEW p \in Process, NEW l \in Places, Goto(p, l)
  PROVE  /\ ControlTyped' /\ code' = code
         /\ pc'[p] = l /\ pc'[Peer(p)] = pc[Peer(p)]
BY TypeParts DEF ControlTyped, Goto, Process, Peer

LEMMA LeaveGoes ==
  ASSUME TypeOK, NEW c \in Codes, Leave(c)
  PROVE  /\ ControlTyped'
         /\ pc'["plant"] = "cleanup" /\ pc'["firmware"] = pc["firmware"]
         /\ code'["plant"] = c /\ code'["firmware"] = code["firmware"]
BY TypeParts DEF ControlTyped, Leave, Process, Places

LEMMA ReturnGoes ==
  ASSUME TypeOK, NEW c \in Codes, Return(c)
  PROVE  /\ ControlTyped' /\ SocketTyped' /\ Quiet
         /\ pc'["firmware"] = "exited" /\ pc'["plant"] = pc["plant"]
         /\ code'["firmware"] = c /\ code'["plant"] = code["plant"]
         /\ end'["firmware"] = "closed" /\ end'["plant"] = end["plant"]
         /\ reset' \subseteq reset \cup {"plant"}
<1>1. Close("firmware") /\ "firmware" \in Process /\ Peer("firmware") = "plant"
  BY DEF Return, Process, Peer
<1>2. /\ Quiet /\ end' = [end EXCEPT !["firmware"] = "closed"]
      /\ end'["firmware"] = "closed" /\ end'["plant"] = end["plant"]
      /\ reset' \subseteq reset \cup {"plant"}
  BY <1>1, CloseIsQuiet
<1>3. SocketTyped'
  BY <1>2, TypeParts DEF SocketTyped, Quiet, Ends, Process
<1>4. /\ ControlTyped'
      /\ pc'["firmware"] = "exited" /\ pc'["plant"] = pc["plant"]
      /\ code'["firmware"] = c /\ code'["plant"] = code["plant"]
  BY TypeParts DEF Return, ControlTyped, Process, Places
<1> QED
  BY <1>2, <1>3, <1>4

-----------------------------------------------------------------------------
(* The plant's steps.                                                      *)

\* Any of the plant's ways out of its loop that touches nothing else.
LEMMA PlantLeaves ==
  ASSUME IInv, pc["plant"] \in Loop \cup {"bye"}, NEW c \in Codes \ {Clean}, Leave(c),
         UNCHANGED <<sockvars, given, plantvars, fwvars>>
  PROVE  IInv'
<1>1. TypeOK
  BY DEF IInv
<1>2. /\ ControlTyped'
      /\ pc'["plant"] = "cleanup" /\ pc'["firmware"] = pc["firmware"]
      /\ code'["plant"] = c /\ code'["firmware"] = code["firmware"]
  BY <1>1, LeaveGoes
<1> USE DEF sockvars, plantvars, fwvars
<1>3. Quiet
  BY <1>1, UnchangedIsQuiet
<1>4. TypeOK'
  BY <1>1, <1>2, TypeParts, TypePartsNext DEF given, SocketTyped, DataTyped
<1> USE DEF Quiet, Process
<1>5. PairInv'
  BY <1>1, <1>2, <1>3, PairFrame DEF IInv, Loop
<1>6. CountInv'
  BY <1>2, <1>3, CountFrame DEF IInv
<1>7. EndInv'
  BY <1>2, <1>3, EndFrame DEF IInv, Loop, Left
<1>8. LogInv'
  BY <1>2 DEF IInv, LogInv, CleanMeansComplete, Loop, Left
<1>9. NoOrphan'
  BY <1>2 DEF NoOrphan
<1> QED
  BY <1>4, <1>5, <1>6, <1>7, <1>8, <1>9 DEF IInv

LEMMA PlantAcceptStep ==
  ASSUME IInv, PlantAccept
  PROVE  IInv'
<1>1. TypeOK /\ pc["plant"] = "accept"
  BY DEF IInv, PlantAccept
<1>2. /\ ControlTyped' /\ code' = code
      /\ pc'["plant"] = "hello" /\ pc'["firmware"] = pc["firmware"]
  BY <1>1, GotoGoes DEF PlantAccept, Process, Places, Peer
<1>3. end'["plant"] = "open" /\ end'["firmware"] = end["firmware"] /\ SocketTyped' /\ Quiet
  BY <1>1, TypeParts, UnchangedIsQuiet DEF PlantAccept, SocketTyped, Process, Ends
<1>4. TypeOK'
  BY <1>1, <1>2, <1>3, TypeParts, TypePartsNext
     DEF PlantAccept, given, plantvars, fwvars, DataTyped
<1> USE DEF PlantAccept, plantvars, fwvars, Quiet, Process
<1>5. PairInv'
  BY <1>1, <1>2, <1>3, PairFrame DEF IInv, Loop
<1>6. CountInv'
  BY <1>1, <1>2, <1>3, CountFrame DEF IInv
<1>7. EndInv'
  BY <1>1, <1>2, <1>3, EndFrame DEF IInv, Left
<1>8. LogInv'
  BY <1>1, <1>2, <1>3, LogFrame DEF IInv, Left
<1>9. NoOrphan'
  BY <1>2 DEF NoOrphan
<1> QED
  BY <1>4, <1>5, <1>6, <1>7, <1>8, <1>9 DEF IInv

LEMMA PlantAcceptTimeoutStep ==
  ASSUME IInv, PlantAcceptTimeout
  PROVE  IInv'
BY PlantLeaves DEF PlantAcceptTimeout, Loop, Codes, Timeout, Clean

LEMMA PlantNoHelloStep ==
  ASSUME IInv, PlantNoHello
  PROVE  IInv'
BY PlantLeaves DEF PlantNoHello, Loop, Codes, Proto, Clean

LEMMA PlantTakeHelloStep ==
  ASSUME IInv, PlantTakeHello
  PROVE  IInv'
<1> DEFINE hello == Received("plant").type = "HELLO"
           acked == hello /\ ~SendFails("plant")
           ack == Msg("ACK", 0, -1)
           rest == Tail(queue["plant"])
           q == IF acked THEN Append(queue["firmware"], ack) ELSE queue["firmware"]
<1>1. TypeOK /\ pc["plant"] = "hello" /\ queue["plant"] # <<>>
  BY DEF IInv, PlantTakeHello, HasMsg
<1>2. queue' = [queue EXCEPT !["plant"] = rest, !["firmware"] = q]
  BY DEF PlantTakeHello
<1>3. ack \in Message /\ ack.type = "ACK"
  BY MsgIsMessage DEF Types
<1>4. /\ SocketTyped' /\ Msgs("plant")' \subseteq Msgs("plant")
      /\ Msgs("firmware")' \subseteq Msgs("firmware") \cup {ack}
  <2> HIDE DEF ack
  <2>1. queue["plant"] \in Seq(Message) /\ queue["firmware"] \in Seq(Message)
    BY <1>1 DEF TypeOK, Process
  <2>2. rest \in Seq(Message) /\ Range(rest) \subseteq Msgs("plant")
    BY <1>1, <2>1, TailHolds DEF Msgs
  <2>3. q \in Seq(Message) /\ Range(q) \subseteq Msgs("firmware") \cup {ack}
    BY <1>3, <2>1, AppendHolds DEF Msgs
  <2> HIDE DEF rest, q
  <2>4. queue'["plant"] = rest /\ queue'["firmware"] = q /\ queue' \in [Process -> Seq(Message)]
    BY <1>1, <1>2, <2>2, <2>3 DEF TypeOK, Process
  <2> QED
    BY <1>1, <2>2, <2>3, <2>4, TypeParts DEF SocketTyped, Msgs, PlantTakeHello
<1>5. \/ OpenLog /\ Goto("plant", "tick")
      \/ UNCHANGED log /\ \E c \in {Traceback, Proto} : Leave(c)
  BY DEF PlantTakeHello
<1>6. /\ ControlTyped' /\ pc'["firmware"] = pc["firmware"]
      /\ code'["firmware"] = code["firmware"] /\ code'["plant"] # Clean
      /\ \/ pc'["plant"] = "tick" /\ code' = code
         \/ pc'["plant"] = "cleanup" /\ UNCHANGED log
  <2>1. CASE Goto("plant", "tick")
    BY <1>1, <2>1, GotoGoes DEF Process, Places, Peer, IInv, LogInv, Left, Running, Clean
  <2>2. ASSUME UNCHANGED log, NEW c \in {Traceback, Proto}, Leave(c)
        PROVE  <1>6
    BY <1>1, <2>2, LeaveGoes DEF Codes, Traceback, Proto, Clean
  <2> QED
    BY <1>5, <2>1, <2>2
<1> HIDE DEF ack
<1>7. /\ UNCHANGED <<end, reset, given, tick, last_out_seq, aborted, rows, fwvars>>
      /\ log' \in {"open", log}
  BY <1>5 DEF PlantTakeHello, OpenLog
<1> USE DEF fwvars
<1>8. TypeOK'
  BY <1>1, <1>4, <1>6, <1>7, TypeParts, TypePartsNext DEF given, DataTyped
<1>9. PairInv'
  BY <1>1, <1>3, <1>4, <1>6, <1>7, PairFrame DEF IInv, Loop
<1>10. CountInv'
  BY <1>4, <1>6, <1>7, CountFrame DEF IInv
<1>11. EndInv'
  BY <1>1, <1>3, <1>4, <1>6, <1>7, EndFrame DEF IInv, Left, Process
<1>12. LogInv'
  BY <1>1, <1>6, <1>7 DEF IInv, LogInv, CleanMeansComplete, Left
<1>13. NoOrphan'
  BY <1>6 DEF NoOrphan
<1> QED
  BY <1>8, <1>9, <1>10, <1>11, <1>12, <1>13 DEF IInv

LEMMA PlantSendStateStep ==
  ASSUME IInv, PlantSendState
  PROVE  IInv'
<1>1. TypeOK /\ pc["plant"] = "tick"
  BY DEF IInv, PlantSendState
<1>2. CASE Leave(Traceback) /\ UNCHANGED queue
  BY <1>1, <1>2, PlantLeaves
     DEF PlantSendState, sockvars, Loop, Codes, Traceback, Clean
<1>3. CASE Goto("plant", "out") /\ queue' = Sent("plant", Msg("STATE", tick, -1))
  <2> DEFINE m == Msg("STATE", tick, -1)
  <2>1. /\ ControlTyped' /\ code' = code
        /\ pc'["plant"] = "out" /\ pc'["firmware"] = pc["firmware"]
    BY <1>1, <1>3, GotoGoes DEF Process, Places, Peer
  <2>2. /\ Len(rows) = tick /\ tick < NTicks /\ tick \in Nat
        /\ pc["firmware"] # "send" /\ Fresh = {}
        /\ last_state_seq = tick - 1
    BY <1>1 DEF IInv, PairInv, Loop, LastSent, TypeOK
  <2>3. m \in Message /\ m.type = "STATE" /\ m.seq = tick
    BY <2>2, MsgIsMessage DEF Types
  <2> HIDE DEF m
  <2>4. Brings("firmware", m)
    BY <1>1, <1>3, <2>3, SendBrings DEF Process, Peer, m
  <2>5. UNCHANGED <<end, reset, given, plantvars, fwvars>>
    BY DEF PlantSendState
  <2> USE DEF plantvars, fwvars, Brings, Process
  <2>6. TypeOK'
    BY <1>1, <2>1, <2>4, <2>5, TypeParts, TypePartsNext DEF given, SocketTyped, DataTyped
  <2>7. Fresh' = {}
    BY <2>2, <2>4, <2>5 DEF Fresh
  <2>8. LastSent' = tick
    BY <2>1, <2>5 DEF LastSent
  <2>9. PairInv'
    <3>1. RowsPairStates'
      BY <2>5 DEF IInv, PairInv, RowsPairStates
    <3>2. tick' - 1 <= last_state_seq' /\ last_state_seq' <= LastSent'
      BY <2>2, <2>5, <2>8
    <3>3. ASSUME NEW x \in Msgs("firmware")', x.type = "STATE"
          PROVE  x.seq <= LastSent' /\ x.seq < NTicks
      <4>1. CASE x = m
        BY <2>2, <2>3, <2>8, <4>1
      <4>2. CASE x \in Msgs("firmware")
        <5>1. x.seq <= tick - 1 /\ x.seq < NTicks
          BY <1>1, <3>3, <4>2 DEF IInv, PairInv, LastSent
        <5>2. x.seq \in Nat
          BY <1>1, <4>2, MsgsTyped DEF Message
        <5> QED
          BY <2>2, <2>8, <5>1, <5>2
      <4> QED
        BY <2>4, <4>1, <4>2
    <3> QED
      BY <2>1, <2>2, <2>5, <2>7, <3>1, <3>2, <3>3 DEF PairInv
  <2>10. CountInv'
    BY <2>1, <2>4, <2>5, CountFrame DEF IInv
  <2>11. EndInv'
    BY <1>1, <2>1, <2>3, <2>4, <2>5, EndFrame DEF IInv, Left
  <2>12. LogInv'
    BY <1>1, <2>1, <2>5, LogFrame DEF IInv, Left
  <2>13. NoOrphan'
    BY <2>1 DEF NoOrphan
  <2> QED
    BY <2>6, <2>9, <2>10, <2>11, <2>12, <2>13 DEF IInv
<1> QED
  BY <1>2, <1>3 DEF PlantSendState

\* A FW_OUT that is accepted is the answer to the STATE of this very tick, and
\* the last one under way.
LEMMA AcceptedOut ==
  ASSUME IInv, pc["plant"] = "out", NEW m \in Msgs("plant"), AcceptsOut(m)
  PROVE  /\ m.of = tick /\ m.seq = seq - 1 /\ m.seq \in Nat
         /\ last_state_seq = tick /\ pc["firmware"] # "send"
         /\ \A x \in Msgs("plant") : x.type = "FW_OUT" => x.seq <= m.seq
         /\ Len(rows) = tick /\ tick < NTicks
<1>1. m \in Fresh
  BY DEF AcceptsOut, Fresh
<1>2. m \in Message
  BY MsgsTyped DEF IInv, Process
<1>3. \A x \in Msgs("plant") : x.type = "FW_OUT" => x.seq < seq
  BY DEF IInv, CountInv
<1>4. m.seq = seq - 1 /\ m.seq \in Nat
  BY <1>1, <1>2 DEF IInv, PairInv, Loop, Message
<1>5. \A x \in Msgs("plant") : x.seq \in Nat
  BY MsgsTyped DEF IInv, Process, Message
<1>6. \A x \in Msgs("plant") : x.type = "FW_OUT" => x.seq <= m.seq
  BY <1>3, <1>4, <1>5 DEF IInv, TypeOK
<1> QED
  BY <1>1, <1>4, <1>6 DEF IInv, PairInv, Loop

LEMMA PlantTakeOutStep ==
  ASSUME IInv, PlantTakeOut
  PROVE  IInv'
<1> DEFINE m == Received("plant")
<1>1. /\ TypeOK /\ pc["plant"] = "out" /\ queue["plant"] # <<>> /\ Take("plant")
      /\ UNCHANGED <<given, aborted, log, fwvars>>
  BY DEF IInv, PlantTakeOut, HasMsg
<1>2. Quiet /\ m \in Msgs("plant") /\ m \in Message
  BY <1>1, TakeIsQuiet DEF Take, Process
<1>3. SocketTyped'
  BY <1>1, <1>2, TypeParts DEF SocketTyped, Take, Quiet
<1>4. m.type # "BYE"
  BY <1>1, <1>2 DEF IInv, EndInv, Left, Process
<1> HIDE DEF m
<1> USE DEF fwvars, Quiet, Process
<1>5. CASE AcceptsOut(m)
  <2>1. /\ m.of = tick /\ m.seq = seq - 1 /\ m.seq \in Nat
        /\ last_state_seq = tick /\ pc["firmware"] # "send"
        /\ \A x \in Msgs("plant") : x.type = "FW_OUT" => x.seq <= m.seq
        /\ Len(rows) = tick /\ tick < NTicks /\ tick \in Nat /\ rows \in Seq(Int)
    BY <1>1, <1>2, <1>5, AcceptedOut DEF TypeOK
  <2>2. /\ last_out_seq' = m.seq
        /\ rows' = Append(rows, m.of)
        /\ \/ Leave(Numerical) /\ UNCHANGED tick
           \/ tick' = tick + 1 /\ Goto("plant", IF tick + 1 < NTicks THEN "tick" ELSE "bye")
    BY <1>5 DEF PlantTakeOut, WriteRow, m
  <2>3. /\ rows' \in Seq(Int) /\ Len(rows') = tick + 1
        /\ \A i \in 1..tick : rows'[i] = rows[i]
        /\ rows'[tick + 1] = tick
    BY <2>1, <2>2, AppendHolds
  <2>4. RowsPairStates'
    <3>1. DOMAIN rows' = 1..(tick + 1)
      BY <2>1, <2>3
    <3>2. \A i \in 1..tick : rows[i] = i - 1
      <4>1. DOMAIN rows = 1..tick
        BY <2>1
      <4> QED
        BY <4>1 DEF IInv, PairInv, RowsPairStates
    <3>3. ASSUME NEW k \in 1..(tick + 1) PROVE rows'[k] = k - 1
      <4>1. CASE k = tick + 1
        BY <2>1, <2>3, <4>1
      <4>2. CASE k \in 1..tick
        BY <2>3, <3>2, <4>2
      <4> QED
        BY <2>1, <4>1, <4>2
    <3> QED
      BY <3>1, <3>3 DEF RowsPairStates
  <2>5. Fresh' = {}
    <3>1. \A x \in Msgs("plant") : x.seq \in Nat
      BY <1>1, MsgsTyped DEF Message
    <3> QED
      BY <1>2, <2>1, <2>2, <3>1 DEF Fresh
  <2>6. ASSUME ControlTyped', tick' \in {tick, tick + 1} PROVE TypeOK'
    <3>1. last_out_seq' \in -1..seq'
      BY <1>1, <2>1, <2>2 DEF TypeOK
    <3>2. tick' \in 0..NTicks
      BY <2>1, <2>6, LockstepAssumption
    <3>3. DataTyped'
      BY <1>1, <2>3, <3>1, <3>2, TypeParts DEF DataTyped, given
    <3> QED
      BY <1>3, <2>6, <3>3, TypePartsNext
  <2>7. CASE Leave(Numerical) /\ UNCHANGED tick
    <3>1. /\ ControlTyped'
          /\ pc'["plant"] = "cleanup" /\ pc'["firmware"] = pc["firmware"]
          /\ code'["plant"] = Numerical /\ code'["firmware"] = code["firmware"]
      BY <1>1, <2>7, LeaveGoes DEF Codes
    <3>2. TypeOK'
      BY <2>6, <2>7, <3>1
    <3>3. LastSent = tick /\ LastSent' = tick
      BY <1>1, <2>7, <3>1 DEF LastSent
    <3>4. PairInv'
      BY <1>1, <1>2, <2>1, <2>4, <2>7, <3>1, <3>3 DEF IInv, PairInv, Loop
    <3>5. CountInv'
      BY <1>1, <1>2, <3>1, CountFrame DEF IInv
    <3>6. EndInv'
      BY <1>1, <1>2, <3>1, EndFrame DEF IInv, Left, Take
    <3>7. LogInv'
      BY <1>1, <3>1 DEF IInv, LogInv, CleanMeansComplete, Left, Numerical, Clean
    <3>8. NoOrphan'
      BY <3>1 DEF NoOrphan
    <3> QED
      BY <3>2, <3>4, <3>5, <3>6, <3>7, <3>8 DEF IInv
  <2>8. CASE tick' = tick + 1 /\ Goto("plant", IF tick + 1 < NTicks THEN "tick" ELSE "bye")
    <3>1. /\ ControlTyped' /\ code' = code
          /\ pc'["plant"] = IF tick + 1 < NTicks THEN "tick" ELSE "bye"
          /\ pc'["firmware"] = pc["firmware"]
      BY <1>1, <2>8, GotoGoes DEF Places, Peer
    <3>2. TypeOK'
      BY <2>6, <2>8, <3>1
    <3>3. /\ LastSent = tick /\ LastSent' \in {tick, tick + 1}
      BY <1>1, <2>1, <2>8, <3>1 DEF LastSent
    <3>4. PairInv'
      <4>1. ASSUME NEW x \in Msgs("firmware")', x.type = "STATE"
            PROVE  x.seq <= LastSent' /\ x.seq < NTicks
        <5>1. x.seq <= tick /\ x.seq < NTicks
          BY <1>2, <3>3, <4>1 DEF IInv, PairInv
        <5>2. x.seq \in Nat
          BY <1>1, <1>2, <4>1, MsgsTyped DEF Message
        <5> QED
          BY <2>1, <3>3, <5>1, <5>2
      <4>2. tick' - 1 <= last_state_seq' /\ last_state_seq' <= LastSent'
        BY <1>1, <2>1, <2>8, <3>3
      <4>3. pc'["plant"] \in Loop => tick + 1 < NTicks
        BY <3>1 DEF Loop
      <4> QED
        BY <2>1, <2>3, <2>4, <2>5, <2>8, <3>1, <4>1, <4>2, <4>3 DEF PairInv
    <3>5. CountInv'
      BY <1>1, <1>2, <3>1, CountFrame DEF IInv
    <3>6. EndInv'
      BY <1>1, <1>2, <3>1, EndFrame DEF IInv, Left, Take
    <3>7. LogInv'
      <4>1. pc'["plant"] = "bye" => Len(rows') = NTicks
        BY <2>1, <2>3, <3>1, LockstepAssumption
      <4>2. pc'["plant"] \in {"tick", "bye"} /\ pc["plant"] \notin Left /\ code["plant"] = Running
        BY <1>1, <3>1 DEF IInv, LogInv, Left
      <4> QED
        BY <1>1, <3>1, <4>1, <4>2 DEF IInv, LogInv, CleanMeansComplete, Left, Running, Clean
    <3>8. NoOrphan'
      BY <3>1 DEF NoOrphan
    <3> QED
      BY <3>2, <3>4, <3>5, <3>6, <3>7, <3>8 DEF IInv
  <2> QED
    BY <2>2, <2>7, <2>8
<1>6. CASE ~AcceptsOut(m)
  <2>1. Leave(Proto) /\ UNCHANGED <<last_out_seq, rows, tick>>
    BY <1>4, <1>6 DEF PlantTakeOut, m
  <2>2. /\ ControlTyped'
        /\ pc'["plant"] = "cleanup" /\ pc'["firmware"] = pc["firmware"]
        /\ code'["plant"] = Proto /\ code'["firmware"] = code["firmware"]
    BY <1>1, <2>1, LeaveGoes DEF Codes
  <2>3. TypeOK'
    BY <1>1, <1>3, <2>1, <2>2, TypeParts, TypePartsNext DEF DataTyped, given
  <2>4. PairInv'
    BY <1>1, <1>2, <2>1, <2>2, PairFrame DEF IInv, Loop
  <2>5. CountInv'
    BY <1>1, <1>2, <2>2, CountFrame DEF IInv
  <2>6. EndInv'
    BY <1>1, <1>2, <2>2, EndFrame DEF IInv, Left, Take
  <2>7. LogInv'
    BY <1>1, <2>1, <2>2 DEF IInv, LogInv, CleanMeansComplete, Left, Proto, Clean
  <2>8. NoOrphan'
    BY <2>2 DEF NoOrphan
  <2> QED
    BY <2>3, <2>4, <2>5, <2>6, <2>7, <2>8 DEF IInv
<1> QED
  BY <1>5, <1>6

LEMMA PlantNoOutStep ==
  ASSUME IInv, PlantNoOut
  PROVE  IInv'
<1>1. /\ TypeOK /\ pc["plant"] = "out"
      /\ UNCHANGED <<sockvars, given, plantvars, fwvars>>
  BY DEF IInv, PlantNoOut
<1>2. ASSUME NEW c \in {Traceback, Timeout, Proto}, Leave(c) PROVE IInv'
  <2>1. c \in Codes \ {Clean}
    BY <1>2 DEF Codes, Traceback, Timeout, Proto, Clean
  <2> QED
    BY <1>1, <1>2, <2>1, PlantLeaves DEF Loop
<1>3. CASE IsEof("plant") /\ MayClose /\ Goto("plant", "bye")
  <2>1. /\ ControlTyped' /\ code' = code
        /\ pc'["plant"] = "bye" /\ pc'["firmware"] = pc["firmware"]
    BY <1>1, <1>3, GotoGoes DEF Places, Peer, Process
  <2>2. end["firmware"] = "closed"
    BY <1>3 DEF IsEof, Peer
  <2>3. Len(rows) = NTicks - 1
    <3>1. Len(rows) = tick /\ tick < NTicks /\ tick \in Nat
      BY <1>1 DEF IInv, PairInv, Loop, TypeOK
    <3> QED
      BY <1>3, <3>1, LockstepAssumption DEF MayClose
  <2> USE DEF sockvars, plantvars, fwvars, Quiet, Process
  <2>4. Quiet
    BY <1>1, UnchangedIsQuiet
  <2>5. TypeOK'
    BY <1>1, <2>1, TypeParts, TypePartsNext DEF given, SocketTyped, DataTyped
  <2>6. PairInv'
    BY <1>1, <2>1, <2>4, PairFrame DEF IInv, Loop
  <2>7. CountInv'
    BY <1>1, <2>1, <2>4, CountFrame DEF IInv
  <2>8. EndInv'
    BY <1>1, <2>1, <2>4, EndFrame DEF IInv, Left
  <2>9. LogInv'
    BY <1>1, <2>1, <2>2, <2>3 DEF IInv, LogInv, CleanMeansComplete, Left
  <2>10. NoOrphan'
    BY <2>1 DEF NoOrphan
  <2> QED
    BY <2>5, <2>6, <2>7, <2>8, <2>9, <2>10 DEF IInv
<1> QED
  BY <1>2, <1>3 DEF PlantNoOut

LEMMA PlantSendByeStep ==
  ASSUME IInv, PlantSendBye
  PROVE  IInv'
<1> DEFINE m == Msg("BYE", 0, -1)
<1>1. /\ TypeOK /\ pc["plant"] = "bye" /\ aborted' = FALSE
      /\ UNCHANGED <<end, reset, given, tick, last_out_seq, rows, log, fwvars>>
  BY DEF IInv, PlantSendBye
<1>2. \/ SendFails("plant") /\ Leave(Traceback) /\ UNCHANGED queue
      \/ ~SendFails("plant") /\ Leave(Clean) /\ queue' = Sent("plant", m)
  BY DEF PlantSendBye
<1>3. m \in Message /\ m.type = "BYE"
  BY MsgIsMessage DEF Types
<1> HIDE DEF m
<1>4. Quiet \/ Brings("firmware", m)
  BY <1>1, <1>2, <1>3, UnchangedIsQuiet, SendBrings DEF Process, Peer
<1>5. /\ ControlTyped'
      /\ pc'["plant"] = "cleanup" /\ pc'["firmware"] = pc["firmware"]
      /\ code'["firmware"] = code["firmware"]
      /\ \/ code'["plant"] = Traceback
         \/ code'["plant"] = Clean /\ ~SendFails("plant")
  BY <1>1, <1>2, LeaveGoes DEF Codes
<1> USE DEF fwvars, Quiet, Brings, Process
<1>6. TypeOK'
  BY <1>1, <1>4, <1>5, TypeParts, TypePartsNext DEF given, SocketTyped, DataTyped
<1>7. PairInv'
  BY <1>1, <1>3, <1>4, <1>5, PairFrame DEF IInv, Loop
<1>8. CountInv'
  BY <1>1, <1>3, <1>4, <1>5, CountFrame DEF IInv
<1>9. EndInv'
  BY <1>1, <1>4, <1>5, EndFrame DEF IInv, Left
<1>10. LogInv'
  <2>1. \/ Len(rows) = NTicks
        \/ Len(rows) = NTicks - 1 /\ end["firmware"] = "closed"
    BY <1>1 DEF IInv, LogInv
  <2>2. end["firmware"] = "closed" => SendFails("plant")
    BY DEF SendFails, Up, Peer
  <2>3. Len(rows) >= NTicks - 1 /\ (code'["plant"] = Clean => Len(rows) = NTicks)
    BY <1>5, <2>1, <2>2, LockstepAssumption DEF Traceback, Clean
  <2> QED
    BY <1>1, <1>5, <2>3 DEF IInv, LogInv, CleanMeansComplete, Left
<1>11. NoOrphan'
  BY <1>5 DEF NoOrphan
<1> QED
  BY <1>6, <1>7, <1>8, <1>9, <1>10, <1>11 DEF IInv

LEMMA PlantCleanupStep ==
  ASSUME IInv, PlantCleanup
  PROVE  IInv'
<1>1. /\ TypeOK /\ pc["plant"] = "cleanup" /\ CloseLog(aborted)
      /\ UNCHANGED <<given, tick, last_out_seq, aborted, rows, fwvars>>
  BY DEF IInv, PlantCleanup
<1>2. /\ Quiet /\ end' = [end EXCEPT !["plant"] = "closed"]
      /\ end'["plant"] = "closed" /\ end'["firmware"] = end["firmware"]
      /\ reset' \subseteq reset \cup {"firmware"}
  BY <1>1, CloseIsQuiet DEF PlantCleanup, Process, Peer
<1>3. /\ ControlTyped' /\ code' = code
      /\ pc'["plant"] = "reap" /\ pc'["firmware"] = pc["firmware"]
  BY <1>1, GotoGoes DEF PlantCleanup, Places, Process, Peer
<1> USE DEF fwvars, Quiet, Process
<1>4. SocketTyped'
  BY <1>1, <1>2, TypeParts DEF SocketTyped, Ends
<1>5. log' \in {"none", "aborted", "complete"} /\ (log' = "complete" => ~aborted)
  BY <1>1 DEF CloseLog
<1>6. TypeOK'
  BY <1>1, <1>3, <1>4, <1>5, TypeParts, TypePartsNext DEF given, DataTyped
<1>7. PairInv'
  BY <1>1, <1>2, <1>3, PairFrame DEF IInv, Loop
<1>8. CountInv'
  BY <1>1, <1>2, <1>3, CountFrame DEF IInv
<1>9. EndInv'
  BY <1>1, <1>2, <1>3, EndFrame DEF IInv, Left
<1>10. LogInv'
  BY <1>1, <1>3, <1>5 DEF IInv, LogInv, CleanMeansComplete, Left
<1>11. NoOrphan'
  BY <1>3 DEF NoOrphan
<1> QED
  BY <1>6, <1>7, <1>8, <1>9, <1>10, <1>11 DEF IInv

LEMMA PlantReapStep ==
  ASSUME IInv, PlantReap
  PROVE  IInv'
<1>1. TypeOK /\ pc["plant"] = "reap" /\ UNCHANGED <<given, plantvars, fwvars>>
  BY DEF IInv, PlantReap
<1>2. /\ pc'["plant"] = "exited" /\ pc'["firmware"] = "exited"
      /\ code'["plant"] = code["plant"]
      /\ code'["firmware"] \in {code["firmware"], Killed}
      /\ ControlTyped'
  <2>1. CASE pc["firmware"] = "exited" /\ Goto("plant", "exited")
    BY <1>1, <2>1, GotoGoes DEF Places, Process, Peer
  <2>2. CASE pc' = [p \in Process |-> "exited"] /\ code' = [code EXCEPT !["firmware"] = Killed]
    BY <1>1, <2>2, TypeParts DEF ControlTyped, Places, Codes, Process
  <2> QED
    BY <2>1, <2>2 DEF PlantReap
<1>3. /\ Quiet /\ SocketTyped' /\ end'["plant"] = end["plant"]
      /\ end["firmware"] = "closed" => end'["firmware"] = "closed"
      /\ "firmware" \in reset' => "firmware" \in reset
  <2>1. CASE UNCHANGED sockvars
    BY <1>1, <2>1, UnchangedIsQuiet, TypeParts DEF sockvars, SocketTyped
  <2>2. CASE Close("firmware")
    <3>1. /\ Quiet /\ end' = [end EXCEPT !["firmware"] = "closed"]
          /\ end'["firmware"] = "closed" /\ end'["plant"] = end["plant"]
          /\ reset' \subseteq reset \cup {"plant"}
      BY <1>1, <2>2, CloseIsQuiet DEF Process, Peer
    <3> QED
      BY <1>1, <3>1, TypeParts DEF SocketTyped, Quiet, Ends, Process
  <2> QED
    BY <2>1, <2>2 DEF PlantReap
<1> USE DEF plantvars, fwvars, Quiet, Process
<1>4. TypeOK'
  BY <1>1, <1>2, <1>3, TypeParts, TypePartsNext DEF given, DataTyped
<1>5. PairInv'
  BY <1>1, <1>2, <1>3, PairFrame DEF IInv, Loop
<1>6. CountInv'
  BY <1>1, <1>2, <1>3, CountFrame DEF IInv
<1>7. EndInv'
  BY <1>1, <1>2, <1>3, EndFrame DEF IInv, Left, Killed, Clean
<1>8. LogInv'
  BY <1>1, <1>2, <1>3, LogFrame DEF IInv, Left
<1>9. NoOrphan'
  BY <1>2 DEF NoOrphan
<1> QED
  BY <1>4, <1>5, <1>6, <1>7, <1>8, <1>9 DEF IInv

-----------------------------------------------------------------------------
(* The firmware's steps.                                                   *)

\* Any of the firmware's ways to end.
LEMMA FirmwareReturns ==
  ASSUME IInv, pc["firmware"] # "exited", NEW c \in Codes, Return(c),
         c = Clean => pc["plant"] \in Left,
         UNCHANGED <<given, plantvars, fwvars>>
  PROVE  IInv'
<1>1. TypeOK
  BY DEF IInv
<1>2. /\ ControlTyped' /\ SocketTyped' /\ Quiet
      /\ pc'["firmware"] = "exited" /\ pc'["plant"] = pc["plant"]
      /\ code'["firmware"] = c /\ code'["plant"] = code["plant"]
      /\ end'["firmware"] = "closed" /\ end'["plant"] = end["plant"]
      /\ reset' \subseteq reset \cup {"plant"}
  BY <1>1, ReturnGoes
<1> USE DEF plantvars, fwvars, Quiet, Process
<1>3. TypeOK'
  BY <1>1, <1>2, TypeParts, TypePartsNext DEF given, DataTyped
<1>4. PairInv'
  BY <1>1, <1>2, PairFrame DEF IInv
<1>5. CountInv'
  BY <1>2, CountFrame DEF IInv
<1>6. EndInv'
  BY <1>2, EndFrame DEF IInv
<1>7. LogInv'
  BY <1>2, LogFrame DEF IInv
<1>8. NoOrphan'
  BY <1>2 DEF NoOrphan
<1> QED
  BY <1>3, <1>4, <1>5, <1>6, <1>7, <1>8 DEF IInv

LEMMA FwConnectStep ==
  ASSUME IInv, FwConnect
  PROVE  IInv'
<1>1. TypeOK /\ pc["firmware"] = "connect" /\ UNCHANGED <<given, plantvars, fwvars>>
  BY DEF IInv, FwConnect
<1>2. CASE Return(Timeout)
  BY <1>1, <1>2, FirmwareReturns DEF Codes, Timeout, Clean
<1>3. CASE /\ end["plant"] = "listening"
           /\ end' = [plant |-> "pending", firmware |-> "open"]
           /\ Goto("firmware", "hello")
           /\ UNCHANGED <<queue, reset>>
  <2>1. /\ ControlTyped' /\ code' = code
        /\ pc'["firmware"] = "hello" /\ pc'["plant"] = pc["plant"]
    BY <1>1, <1>3, GotoGoes DEF Places, Peer, Process
  <2>2. Quiet
    BY <1>1, <1>3, UnchangedIsQuiet
  <2> USE DEF plantvars, fwvars, Quiet, Process
  <2>3. end' \in [Process -> Ends] /\ end'["plant"] = "pending" /\ end'["firmware"] = "open"
    BY <1>3 DEF Ends
  <2>4. TypeOK'
    BY <1>1, <1>3, <2>1, <2>3, TypeParts, TypePartsNext DEF given, SocketTyped, DataTyped
  <2>5. PairInv'
    BY <1>1, <2>1, <2>2, PairFrame DEF IInv
  <2>6. CountInv'
    BY <1>1, <2>1, <2>2, CountFrame DEF IInv
  <2>7. end["firmware"] # "closed"
    BY <1>1 DEF IInv, EndInv
  <2>8. EndInv'
    BY <1>1, <1>3, <2>1, <2>2, <2>3, EndFrame DEF IInv
  <2>9. LogInv'
    BY <1>1, <2>1, <2>7, LogFrame DEF IInv
  <2>10. NoOrphan'
    BY <1>1, <2>1 DEF IInv, NoOrphan
  <2> QED
    BY <2>4, <2>5, <2>6, <2>8, <2>9, <2>10 DEF IInv
<1> QED
  BY <1>2, <1>3 DEF FwConnect

LEMMA FwSendHelloStep ==
  ASSUME IInv, FwSendHello
  PROVE  IInv'
<1>1. TypeOK /\ pc["firmware"] = "hello" /\ UNCHANGED <<given, plantvars, last_state_seq>>
  BY DEF IInv, FwSendHello
<1>2. CASE Return(Proto) /\ UNCHANGED seq
  BY <1>1, <1>2, FirmwareReturns DEF Codes, Proto, Clean, fwvars
<1>3. CASE /\ queue' = Sent("firmware", Msg("HELLO", seq, -1))
           /\ seq' = seq + 1
           /\ Goto("firmware", "ack") /\ UNCHANGED <<end, reset>>
  <2> DEFINE m == Msg("HELLO", seq, -1)
  <2>1. /\ ControlTyped' /\ code' = code
        /\ pc'["firmware"] = "ack" /\ pc'["plant"] = pc["plant"]
    BY <1>1, <1>3, GotoGoes DEF Places, Peer, Process
  <2>2. seq = 0 /\ last_state_seq = -1
    BY <1>1 DEF IInv, CountInv, TypeOK
  <2>3. m \in Message /\ m.type = "HELLO"
    BY <2>2, MsgIsMessage DEF Types
  <2> HIDE DEF m
  <2>4. Brings("plant", m)
    BY <1>1, <1>3, <2>3, SendBrings DEF Process, Peer, m
  <2> USE DEF plantvars, Brings, Process
  <2>5. TypeOK'
    <3>1. last_out_seq' \in -1..seq' /\ seq' \in 0..NTicks + 1
      BY <1>1, <1>3, <2>2, LockstepAssumption DEF TypeOK
    <3> QED
      BY <1>1, <1>3, <2>1, <2>4, <3>1, TypeParts, TypePartsNext
         DEF given, SocketTyped, DataTyped
  <2>6. \A x \in Msgs("plant") : x.type # "FW_OUT"
    <3>1. \A x \in Msgs("plant") : x.seq \in Nat
      BY <1>1, MsgsTyped DEF Message
    <3> QED
      BY <2>2, <3>1 DEF IInv, CountInv
  <2>7. \A x \in Msgs("plant")' : x.type # "FW_OUT"
    BY <2>3, <2>4, <2>6
  <2>8. PairInv'
    <3>1. Fresh' = {}
      BY <2>7 DEF Fresh
    <3>2. LastSent' = LastSent
      BY <1>1, <2>1 DEF LastSent
    <3> QED
      BY <1>1, <2>1, <2>4, <3>1, <3>2 DEF IInv, PairInv, RowsPairStates
  <2>9. CountInv'
    BY <1>1, <1>3, <2>1, <2>2, <2>7 DEF CountInv
  <2>10. EndInv'
    BY <1>1, <1>3, <2>1, <2>3, <2>4, EndFrame DEF IInv
  <2>11. LogInv'
    BY <1>1, <1>3, <2>1, LogFrame DEF IInv
  <2>12. NoOrphan'
    BY <1>1, <2>1 DEF IInv, NoOrphan
  <2> QED
    BY <2>5, <2>8, <2>9, <2>10, <2>11, <2>12 DEF IInv
<1> QED
  BY <1>2, <1>3 DEF FwSendHello

\* A move of the firmware that takes or leaves what it was sent, no more.
LEMMA FirmwareMoves ==
  ASSUME IInv, NEW l \in {"state", "bye", "close"}, Goto("firmware", l),
         pc["firmware"] # "exited", Quiet, UNCHANGED <<end, reset, given, plantvars, fwvars>>,
         l \in {"bye", "close"} => pc["plant"] \in Left
  PROVE  IInv'
<1>1. TypeOK
  BY DEF IInv
<1>2. /\ ControlTyped' /\ code' = code
      /\ pc'["firmware"] = l /\ pc'["plant"] = pc["plant"]
  BY <1>1, GotoGoes DEF Places, Peer, Process
<1> USE DEF plantvars, fwvars, Quiet, Process
<1>3. TypeOK'
  BY <1>1, <1>2, TypeParts, TypePartsNext DEF given, SocketTyped, DataTyped
<1>4. PairInv'
  BY <1>1, <1>2, PairFrame DEF IInv
<1>5. CountInv'
  BY <1>2, CountFrame DEF IInv
<1>6. EndInv'
  BY <1>2, EndFrame DEF IInv
<1>7. LogInv'
  BY <1>2, LogFrame DEF IInv
<1>8. NoOrphan'
  BY <1>2 DEF IInv, NoOrphan
<1> QED
  BY <1>3, <1>4, <1>5, <1>6, <1>7, <1>8 DEF IInv

LEMMA FwTakeAckStep ==
  ASSUME IInv, FwTakeAck
  PROVE  IInv'
<1>1. TypeOK /\ pc["firmware"] = "ack" /\ UNCHANGED <<given, plantvars, fwvars>>
  BY DEF IInv, FwTakeAck
<1>2. CASE Return(Proto)
  BY <1>1, <1>2, FirmwareReturns DEF Codes, Proto, Clean
<1>3. CASE HasMsg("firmware") /\ Take("firmware") /\ Goto("firmware", "state")
  <2>1. Quiet
    BY <1>1, <1>3, TakeIsQuiet DEF HasMsg, Take, Process
  <2> QED
    BY <1>1, <1>3, <2>1, FirmwareMoves DEF Take
<1> QED
  BY <1>2, <1>3 DEF FwTakeAck

LEMMA FwNoStateStep ==
  ASSUME IInv, FwNoState
  PROVE  IInv'
<1>1. TypeOK /\ pc["firmware"] = "state" /\ UNCHANGED <<given, plantvars, fwvars>>
  BY DEF IInv, FwNoState
<1>2. CASE Return(Timeout)
  BY <1>1, <1>2, FirmwareReturns DEF Codes, Timeout, Clean
<1>3. CASE /\ IsReset("firmware") \/ IsEof("firmware")
           /\ Goto("firmware", "bye") /\ UNCHANGED sockvars
  <2>1. Quiet
    BY <1>1, <1>3, UnchangedIsQuiet DEF sockvars
  <2>2. end["plant"] = "closed"
    BY <1>3 DEF IsReset, IsEof, Peer, IInv, EndInv
  <2>3. pc["plant"] \in Left
    BY <2>2 DEF IInv, EndInv, Left
  <2> QED
    BY <1>1, <1>3, <2>1, <2>3, FirmwareMoves DEF sockvars
<1> QED
  BY <1>2, <1>3 DEF FwNoState

LEMMA FwCloseStep ==
  ASSUME IInv, FwClose
  PROVE  IInv'
<1>1. pc["plant"] \in Left
  BY DEF FwClose, IInv, EndInv
<1> QED
  BY <1>1, FirmwareReturns DEF FwClose, Codes

LEMMA FwTakeStateStep ==
  ASSUME IInv, FwTakeState
  PROVE  IInv'
<1> DEFINE m == Received("firmware")
<1>1. /\ TypeOK /\ pc["firmware"] = "state" /\ queue["firmware"] # <<>>
      /\ UNCHANGED <<given, plantvars, seq>>
  BY DEF IInv, FwTakeState, HasMsg
<1>2. m \in Msgs("firmware") /\ m \in Message
  BY <1>1, TailHolds DEF TypeOK, Process, Msgs, Received
<1> HIDE DEF m
<1>3. CASE Return(Proto) /\ UNCHANGED last_state_seq
  BY <1>1, <1>3, FirmwareReturns DEF fwvars, Codes, Proto, Clean
<1>4. CASE /\ m.type = "BYE" /\ Take("firmware") /\ Goto("firmware", "bye")
           /\ UNCHANGED last_state_seq
  <2>1. Quiet
    BY <1>1, <1>4, TakeIsQuiet DEF Take, Process
  <2>2. pc["plant"] \in Left
    BY <1>2, <1>4 DEF IInv, EndInv, Process
  <2> QED
    BY <1>1, <1>4, <2>1, <2>2, FirmwareMoves DEF Take, fwvars
<1>5. CASE /\ AcceptsState(m) /\ last_state_seq' = m.seq
           /\ Take("firmware") /\ Goto("firmware", "send")
  <2>1. /\ ControlTyped' /\ code' = code
        /\ pc'["firmware"] = "send" /\ pc'["plant"] = pc["plant"]
    BY <1>1, <1>5, GotoGoes DEF Places, Peer, Process
  <2>2. Quiet /\ UNCHANGED <<end, reset>>
    BY <1>1, <1>5, TakeIsQuiet DEF Take, Process
  <2>3. /\ m.seq \in Nat /\ m.seq > last_state_seq
        /\ m.seq <= LastSent /\ m.seq < NTicks /\ tick - 1 <= last_state_seq
        /\ tick \in Nat /\ last_state_seq \in Int /\ seq \in Nat /\ LastSent \in Int
    BY <1>1, <1>2, <1>5, SMTT(30) DEF AcceptsState, IInv, PairInv, Message, TypeOK, LastSent
  <2>4. m.seq = tick /\ LastSent = tick
    BY <2>3 DEF LastSent
  <2> USE DEF plantvars, Quiet, Process
  <2>5. TypeOK'
    <3>1. last_state_seq' \in -1..NTicks - 1
      BY <1>5, <2>3, LockstepAssumption
    <3> QED
      BY <1>1, <2>1, <2>2, <3>1, TypeParts, TypePartsNext DEF given, SocketTyped, DataTyped
  <2>6. PairInv'
    <3>1. LastSent' = tick
      BY <1>1, <2>1, <2>4 DEF LastSent
    <3>2. pc["plant"] \in Loop => Fresh = {}
      BY <2>3, <2>4 DEF IInv, PairInv
    <3>3. Fresh' \subseteq Fresh
      BY <1>1, <2>2 DEF Fresh
    <3>4. RowsPairStates'
      BY <1>1 DEF IInv, PairInv, RowsPairStates
    <3>5. tick' - 1 <= last_state_seq' /\ last_state_seq' <= LastSent'
      BY <1>1, <1>5, <2>3, <2>4, <3>1
    <3> QED
      BY <1>1, <1>5, <2>1, <2>2, <2>4, <3>1, <3>2, <3>3, <3>4, <3>5 DEF IInv, PairInv
  <2>7. CountInv'
    <3>1. seq <= m.seq + 1
      BY <2>3 DEF IInv, CountInv
    <3>2. seq' = seq /\ last_state_seq' = m.seq
      BY <1>1, <1>5
    <3>3. seq' <= last_state_seq' + 2 /\ seq' <= last_state_seq' + 1
      BY <2>3, <3>1, <3>2
    <3> QED
      BY <2>1, <2>2, <3>2, <3>3 DEF IInv, CountInv
  <2>8. EndInv'
    BY <1>1, <2>1, <2>2, EndFrame DEF IInv
  <2>9. LogInv'
    BY <1>1, <2>1, <2>2, LogFrame DEF IInv
  <2>10. NoOrphan'
    BY <1>1, <2>1 DEF IInv, NoOrphan
  <2> QED
    BY <2>5, <2>6, <2>7, <2>8, <2>9, <2>10 DEF IInv
<1> QED
  BY <1>3, <1>4, <1>5 DEF FwTakeState, m

LEMMA FwSendOutStep ==
  ASSUME IInv, FwSendOut
  PROVE  IInv'
<1>1. TypeOK /\ pc["firmware"] = "send" /\ UNCHANGED <<given, plantvars, last_state_seq>>
  BY DEF IInv, FwSendOut
<1>2. CASE Return(Proto) /\ UNCHANGED seq
  BY <1>1, <1>2, FirmwareReturns DEF Codes, Proto, Clean, fwvars
<1>3. CASE /\ queue' = Sent("firmware", Msg("FW_OUT", seq, last_state_seq))
           /\ seq' = seq + 1
           /\ Goto("firmware", "state") /\ UNCHANGED <<end, reset>>
  <2> DEFINE m == Msg("FW_OUT", seq, last_state_seq)
  <2>1. /\ ControlTyped' /\ code' = code
        /\ pc'["firmware"] = "state" /\ pc'["plant"] = pc["plant"]
    BY <1>1, <1>3, GotoGoes DEF Places, Peer, Process
  <2>2. /\ seq \in Nat /\ seq <= last_state_seq + 1 /\ last_state_seq \in -1..NTicks - 1
        /\ seq' = seq + 1
    BY <1>1, <1>3 DEF IInv, CountInv, TypeOK
  <2>3. m \in Message /\ m.type = "FW_OUT" /\ m.seq = seq /\ m.of = last_state_seq
    BY <2>2, MsgIsMessage DEF Types
  <2> HIDE DEF m
  <2>4. Brings("plant", m)
    BY <1>1, <1>3, <2>3, SendBrings DEF Process, Peer, m
  <2> USE DEF plantvars, Brings, Process
  <2>5. TypeOK'
    <3>1. seq' \in 0..NTicks + 1
      BY <2>2, LockstepAssumption
    <3>2. last_out_seq' \in -1..seq'
      BY <1>1, <2>2 DEF TypeOK
    <3> QED
      BY <1>1, <1>3, <2>1, <2>4, <3>1, <3>2, TypeParts, TypePartsNext
         DEF given, SocketTyped, DataTyped
  <2>6. PairInv'
    <3>1. LastSent' = LastSent
      BY <1>1, <2>1 DEF LastSent
    <3>2. pc["plant"] \in Loop => Fresh = {} /\ last_state_seq = tick
      BY <1>1 DEF IInv, PairInv
    <3>3. Fresh' \subseteq Fresh \cup {m}
      BY <1>1, <2>4 DEF Fresh
    <3>4. RowsPairStates'
      BY <1>1 DEF IInv, PairInv, RowsPairStates
    <3>5. pc'["plant"] \in Loop =>
            \A x \in Fresh' : /\ x.seq = seq' - 1 /\ x.of = tick
                              /\ last_state_seq = tick /\ pc'["firmware"] # "send"
      BY <2>1, <2>2, <2>3, <3>2, <3>3
    <3> QED
      BY <1>1, <2>1, <2>4, <3>1, <3>4, <3>5 DEF IInv, PairInv
  <2>7. CountInv'
    <3>1. ASSUME NEW x \in Msgs("plant")', x.type = "FW_OUT" PROVE x.seq < seq'
      <4>1. CASE x = m
        BY <2>2, <2>3, <4>1
      <4>2. CASE x \in Msgs("plant")
        <5>1. x.seq < seq /\ x.seq \in Nat
          BY <1>1, <3>1, <4>2, MsgsTyped DEF IInv, CountInv, Message
        <5> QED
          BY <2>2, <5>1
      <4> QED
        BY <2>4, <4>1, <4>2
    <3>2. seq' <= last_state_seq' + 2
      BY <1>1, <2>2
    <3> QED
      BY <2>1, <3>1, <3>2 DEF CountInv
  <2>8. EndInv'
    BY <1>1, <1>3, <2>1, <2>3, <2>4, EndFrame DEF IInv
  <2>9. LogInv'
    BY <1>1, <1>3, <2>1, LogFrame DEF IInv
  <2>10. NoOrphan'
    BY <1>1, <2>1 DEF IInv, NoOrphan
  <2> QED
    BY <2>5, <2>6, <2>7, <2>8, <2>9, <2>10 DEF IInv
<1> QED
  BY <1>2, <1>3 DEF FwSendOut

LEMMA FwSendByeStep ==
  ASSUME IInv, FwSendBye
  PROVE  IInv'
<1> DEFINE m == Msg("BYE", seq, -1)
<1>1. /\ TypeOK /\ pc["firmware"] = "bye"
      /\ UNCHANGED <<end, reset, given, plantvars, fwvars>>
      /\ Goto("firmware", "close")
  BY DEF IInv, FwSendBye
<1>2. pc["plant"] \in Left
  BY <1>1 DEF IInv, EndInv
<1>3. m \in Message /\ m.type = "BYE"
  BY <1>1, MsgIsMessage DEF Types, TypeOK
<1> HIDE DEF m
<1>4. Quiet \/ Brings("plant", m)
  BY <1>1, <1>3, UnchangedIsQuiet, SendBrings DEF FwSendBye, m, Process, Peer
<1>5. /\ ControlTyped' /\ code' = code
      /\ pc'["firmware"] = "close" /\ pc'["plant"] = pc["plant"]
  BY <1>1, GotoGoes DEF Places, Peer, Process
<1> USE DEF plantvars, fwvars, Quiet, Brings, Process
<1>6. TypeOK'
  BY <1>1, <1>4, <1>5, TypeParts, TypePartsNext DEF given, SocketTyped, DataTyped
<1>7. PairInv'
  BY <1>1, <1>3, <1>4, <1>5, PairFrame DEF IInv
<1>8. CountInv'
  BY <1>1, <1>3, <1>4, <1>5, CountFrame DEF IInv
<1>9. EndInv'
  BY <1>1, <1>2, <1>4, <1>5, EndFrame DEF IInv
<1>10. LogInv'
  BY <1>1, <1>5, LogFrame DEF IInv
<1>11. NoOrphan'
  BY <1>1, <1>5 DEF IInv, NoOrphan
<1> QED
  BY <1>6, <1>7, <1>8, <1>9, <1>10, <1>11 DEF IInv

-----------------------------------------------------------------------------
(* What may go wrong.                                                      *)

LEMMA CrashStep ==
  ASSUME IInv, NEW p \in Process, Crash(p)
  PROVE  IInv'
<1>1. TypeOK /\ pc[p] # "exited" /\ UNCHANGED <<given, plantvars, fwvars>>
  BY DEF IInv, Crash
<1>2. /\ pc' = [pc EXCEPT ![p] = "exited"] /\ code' = [code EXCEPT ![p] = Killed]
      /\ Close(p)
  BY DEF Crash
<1>3. CASE p = "firmware"
  <2>1. Return(Killed)
    BY <1>2, <1>3 DEF Return
  <2> QED
    BY <1>1, <1>3, <2>1, FirmwareReturns DEF Codes, Killed, Clean
<1>4. CASE p = "plant"
  <2>1. /\ ControlTyped'
        /\ pc'["plant"] = "exited" /\ pc'["firmware"] = pc["firmware"]
        /\ code'["plant"] = Killed /\ code'["firmware"] = code["firmware"]
    BY <1>1, <1>2, <1>4, TypeParts DEF ControlTyped, Places, Codes, Process
  <2>2. /\ Quiet /\ end' = [end EXCEPT !["plant"] = "closed"]
        /\ end'["plant"] = "closed" /\ end'["firmware"] = end["firmware"]
        /\ reset' \subseteq reset \cup {"firmware"}
    BY <1>1, <1>2, <1>4, CloseIsQuiet DEF Peer
  <2> USE DEF plantvars, fwvars, Quiet, Process
  <2>3. SocketTyped'
    BY <1>1, <2>2, TypeParts DEF SocketTyped, Ends
  <2>4. TypeOK'
    BY <1>1, <2>1, <2>3, TypeParts, TypePartsNext DEF given, DataTyped
  <2>5. PairInv'
    BY <1>1, <2>1, <2>2, PairFrame DEF IInv, Loop
  <2>6. CountInv'
    BY <1>1, <2>1, <2>2, CountFrame DEF IInv
  <2>7. EndInv'
    BY <1>1, <2>1, <2>2, EndFrame DEF IInv, Left
  <2>8. LogInv'
    BY <1>1, <2>1 DEF IInv, LogInv, CleanMeansComplete, Left, Killed, Clean
  <2>9. NoOrphan'
    BY <2>1 DEF NoOrphan
  <2> QED
    BY <2>4, <2>5, <2>6, <2>7, <2>8, <2>9 DEF IInv
<1> QED
  BY <1>3, <1>4 DEF Process

\* A message under way that is replaced by an odd one, or sent twice, adds
\* neither data nor a BYE.
LEMMA MessagesOnly ==
  ASSUME IInv, UNCHANGED <<pc, code, end, reset, given, plantvars, fwvars>>,
         queue' \in [Process -> Seq(Message)],
         \A p \in Process : \A m \in Msgs(p)' :
           m \in Msgs(p) \/ m.type \notin {"STATE", "FW_OUT", "BYE"}
  PROVE  IInv'
<1>1. TypeOK
  BY DEF IInv
<1> USE DEF plantvars, fwvars, Process
<1>2. TypeOK'
  BY <1>1, TypeParts, TypePartsNext DEF ControlTyped, SocketTyped, DataTyped, given
<1>3. PairInv'
  BY <1>1, PairFrame DEF IInv
<1>4. CountInv'
  BY CountFrame DEF IInv
<1>5. EndInv'
  BY EndFrame DEF IInv
<1>6. LogInv'
  BY LogFrame DEF IInv
<1>7. NoOrphan'
  BY DEF IInv, NoOrphan
<1> QED
  BY <1>2, <1>3, <1>4, <1>5, <1>6, <1>7 DEF IInv

LEMMA OddityStep ==
  ASSUME IInv, NEW p \in Process, Oddity(p)
  PROVE  IInv'
<1>1. PICK type \in OddTypes :
        /\ queue[p] # <<>>
        /\ queue' = [queue EXCEPT ![p][Len(queue[p])] = Msg(type, 0, -1)]
        /\ UNCHANGED <<pc, code, end, reset, given, plantvars, fwvars>>
  BY DEF Oddity
<1> DEFINE m == Msg(type, 0, -1)
           odd == [queue[p] EXCEPT ![Len(queue[p])] = m]
<1>2. queue \in [Process -> Seq(Message)] /\ queue[p] \in Seq(Message)
  BY DEF IInv, TypeOK
<1>3. Len(queue[p]) \in DOMAIN queue[p]
  BY <1>1, <1>2
<1>4. m \in Message /\ m.type = type /\ type \in {"HELLO", "ACK", "Garbled"}
  BY LockstepAssumption, MsgIsMessage DEF Types
<1>5. queue' = [queue EXCEPT ![p] = odd]
  BY <1>1, <1>2
<1> HIDE DEF m
<1>6. odd \in Seq(Message) /\ Range(odd) \subseteq Msgs(p) \cup {m}
  BY <1>2, <1>3, <1>4, ReplaceHolds DEF Msgs
<1> HIDE DEF odd
<1>7. /\ queue'[p] = odd /\ \A q \in Process \ {p} : queue'[q] = queue[q]
      /\ queue' \in [Process -> Seq(Message)]
  BY <1>2, <1>5, <1>6
<1>8. \A q \in Process : Msgs(q)' \subseteq Msgs(q) \cup {m}
  BY <1>6, <1>7 DEF Msgs
<1> QED
  BY <1>1, <1>4, <1>7, <1>8, MessagesOnly

LEMMA ReplayStep ==
  ASSUME IInv, NEW p \in Process, Replay(p)
  PROVE  IInv'
<1>1. /\ Len(queue[p]) = 1 /\ queue' = [queue EXCEPT ![p] = Append(@, Head(@))]
      /\ UNCHANGED <<pc, code, end, reset, given, plantvars, fwvars>>
  BY DEF Replay
<1> DEFINE twice == Append(queue[p], Head(queue[p]))
<1>2. queue \in [Process -> Seq(Message)] /\ queue[p] \in Seq(Message) /\ queue[p] # <<>>
  BY <1>1 DEF IInv, TypeOK
<1>3. Head(queue[p]) \in Msgs(p) /\ Head(queue[p]) \in Message
  BY <1>2, TailHolds DEF Msgs
<1>4. twice \in Seq(Message) /\ Range(twice) \subseteq Msgs(p)
  BY <1>2, <1>3, AppendHolds DEF Msgs
<1>5. queue' = [queue EXCEPT ![p] = twice]
  BY <1>1
<1> HIDE DEF twice
<1>6. /\ queue'[p] = twice /\ \A q \in Process \ {p} : queue'[q] = queue[q]
      /\ queue' \in [Process -> Seq(Message)]
  BY <1>2, <1>4, <1>5
<1>7. \A q \in Process : Msgs(q)' \subseteq Msgs(q)
  BY <1>4, <1>6 DEF Msgs
<1> QED
  BY <1>1, <1>6, <1>7, MessagesOnly

-----------------------------------------------------------------------------
LEMMA InitIInv == Init => IInv
<1> SUFFICES ASSUME Init PROVE IInv
  OBVIOUS
<1> USE DEF Init, Process
<1>1. \A p \in Process : Msgs(p) = {}
  BY DEF Msgs, Range
<1>2. TypeOK
  <2>1. /\ ControlTyped /\ SocketTyped
    BY DEF ControlTyped, SocketTyped, Places, Codes, Ends
  <2>2. match \in BOOLEAN /\ faults \subseteq FaultKinds /\ rows \in Seq(Int)
    <3>1. match \in BOOLEAN
      BY Zenon
    <3>2. faults \subseteq FaultKinds
      BY LockstepAssumption
    <3> QED
      BY <3>1, <3>2
  <2>3. /\ tick \in 0..NTicks /\ last_out_seq \in -1..seq
        /\ seq \in 0..NTicks + 1 /\ last_state_seq \in -1..NTicks - 1
    BY LockstepAssumption
  <2>4. DataTyped
    BY <2>2, <2>3 DEF DataTyped
  <2> QED
    BY <2>1, <2>4, TypeParts
<1>3. PairInv
  BY <1>1, LockstepAssumption DEF PairInv, RowsPairStates, LastSent, Fresh
<1>4. CountInv
  BY <1>1 DEF CountInv
<1>5. EndInv
  BY <1>1 DEF EndInv, FirmwareCleanMeansPlantLeft, Running, Clean
<1>6. LogInv
  BY DEF LogInv, CleanMeansComplete, Left, Running, Clean
<1>7. NoOrphan
  BY DEF NoOrphan
<1> QED
  BY <1>2, <1>3, <1>4, <1>5, <1>6, <1>7 DEF IInv

LEMMA StutterIInv ==
  ASSUME IInv, UNCHANGED vars
  PROVE  IInv'
<1>1. \A p \in Process : Msgs(p)' = Msgs(p)
  BY DEF vars, sockvars, Msgs
<1> QED
  BY <1>1, MessagesOnly DEF vars, sockvars, IInv, TypeOK

LEMMA NextIInv == IInv /\ [Next]_vars => IInv'
<1> SUFFICES ASSUME IInv, [Next]_vars PROVE IInv'
  OBVIOUS
<1>1. CASE Plant
  BY <1>1, PlantAcceptStep, PlantAcceptTimeoutStep, PlantTakeHelloStep, PlantNoHelloStep,
     PlantSendStateStep, PlantTakeOutStep, PlantNoOutStep, PlantSendByeStep,
     PlantCleanupStep, PlantReapStep DEF Plant
<1>2. CASE Firmware
  BY <1>2, FwConnectStep, FwSendHelloStep, FwTakeAckStep, FwTakeStateStep, FwNoStateStep,
     FwSendOutStep, FwSendByeStep, FwCloseStep DEF Firmware
<1>3. CASE Environment
  BY <1>3, CrashStep, OddityStep, ReplayStep DEF Environment
<1>4. CASE UNCHANGED vars
  BY <1>4, StutterIInv
<1> QED
  BY <1>1, <1>2, <1>3, <1>4 DEF Next, Stopped

\* What relates the two processes, the connection and the log after every system
\* call of either (runner.py, main_sil.cpp, hal_sil.cpp).
THEOREM Invariance == Spec => []IInv
BY InitIInv, NextIInv, PTL DEF Spec

-----------------------------------------------------------------------------
\* Every variable keeps its type: no sequence number passes the run's length.
THEOREM TypeCorrect == Spec => []TypeOK
<1>1. IInv => TypeOK
  BY DEF IInv
<1> QED
  BY <1>1, Invariance, PTL

\* Row k of the log pairs STATE k with the FW_OUT computed from it.
THEOREM RowsPair == Spec => []RowsPairStates
<1>1. IInv => RowsPairStates
  BY DEF IInv, PairInv
<1> QED
  BY <1>1, Invariance, PTL

\* Exit code 0 of the plant stands for a whole run.
THEOREM CleanIsComplete == Spec => []CleanMeansComplete
<1>1. IInv => CleanMeansComplete
  BY DEF IInv, LogInv
<1> QED
  BY <1>1, Invariance, PTL

\* A log that does not read as aborted, of a plant that was not killed, lacks
\* the last row at most.
THEOREM LogIsHonest == Spec => []UnabortedLogLacksAtMostOne
<1>1. ASSUME IInv, pc["plant"] = "exited", code["plant"] # Killed, log # "none", ~ReadsAborted
      PROVE  Len(rows) >= NTicks - 1
  <2>1. log \in {"none", "open", "complete", "aborted"}
    BY <1>1 DEF IInv, TypeOK
  <2>2. log = "complete"
    BY <1>1, <2>1 DEF ReadsAborted, IInv, LogInv
  <2> QED
    BY <1>1, <2>2 DEF IInv, LogInv
<1>2. IInv => UnabortedLogLacksAtMostOne
  BY <1>1 DEF UnabortedLogLacksAtMostOne
<1> QED
  BY <1>2, Invariance, PTL

\* No plant that ends by itself leaves a firmware running.
THEOREM NobodyLeftBehind == Spec => []NoOrphan
<1>1. IInv => NoOrphan
  BY DEF IInv
<1> QED
  BY <1>1, Invariance, PTL

\* Exit code 0 of the firmware says that the plant has left its loop.
THEOREM FirmwareCleanIsHonest == Spec => []FirmwareCleanMeansPlantLeft
<1>1. IInv => FirmwareCleanMeansPlantLeft
  BY DEF IInv, EndInv
<1> QED
  BY <1>1, Invariance, PTL

=============================================================================
