------------------------------ MODULE Lockstep ------------------------------
(***************************************************************************)
(* The SIL lockstep: the plant (plant/runner.py, the server) and the       *)
(* firmware (sim/main_sil.cpp over hal/hal_sil.cpp, the client) exchange   *)
(* one STATE and one FW_OUT per tick over an AF_UNIX SOCK_SEQPACKET        *)
(* connection, and each ends with an exit code.  One action per system     *)
(* call that the other process can see, with the code that follows it.     *)
(*                                                                         *)
(* What a tick computes is left out; a FW_OUT records in `of' the STATE it *)
(* was computed from, which is what a row of the log claims to pair.       *)
(***************************************************************************)
EXTENDS Integers, Sequences

CONSTANTS
  NTicks,      \* n_ticks of the run
  FaultSets,   \* what may go wrong in one run: any one of these subsets of FaultKinds
  OddTypes     \* what a peer that breaks the protocol may send

FaultKinds == {"slow",      \* a wait may outlast its timeout
               "crash",     \* either process may be killed
               "mismatch",  \* the two sides may be built with other sizes
               "odd",       \* a message may be replaced by one of OddTypes
               "replay",    \* a message may be sent twice
               "nan"}       \* the plant's state may become not finite

\* A forged BYE, STATE or FW_OUT is not odd: it is what another program that
\* speaks the protocol sends, and may end or fill a run with.
ASSUME LockstepAssumption == /\ NTicks \in Nat \ {0}
                             /\ FaultSets \subseteq SUBSET FaultKinds
                             /\ OddTypes \subseteq {"HELLO", "ACK", "Garbled"}

VARIABLES
  pc,          \* where each process is
  code,        \* the exit code each has settled on
  end,         \* each process's end of the socket
  queue,       \* queue[p]: what p has been sent and has not yet received
  reset,       \* processes whose next call on the socket fails: ECONNRESET
  match,       \* the two builds agree on the HELLO
  faults,      \* what may go wrong in this run
  tick, last_out_seq, aborted, rows, log,    \* of the plant
  seq, last_state_seq                        \* of the firmware

plantvars == <<tick, last_out_seq, aborted, rows, log>>
fwvars    == <<seq, last_state_seq>>
sockvars  == <<end, queue, reset>>
given == <<match, faults>>
vars == <<pc, code, sockvars, given, plantvars, fwvars>>

Process == {"plant", "firmware"}
Peer(p) == IF p = "plant" THEN "firmware" ELSE "plant"

Clean == 0
Proto == 2
Timeout == 3
Numerical == 4
Traceback == 1      \* the interpreter's own, after an uncaught exception
Killed == 9         \* by a signal
Running == -1

\* Garbled: what unpackMsg and unpack_msg refuse, for its header or its CRC.
Types == {"HELLO", "ACK", "STATE", "FW_OUT", "BYE", "Garbled"}

\* The header's fields that either side looks at; the payload is `of'.
Message == [type : Types, seq : Nat, of : Int]

TypeOK ==
  /\ pc \in [Process -> {"accept", "hello", "tick", "out", "bye", "cleanup", "reap",
                         "connect", "ack", "state", "send", "close", "exited"}]
  /\ code \in [Process -> {Running, Clean, Traceback, Proto, Timeout, Numerical, Killed}]
  /\ end \in [Process -> {"none", "listening", "pending", "open", "closed"}]
  /\ queue \in [Process -> Seq(Message)]
  /\ reset \subseteq Process
  /\ match \in BOOLEAN /\ faults \subseteq FaultKinds /\ aborted \in BOOLEAN
  /\ rows \in Seq(Int)
  /\ tick \in 0..NTicks /\ last_out_seq \in -1..seq
  /\ log \in {"none", "open", "complete", "aborted"}
  /\ seq \in 0..NTicks + 1 /\ last_state_seq \in -1..NTicks - 1

Goto(p, l) == pc' = [pc EXCEPT ![p] = l] /\ UNCHANGED code

-----------------------------------------------------------------------------
(* The connection.                                                         *)

Up(p) == end[p] \in {"pending", "open"}

\* A wait of p's ends with the peer's reset, a message, the end of the stream
\* or, where the environment is slow enough, its timeout.
IsReset(p)  == p \in reset
HasMsg(p)   == p \notin reset /\ queue[p] # <<>>
IsEof(p)    == p \notin reset /\ queue[p] = <<>> /\ end[Peer(p)] = "closed"
TimesOut(p) == p \notin reset /\ queue[p] = <<>> /\ end[Peer(p)] # "closed" /\ "slow" \in faults

Received(p) == Head(queue[p])
Take(p) == queue' = [queue EXCEPT ![p] = Tail(@)] /\ UNCHANGED <<end, reset>>

\* Sending fails once the peer's end is closed, or after a reset.
SendFails(p) == p \in reset \/ ~Up(Peer(p))
Msg(type, s, of) == [type |-> type, seq |-> s, of |-> of]
Sent(p, m) == [queue EXCEPT ![Peer(p)] = Append(@, m)]

\* Closing an end with unread messages, or a connection nobody has accepted,
\* resets the peer; the peer's own unread messages stay readable.
Close(p) ==
  /\ end' = [end EXCEPT ![p] = "closed"]
  /\ queue' = [queue EXCEPT ![p] = <<>>]
  /\ reset' = IF Up(Peer(p)) /\ (queue[p] # <<>> \/ end[p] = "pending")
              THEN reset \cup {Peer(p)} ELSE reset

-----------------------------------------------------------------------------
(* The log: CsvWriter, and what load_log makes of its file.                *)

OpenLog == log' = "open"

WriteRow(of) == rows' = Append(rows, of)

CloseLog(abort) == log' = IF log = "none" THEN "none" ELSE IF abort THEN "aborted" ELSE "complete"

\* A file without a marker, whose writer was killed, does not read as aborted.
ReadsAborted == log = "aborted"

-----------------------------------------------------------------------------
(* The plant: run() in plant/runner.py.                                    *)

\* return c, or an exception that makes the interpreter exit with c: on to
\* the finally block.
Leave(c) == pc' = [pc EXCEPT !["plant"] = "cleanup"] /\ code' = [code EXCEPT !["plant"] = c]

PlantAccept ==
  /\ pc["plant"] = "accept" /\ end["plant"] = "pending"
  /\ end' = [end EXCEPT !["plant"] = "open"]
  /\ Goto("plant", "hello")
  /\ UNCHANGED <<queue, reset, given, plantvars, fwvars>>

PlantAcceptTimeout ==
  /\ pc["plant"] = "accept" /\ end["plant"] = "listening" /\ "slow" \in faults
  /\ Leave(Timeout)
  /\ UNCHANGED <<sockvars, given, plantvars, fwvars>>

\* A HELLO, answered with an ACK; one of other sizes is answered too.
PlantTakeHello ==
  /\ pc["plant"] = "hello" /\ HasMsg("plant")
  /\ UNCHANGED <<end, reset, given, tick, last_out_seq, aborted, rows, fwvars>>
  /\ LET hello == Received("plant").type = "HELLO"
         acked == hello /\ ~SendFails("plant")
     IN /\ queue' = [queue EXCEPT !["plant"] = Tail(@),
                                  !["firmware"] = IF acked THEN Append(@, Msg("ACK", 0, -1)) ELSE @]
        /\ IF acked /\ match THEN OpenLog /\ Goto("plant", "tick")
           ELSE Leave(IF hello /\ ~acked THEN Traceback ELSE Proto) /\ UNCHANGED log

\* A closed connection or a timeout is a bad HELLO.  (There is no reset yet:
\* the firmware has been sent nothing that it could leave unread.)
PlantNoHello ==
  /\ pc["plant"] = "hello"
  /\ IsEof("plant") \/ TimesOut("plant")
  /\ Leave(Proto)
  /\ UNCHANGED <<sockvars, given, plantvars, fwvars>>

PlantSendState ==
  /\ pc["plant"] = "tick"
  /\ \/ SendFails("plant") /\ Leave(Traceback) /\ UNCHANGED queue
     \/ ~SendFails("plant") /\ Goto("plant", "out") /\ queue' = Sent("plant", Msg("STATE", tick, -1))
  /\ UNCHANGED <<end, reset, given, plantvars, fwvars>>

\* Mutant: the sequence number of a FW_OUT is not looked at.
AcceptsOutAny(m) == m.type = "FW_OUT"

AcceptsOut(m) == m.type = "FW_OUT" /\ m.seq > last_out_seq

\* A FW_OUT becomes a row, and the plant steps on; anything else ends the run.
PlantTakeOut ==
  /\ pc["plant"] = "out" /\ HasMsg("plant") /\ Take("plant")
  /\ LET m == Received("plant")
     IN \/ /\ AcceptsOut(m)
           /\ last_out_seq' = m.seq
           /\ WriteRow(m.of)
           /\ \/ "nan" \in faults /\ Leave(Numerical) /\ UNCHANGED tick
              \/ tick' = tick + 1 /\ Goto("plant", IF tick + 1 < NTicks THEN "tick" ELSE "bye")
        \/ /\ ~AcceptsOut(m)
           /\ IF m.type = "BYE" THEN Goto("plant", "bye") ELSE Leave(Proto)
           /\ UNCHANGED <<last_out_seq, rows, tick>>
  /\ UNCHANGED <<given, aborted, log, fwvars>>

\* Mutant: the firmware may close at any tick.
MayCloseAnyTick == TRUE

\* A firmware that closes in the last tick has still run to the end.
MayClose == tick >= NTicks - 1

\* Mutant: the wait for a FW_OUT has no timeout.
PlantNoOutPatient ==
  /\ pc["plant"] = "out"
  /\ \/ IsReset("plant") /\ Leave(Traceback)
     \/ IsEof("plant") /\ IF MayClose THEN Goto("plant", "bye") ELSE Leave(Proto)
  /\ UNCHANGED <<sockvars, given, plantvars, fwvars>>

PlantNoOut ==
  /\ pc["plant"] = "out"
  /\ \/ IsReset("plant") /\ Leave(Traceback)
     \/ TimesOut("plant") /\ Leave(Timeout)
     \/ /\ IsEof("plant")
        /\ IF MayClose THEN Goto("plant", "bye") ELSE Leave(Proto)
  /\ UNCHANGED <<sockvars, given, plantvars, fwvars>>

\* Mutant: a BYE that cannot be sent is no error.
PlantSendByeAnyway ==
  /\ pc["plant"] = "bye"
  /\ aborted' = FALSE
  /\ Leave(Clean)
  /\ queue' = IF SendFails("plant") THEN queue ELSE Sent("plant", Msg("BYE", 0, -1))
  /\ UNCHANGED <<end, reset, given, tick, last_out_seq, rows, log, fwvars>>

\* The log is marked complete before the BYE that may still fail.
PlantSendBye ==
  /\ pc["plant"] = "bye"
  /\ aborted' = FALSE
  /\ \/ SendFails("plant") /\ Leave(Traceback) /\ UNCHANGED queue
     \/ ~SendFails("plant") /\ Leave(Clean) /\ queue' = Sent("plant", Msg("BYE", 0, -1))
  /\ UNCHANGED <<end, reset, given, tick, last_out_seq, rows, log, fwvars>>

\* The finally block: the log, then the connection and the listening socket...
PlantCleanup ==
  /\ pc["plant"] = "cleanup"
  /\ CloseLog(aborted)
  /\ Close("plant")
  /\ Goto("plant", "reap")
  /\ UNCHANGED <<given, tick, last_out_seq, aborted, rows, fwvars>>

\* Mutant: the plant leaves a firmware that does not end in time behind.
PlantReapLeaves ==
  /\ pc["plant"] = "reap" /\ (pc["firmware"] = "exited" \/ "slow" \in faults)
  /\ Goto("plant", "exited")
  /\ UNCHANGED <<sockvars, given, plantvars, fwvars>>

\* ... and then the firmware, which is killed if it does not end in time.
PlantReap ==
  /\ pc["plant"] = "reap"
  /\ \/ /\ pc["firmware"] = "exited"
        /\ Goto("plant", "exited") /\ UNCHANGED sockvars
     \/ /\ pc["firmware"] # "exited" /\ "slow" \in faults
        /\ pc' = [p \in Process |-> "exited"]
        /\ code' = [code EXCEPT !["firmware"] = Killed]
        /\ Close("firmware")
  /\ UNCHANGED <<given, plantvars, fwvars>>

-----------------------------------------------------------------------------
(* The firmware: main() in sim/main_sil.cpp.                               *)

\* return c: the destructor of hal closes the socket.
Return(c) ==
  /\ pc' = [pc EXCEPT !["firmware"] = "exited"]
  /\ code' = [code EXCEPT !["firmware"] = c]
  /\ Close("firmware")

\* connect() succeeds as soon as the plant listens, before it accepts; after
\* kConnectRetries refusals the firmware gives up.
FwConnect ==
  /\ pc["firmware"] = "connect"
  /\ \/ /\ end["plant"] = "listening"
        /\ end' = [plant |-> "pending", firmware |-> "open"]
        /\ Goto("firmware", "hello")
        /\ UNCHANGED <<queue, reset>>
     \/ end["plant"] = "closed" /\ Return(Timeout)
  /\ UNCHANGED <<given, plantvars, fwvars>>

FwSendHello ==
  /\ pc["firmware"] = "hello"
  /\ \/ SendFails("firmware") /\ Return(Proto) /\ UNCHANGED seq
     \/ /\ ~SendFails("firmware")
        /\ queue' = Sent("firmware", Msg("HELLO", seq, -1))
        /\ seq' = seq + 1
        /\ Goto("firmware", "ack") /\ UNCHANGED <<end, reset>>
  /\ UNCHANGED <<given, plantvars, last_state_seq>>

\* Only an ACK of the right sizes will do; every failure of the handshake, a
\* timeout among them, makes main() return 2.
FwTakeAck ==
  /\ pc["firmware"] = "ack"
  /\ \/ /\ HasMsg("firmware") /\ Received("firmware").type = "ACK" /\ match
        /\ Take("firmware") /\ Goto("firmware", "state")
     \/ HasMsg("firmware") /\ (Received("firmware").type # "ACK" \/ ~match) /\ Return(Proto)
     \/ (IsReset("firmware") \/ IsEof("firmware") \/ TimesOut("firmware")) /\ Return(Proto)
  /\ UNCHANGED <<given, plantvars, fwvars>>

\* Mutant: a STATE that was processed before is processed again.
AcceptsStateReplayed(m) == m.type = "STATE"

\* Mutant: last_state_seq_ starts at 0 and have_state_ is not looked at.
AcceptsStateNotFirst(m) ==
  m.type = "STATE" /\ m.seq > (IF last_state_seq = -1 THEN 0 ELSE last_state_seq)

\* Rejects a replay.  seq and t_us advance together in what a plant sends.
AcceptsState(m) == m.type = "STATE" /\ m.seq > last_state_seq

FwTakeState ==
  /\ pc["firmware"] = "state" /\ HasMsg("firmware")
  /\ LET m == Received("firmware")
     IN \/ /\ AcceptsState(m)
           /\ last_state_seq' = m.seq
           /\ Take("firmware") /\ Goto("firmware", "send")
        \/ m.type = "BYE" /\ Take("firmware") /\ Goto("firmware", "bye") /\ UNCHANGED last_state_seq
        \/ ~AcceptsState(m) /\ m.type # "BYE" /\ Return(Proto) /\ UNCHANGED last_state_seq
  /\ UNCHANGED <<given, plantvars, seq>>

\* Mutant: the socket has no receive timeout.
FwNoStatePatient ==
  /\ pc["firmware"] = "state"
  /\ (IsReset("firmware") \/ IsEof("firmware"))
  /\ Goto("firmware", "bye")
  /\ UNCHANGED <<sockvars, given, plantvars, fwvars>>

\* Mutant: a wait that times out ends the run like a connection that ends.
FwNoStateTimeoutIsEnd ==
  /\ pc["firmware"] = "state"
  /\ IsReset("firmware") \/ IsEof("firmware") \/ TimesOut("firmware")
  /\ Goto("firmware", "bye")
  /\ UNCHANGED <<sockvars, given, plantvars, fwvars>>

\* A connection that ends is a clean end, with or without a BYE.
FwNoState ==
  /\ pc["firmware"] = "state"
  /\ \/ /\ IsReset("firmware") \/ IsEof("firmware")
        /\ Goto("firmware", "bye") /\ UNCHANGED sockvars
     \/ TimesOut("firmware") /\ Return(Timeout)
  /\ UNCHANGED <<given, plantvars, fwvars>>

\* The tick itself, then FW_OUT.
FwSendOut ==
  /\ pc["firmware"] = "send"
  /\ \/ SendFails("firmware") /\ Return(Proto) /\ UNCHANGED seq
     \/ /\ ~SendFails("firmware")
        /\ queue' = Sent("firmware", Msg("FW_OUT", seq, last_state_seq))
        /\ seq' = seq + 1
        /\ Goto("firmware", "state") /\ UNCHANGED <<end, reset>>
  /\ UNCHANGED <<given, plantvars, last_state_seq>>

\* sendBye(), whose result nobody looks at, ...
FwSendBye ==
  /\ pc["firmware"] = "bye"
  /\ queue' = IF SendFails("firmware") THEN queue ELSE Sent("firmware", Msg("BYE", seq, -1))
  /\ Goto("firmware", "close") /\ UNCHANGED <<end, reset>>
  /\ UNCHANGED <<given, plantvars, fwvars>>

\* ... and close().
FwClose ==
  /\ pc["firmware"] = "close" /\ Return(Clean)
  /\ UNCHANGED <<given, plantvars, fwvars>>

-----------------------------------------------------------------------------
(* What may go wrong.                                                      *)

Crash(p) ==
  /\ "crash" \in faults /\ pc[p] # "exited"
  /\ pc' = [pc EXCEPT ![p] = "exited"]
  /\ code' = [code EXCEPT ![p] = Killed]
  /\ Close(p)
  /\ UNCHANGED <<given, plantvars, fwvars>>

\* p is sent, in place of the last message, one that does not belong there.
Oddity(p) ==
  /\ "odd" \in faults /\ queue[p] # <<>>
  /\ \E type \in OddTypes :
       queue' = [queue EXCEPT ![p][Len(queue[p])] = Msg(type, 0, -1)]
  /\ UNCHANGED <<pc, code, end, reset, given, plantvars, fwvars>>

Replay(p) ==
  /\ "replay" \in faults /\ Len(queue[p]) = 1
  /\ queue' = [queue EXCEPT ![p] = Append(@, Head(@))]
  /\ UNCHANGED <<pc, code, end, reset, given, plantvars, fwvars>>

-----------------------------------------------------------------------------
\* The plant listens, and has just started the firmware.
Init ==
  /\ pc = [plant |-> "accept", firmware |-> "connect"]
  /\ code = [p \in Process |-> Running]
  /\ end = [plant |-> "listening", firmware |-> "none"]
  /\ queue = [p \in Process |-> <<>>]
  /\ reset = {}
  /\ faults \in FaultSets
  /\ match \in IF "mismatch" \in faults THEN BOOLEAN ELSE {TRUE}
  /\ tick = 0 /\ last_out_seq = -1 /\ aborted = TRUE /\ rows = <<>> /\ log = "none"
  /\ seq = 0 /\ last_state_seq = -1

Plant ==
  \/ PlantAccept \/ PlantAcceptTimeout \/ PlantTakeHello \/ PlantNoHello
  \/ PlantSendState \/ PlantTakeOut \/ PlantNoOut \/ PlantSendBye
  \/ PlantCleanup \/ PlantReap

Firmware ==
  \/ FwConnect \/ FwSendHello \/ FwTakeAck
  \/ FwTakeState \/ FwNoState \/ FwSendOut \/ FwSendBye \/ FwClose

Environment == \E p \in Process : Crash(p) \/ Oddity(p) \/ Replay(p)

Ended == \A p \in Process : pc[p] = "exited"
Stopped == Ended /\ UNCHANGED vars

Next == Plant \/ Firmware \/ Environment \/ Stopped

Spec == Init /\ [][Next]_vars

-----------------------------------------------------------------------------
\* Exit code 0 of the plant stands for a whole run: a row for every tick, and
\* a log that does not say aborted, whichever way the last tick went.
CleanMeansComplete ==
  code["plant"] = Clean => Len(rows) = NTicks /\ ~aborted

\* Row k of the log was computed by the firmware from STATE k and no other,
\* whatever was replayed, lost in a reset or left unread on the way.
RowsPairStates == \A k \in DOMAIN rows : rows[k] = k - 1

\* Whoever loads the log of a plant that was not killed, and is not told that it
\* was aborted, misses at most the row of the last tick.
UnabortedLogLacksAtMostOne ==
  pc["plant"] = "exited" /\ code["plant"] # Killed /\ log # "none" /\ ~ReadsAborted
    => Len(rows) >= NTicks - 1

\* A plant that ends, unless it is killed itself, leaves no firmware behind.
NoOrphan == pc["plant"] = "exited" /\ code["plant"] # Killed => pc["firmware"] = "exited"

\* Exit code 0 of the firmware does not say that the run was whole (a plant that
\* dies gives it one too), but it does say that the plant has left its loop: a
\* plant that hangs, replays or sends garbage never leads to it.
FirmwareCleanMeansPlantLeft ==
  code["firmware"] = Clean => pc["plant"] \in {"cleanup", "reap", "exited"}

\* Where nothing goes wrong and the operating system keeps running both
\* processes, the run ends, both of them cleanly and with a full log.
RunsToCompletion ==
  faults = {} /\ WF_vars(Plant) /\ WF_vars(Firmware) =>
    <>(Ended /\ code = [p \in Process |-> Clean] /\ log = "complete" /\ Len(rows) = NTicks)

\* Where waits do time out, each process ends, as long as it is scheduled
\* itself, whatever the other does, one that hangs for ever included.
EachProcessEnds ==
  "slow" \in faults =>
    /\ WF_vars(Plant) => <>(pc["plant"] = "exited")
    /\ WF_vars(Firmware) => <>(pc["firmware"] = "exited")

\* The wire contract (runner.py:4): the plant's own exit code is one of four.
ContractCodes ==
  pc["plant"] = "exited" /\ code["plant"] # Killed
    => code["plant"] \in {Clean, Proto, Timeout, Numerical}

=============================================================================
