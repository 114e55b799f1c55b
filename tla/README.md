# Drone Mini SIL: a verification project in TLA+

The repository holds the flight firmware of a small quadcopter (`firmware/main`),
a Python plant that simulates the airframe (`plant`), and a software-in-the-loop
(SIL) runner in which the two exchange one message each per millisecond tick
(`sim`, `plant/runner.py`). This directory models the parts that decide
something — arming, failsafe, calibration, the output gate, the RC byte stream
and its frames, the controllers and the mixer, the lockstep protocol and its
messages, the flight scenarios — as TLA+ modules, checks them with TLC on small
instances, and proves theorems about them with TLAPS.

## 1. Inventory

| Component | State | Operations | Talks to | What makes it correct |
|---|---|---|---|---|
| Failsafe FSM (`flight/failsafe.cpp`) | armed, active, latch, boot latch, reasons, last good frame, streak, debounce counters | `reset`, `boot`, `update` | called by the loop; read by output stage and LED | latches agree and stick; armed excludes latched; arming takes a streak of fresh frames; deadlines are exact |
| Estimator (`flight/estimator.cpp`) | calibration state, samples, sum, bias; IMU debounce; decimation; attitude | `reset`, `calibrateUpdate`, `update` | called by the loop, on `armed()` | bias of still samples only, frozen once found |
| Control loop (`flight/control_loop.cpp`) | tick, shift; the context's objects | `tick` | everything below | stages see this tick's verdicts; motors only on evidence |
| Output stage (`flight/output.cpp`) | none | `apply` | HAL's PWM | the only way to the motors |
| LED (`flight/led.cpp`) | mode, phase | `set`, `update` | HAL | shows the worst condition |
| SBUS parser (`flight/rc_parse.cpp`) | 64-byte buffer, frames | `reset`, `feed` | HAL's bytes, the loop | chunking is invisible; nothing lost to short bursts; a channel comes out as it went in |
| Mixer (`flight/mixer.cpp`) | none | `write` | rate controller, output stage | range, torque kept, shift's sign is the saturated side |
| PID, rate, attitude (`flight/pid.cpp`) | integrators, filters, last shift | `step`, `update`, `reset` | mixer | no integration into saturation |
| SIL plant (`plant/runner.py`) | tick, sequence, log, exit code, child | `run` | socket, firmware process | clean exit means a whole run; no firmware left behind |
| SIL firmware (`sim/main_sil.cpp`, `hal/hal_sil.cpp`) | sequence numbers, last state, socket | `main`, `connectTo`, `helloAck`, `recvState`, `sendOut`, `sendBye` | socket | each STATE processed once; ends with its plant |
| Wire format (`hal/sil_wire.*`, `plant/sil_proto.py`) | CRC table, receive buffer | pack, unpack, HELLO | both sides | same layout on both sides; only intact messages accepted |
| Log (`plant/log.py`) | file | `write_row`, `close` | runner, tools | marker tells an aborted run |
| RC scenarios (`plant/rc.py`) | the tick | `raw`, `cmd`, one `_frame` and `_cmd` per scenario | the plant; the firmware's parser | each scenario flies and fails when its tests assume it does |
| Physics, IMU noise, battery, log tools, mock HAL, host bindings | – | – | tests | not modelled, see section 8 |

The hard behaviours: sequences of frames, faults, requests and resets that no
test runs; two debounce counters on one IMU that count different ticks;
calibration data one tick old when the failsafe reads it; a byte stream cut
anywhere; scenarios whose timing must fit limits kept in another language;
message layouts written out twice; float commands outside their range; and, in
the SIL, two processes whose timeouts, crashes and closes race with each other's calls. `PROJECT.json`
lists each of these hazards at its line with the properties aimed at it.

Two programs run the loop: `app_main` (on the chip, never with `arm_test`) and
`sil_runner` (with a constant `--arm-test` or without). On the chip the hardware
HAL is still a stub whose `init()` fails, so the loop is not entered yet.

## 2. Modules

| Module | Models | State and actions |
|---|---|---|
| `ArmGate` | abstract: what the failsafe promises the output stage | `mode` in Safe/Armed/Locked and a streak of fresh frames |
| `Failsafe` | `FailsafeFsm` | one variable per member; `Tick` is one `update()`, with an operator per section of it; `Reset` is a reset of the chip and `boot()` |
| `Estimator` | `ComplementaryEstimator` without its filter | `Calibrating`, `Updating`, `Reset`, one per member function |
| `ControlLoop` | `ControlLoop::tick`, `OutputStage::apply`, the LED's mode | instances of `Failsafe` and `Estimator` over shared variables; a tick with or without a frame, and a restart |
| `SbusParser` | `SbusParser` | the buffer, and the stream received as a history variable |
| `SbusCodec` | `sbus_encode` (`plant/rc.py`) and `SbusParser::channel` | operators on frames of 25 bytes, bit by bit |
| `Mission` | `plant/rc.py`'s scenarios over the whole tick | extends `ControlLoop` and `SbusCodec`; `PlantTick` is one iteration of both loops |
| `Mixer` | `QuadXMixer::write` | the sums, the shift and the channels of the last call |
| `Cascade` | the tick's control section in its three modes: sticks, `AttitudeController`, `RateController`, `Pid`, or open-loop commands, and `Mixer` | extends `Mixer`; the integrators and the last shift; a tick in each mode, and `reset()` |
| `Lockstep` | `run()` and `main()` with the connection between them | a program point per process, an action per system call the peer can see |
| `Wire` | `hal/sil_wire.*` and `plant/sil_proto.py`: header, CRC, structs, handshake | a message on the line; sending, damage, receiving by both implementations |
| `FailsafeProofs`, `EstimatorProofs`, `ControlLoopProofs`, `SbusParserProofs`, `CascadeProofs`, `LockstepProofs` | theorems about the module of that name; `CascadeProofs` begins with the lemmas on `Mixer` | |
| `MissionProofs` | theorems about `Mission`, and about the frames of `SbusCodec`; extends `ControlLoopProofs` | |
| `WireProofs` | theorems about `Wire` | |
| `MC*` | sets for the constants of the runs | |

How the models abstract:

* **Time** is counted in control ticks. `Failsafe` has the HAL's clock as `now`;
  a frame is stamped no later than the clock (`control_loop.cpp:20,26`).
* **Values** become classes where the code compares them with one limit: the
  throttle is low or high, the voltage ok, critical or not a number; the reason
  bits are a set. A gyro reading is an integer on one axis, with readings on
  both sides of the motion limit.
* **`ControlLoop`** has the program's argument `arm_test` as a variable that is
  chosen once and never changes, as both programs pass a constant. It reads the
  stages' results in the order of the code, so a later stage's guard is over primed variables: the failsafe sees last tick's
  `calibrated()` (`state = "Done"`), the estimator this tick's `armed()`.
  `frame_ok` is true whenever a frame was decoded, as `control_loop.cpp:19`
  overwrites what `decodeFrame` had said.
* **`SbusParser`** has three kinds of byte: the header, another byte with a zero
  upper nibble, any other. A channel is a byte, a frame `FrameLen` bytes. The
  loop of `feed()` is a recursive function of the position, and the reference it
  is compared with (`Starts`) is a set defined by what a frame is, without
  an order in which to look.
* **`Mission`** counts ticks of 1 ms and writes sticks in thousandths. Once its
  scenario, the receiver's period and the tick of the IMU failure are chosen it
  is deterministic, so its properties are closed forms: the tick in which the
  motors start, the one in which the failsafe comes up. A frame goes through
  `SbusCodec` bit by bit and through the scaling of `rc.py` and `rc_parse.cpp`;
  as a frame depends on few values of the tick, what the firmware makes of each
  is one table, `Heard`. The plant is at rest until its motors turn.
* **`SbusCodec`** and **`Wire`** have a byte as the set of its bits that are one,
  so that exclusive or is the symmetric difference, and a shift is arithmetic on
  bit numbers.
* **`Wire`** has messages in the order of a run (`Follows`), reads each with both
  implementations and compares them. The firmware's `rx_` is kept from message to
  message, as the bytes behind a short one are still there. A line may cut,
  lengthen or alter a message. What a scalar means, float or integer, is left out.
* **`Mixer`** is in fixed point with `One` units per full duty; float rounding
  is not modelled.
* **`Cascade`** takes the mixer's `Write` as part of its tick. Gains are the same
  on each axis, except yaw's attitude gain, which is 0 as in `flight_params.hpp`.
  The D term is any value of a set, as it depends on measurements of any past.
* **`Lockstep`** has AF_UNIX SOCK_SEQPACKET as it behaves on Linux: ordered and
  lossless; a connection is up before it is accepted; sending to a closed end
  fails; closing an end with unread data resets the peer, whose next call fails
  even if it has data to read. A `FW_OUT` carries the STATE it was computed
  from, which is how a row of the log is told from one shifted by a tick.
  `faults`, chosen once for a run, is what may go wrong in it; with `odd` and
  `replay` a peer misbehaves as the fake plants of `tests/test_hal_seam.py` do.

## 3. Runs

| Run | Question | Bounds |
|---|---|---|
| `failsafe` | latches, streak, deadlines and the arming gate, without `--arm-test` and under callers that raise and drop it | debounce, streak and timeout limits of 2, lost-frame limit 1; clock to 4 |
| `estimator` | calibration and debounce under any order of calls | 3 samples, readings -2..2, limit 1 |
| `loop` | the whole tick, with `--arm-test` and without | 2 samples to calibrate; lost-frame limit 1; clock to 7 |
| `sbus` | parsing is independent of chunking | frames of 5 bytes, buffer of 10, streams to 11 |
| `cascade` | limits, desaturation, single-axis commands, anti-windup, in all three modes | full duty of 4 units, output limit 2, six stick positions, four gyro readings; open-loop commands -5..5 and NaN |
| `lockstep` | what exit codes, rows and markers mean under all faults, that each process ends, and that a run without faults completes | 3 ticks; odd messages are garbled, a second HELLO or an ACK |
| `mission` | in which ticks each scenario's motors turn and its failsafe comes up, and that the firmware hears the command the scenario logs | the firmware's own limits; 3.3 s; every scenario with a frame per tick, one of each kind with a receiver of 14 ms and with an IMU failing at 100, 200 and 1500 ms |
| `wire` | whether both languages agree on every message, intact or damaged | one message of each type, sequence numbers 0 and 2^32-1, builds that differ in each number; one damage per message: a byte altered in one of two bits or in all, a cut, a byte too many |

The runs of section 4 use the same instances, `lockstep_contract` with two ticks
and timeouts as the only fault.

The bounds let the interesting cases happen: each counter passes its limit and
is reset, the clock leaves time to calibrate, arm, fail, restart and arm again;
streams hold two frames, overlapping candidates and a burst that overflows the
buffer; mixes saturate on neither, either or both sides; a lockstep run has a
first, a middle and a last tick, which are the ones the code distinguishes; a
scenario's last event of interest is the timeout after 3 s; a field of a wire
message has bytes that differ from every other's, so that a swap shows.
Streams in `sbus` are bounded by `MaxStream` bytes since a reset, clocks by
`MaxTime`, lockstep runs by `NTicks` and one repeated copy per queue.

`CHECK_DEADLOCK` is off only in `wire`, where a session is over after BYE or
with the first message refused. Everywhere else it is on: clocks and streams
start over at a reset, and a lockstep run or a mission that has ended stutters
explicitly (`Stopped`, `Finished`).

### Fairness

Safety needs none. The liveness properties of `Lockstep` carry their fairness as
a hypothesis. `RunsToCompletion` assumes weak fairness of each process: the
operating system schedules a process that can run. `EachProcessEnds`
assumes it of the process it speaks of only, so the other may hang for ever;
what makes it hold is the code's timeouts (`settimeout`, `SO_RCVTIMEO`, the
bounded wait before `proc.kill()`), which are steps of the waiting process.

## 4. What the runs found

Four runs have a counterexample; each contradicts a sentence of the repository.

* `loop_stays_armed` — "once armed the craft stays armed while the switch is on
  and nothing has faulted" (`failsafe.cpp:78-79`): one tick without a decoded
  frame disarms. RC frames arrive every few ticks of a 1 kHz loop.
* `cascade_windup` — "hold I while saturated in the error's direction"
  (`pid.cpp:44`): each axis drives two motors either way, so the side that the
  shift's sign reports is the direction of only half the errors; the others
  integrate on while their motor is saturated. `HeldOnTheSaturatedSide` says what
  does hold.
* `cascade_yaw` — "yaw is always a rate command" (`pid.hpp:50-51`): in attitude
  mode the yaw stick is never read.
* `lockstep_contract` — "Exit codes match the wire contract" (`runner.py:4-5`):
  a firmware that has already ended makes the plant's `sendall` raise, and the
  plant exits with 1. A firmware that timed out first is enough.

One more was seen while modelling and is not checked by a run: a timeout in the
handshake ends either process with 2, where `sil_wire.hpp:25-26` has 3 for a
timeout (`FwTakeAck`, `PlantNoHello`).

What holds is as informative. A log that does not read as aborted may still lack
the row of the last tick (`UnabortedLogLacksAtMostOne`), and that of a killed
plant lacks any number, but exit code 0 never
does (`CleanMeansComplete`), because the BYE that follows fails. Exit code 0
of the firmware only says that the plant has left its loop
(`FirmwareCleanMeansPlantLeft`). Repeated messages never shift the rows of a log
(`RowsPairStates`). Desaturation keeps the torques wherever they can be kept
(`TorqueIsKept`), and otherwise uses the whole range (`FullAuthority`). The
estimator's count of bad samples is carried over from one armed period to the next (`estimator.cpp:57-63` runs only while armed),
so that a single bad sample may stop an armed craft's motors, but only for that
sample (`StopsForABadSampleOnly`). Under `--arm-test` the craft flies uncalibrated, and
the tick in which a fault ends that flight begins to calibrate on a sample taken
while the motors still turned (`BiasFrozenInFlight` names this exception); it
does no harm, as that craft does not fly again before a restart
(`FliesOnEarlierBias`, its other half).

The missions say what a scenario's author has to know. Without `--arm-test` only
the windowed scenarios fly, from tick 200 on, in the first tick after the
calibration; `hover` and its like never do, as their throttle is never low; and
`cut` starts its motors by cutting the throttle (`ArmAt`). A receiver that is
slower than the loop never arms the craft at all. A wire message damaged in one
place is refused by both sides, except for a byte appended to it, which neither
looks at (`OnlyIntactIsAccepted`).

## 5. What is proved

`FailsafeProofs` proves for all constants (limits, timeout, step sizes, callers)
each property that the `failsafe` run checks. The inductive invariant `IInv`
is `TypeOK`, `LatchesAgree` and `ArmedIsClean` with two strengthenings:

* `ClockInv`: a frame's stamp is never ahead of the clock, a receiver that has
  sent nothing has an empty streak, and a streak is no longer than the number of
  distinct stamps up to its last. `StreakIsFresh` follows from it.
* `FlightInv`, which says something only without `arm_test`: a standing fault is
  latched, and an armed craft has seen enough distinct stamps to arm. Without
  the second part the refinement of `ArmGate` could not tell staying armed from
  arming.

`ArmedIsClean` is not inductive by itself: it follows from the last lines
of `update()` only if the latch flags agree with `active_`. The proof has a lemma for each
section of `update()`, one step per action and one per conjunct it can disturb.
The action properties and the refinement of `ArmGate` follow from `IInv` in the
same shape: every update maps to an observation together with one of the gate's
moves, every reset to a restart. The assumptions are those named in `Failsafe`:
the limits are positive naturals.

`EstimatorProofs` proves both invariants of `Estimator` for every number of
samples, limit and decimation and for any order of calls. That the bias is made of
still samples needs the same bound on the sum while it is being collected, and
that a collection which is not done has room for a sample (`RoomForMore`): the
code tests the count only after it has added one.

`ControlLoopProofs` rests on those two. `UsesFailsafe` and `UsesEstimator` show
that every behaviour of the loop is one of the failsafe's and one of the
estimator's specification: a tick's sample, clock and `arm_test` are
ones that `Failsafe`'s callers may pass. So what is proved of the parts holds in
the loop (`FailsafeHolds`, `LoopStillBias`) without being proved again. The four
properties of the loop then follow with two facts that relate the parts. Without
`--arm-test`, an armed craft is calibrated (`ArmedIsCalibrated`), since the failsafe
arms on last tick's `calibrated()` and only a restart takes that back. With it
(`ArmedOnce`), the craft is armed in the first tick, before any calibration, until a
fault latches, which then stays latched.

`SbusParserProofs` proves, for every length of frame and buffer, all properties of
`SbusParser`. The core is `ScanFindsTheFrames`: on every sequence of
bytes the scan loop takes exactly the frames of the reference and stops at the
first position on which it cannot decide. The scan looks ahead only, so facts
about it are shown from the last position backwards (`DownwardInduction`, from the
library's theorem that a set of naturals has a least member), among them
that the recursion has a solution at all (`ScanHasSolution`). The reference is
unique (`StartsAreUnique`), and reading in pieces finds what reading at once does
(`ReadingInPieces`), because a skipped byte stays skipped: a position is only
passed once its whole frame was there, or lies inside a frame taken. With these,
`TypeOK` and `ChunkingIsInvisible` are inductive as they stand.

`CascadeProofs` proves for all gains, limits and inputs, NaN included, each
property that the `cascade` run checks. Its invariant is `TypeOK` with three
facts on the last tick: the channels and the shift are those that `write()` makes
of the sums (`Written`), the sums of a closed-loop mode are those of the axes'
commands (`Commanded`), and the shift that anti-windup will read is this mix's or
0, and 0 after an open-loop tick (`ModeShift`). The lemmas on `write()` come
first: what clamping, and the highest and the lowest of four sums, are, and
the cases of which side saturates. `SingleAxisIsKept` needs one assumption that
`flight_params.hpp` meets: an output limit of at most half a full duty.

`MissionProofs` proves the four properties of the `mission` run for runs of any
length, every period of the receiver and every tick in which the IMU may fail, in
four stages.

* The codec. Each channel that the plant packs comes out as it went in, for all
  channels and flags (`RoundTrip`), by the decomposition of a channel's bit number
  into byte and bit, for the two and the three byte window; and the firmware
  accepts a frame if and only if its channels are not all the same (`Accepted`).
* The command. A stick comes through the scaling of `rc.py` and `rc_parse.cpp`
  within a thousandth, for every value a scenario sends, and every scenario sends the
  frame of its command (`CommandSurvives`).
* The loop. What a mission puts into a tick is a sample, a voltage and a frame
  that `ControlLoop` has in its constants, and the clock never goes back
  (`DrivenInv`); hence a mission is a behaviour of `ControlLoop`
  (`MissionsRunTheLoop`), and the theorems of `ControlLoopProofs` hold in each, as
  `MissionMotorEvidence` says of one.
* The script. `ScriptInv` says in closed form what each member of the flight
  context is in tick t: the streak and the last frame (`ReceiverInv`), the debounce
  counters (`SensorInv`), how far the calibration is (`CalibrationInv`), what has been
  latched (`LatchInv`) and whether the craft is armed (`ArmedInv`). No part is inductive
  without the ones before it. `FaultsOnTime` and `MotorScript` follow.
  `ScriptAssumption` names what the scripts take for granted of the firmware's
  numbers: the calibration and a streak end inside the window of 400 ms in which the
  throttle is low, one frame is no streak, one bad sample no fault, a craft at
  rest is still, and the receiver is no slower than its timeout. With the numbers of
  `flight_params.hpp` all hold; TLC evaluates them with those.

`WireProofs` proves for every message and whatever may happen to its bytes that the
two languages agree. It is the longest of the modules, since it has to follow bytes
through structs and formats.

* Folds. `Running` applies an operation element by element; `RunningIs` shows
  that the recursion has the solution one expects. The CRC, the widths of a
  format and the joining of parts are all instances of it.
* The CRC. A table of the 256 remainders and a division bit by bit make the
  same CRC of every sequence of bytes (`SameCrc`). Each of their steps can be undone, as the
  polynomial's last bit is set, so two sequences of one length that differ in one byte differ
  in their CRC (`CrcNoticesOneByte`).
* The layouts. The scalars of a struct's members, in order, have the widths of the
  format's (`FormatFits`), so what one language writes the other reads field by
  field (`CarriedAndRead`); and the sizes compared in the handshake are equal (`SameSizes`).
* The line. `LineInv`: there are bytes on it, those of the message if nothing has
  happened to them, and what both readers made of them is the same. Here the
  lemma is `VerdictsAgree`: `unpackMsg`, given a longer buffer with anything behind
  the message, never looks further than it says it has received. From it follow
  `OneVerdict`, `Handshake` and, with `CarriedAndRead`, `WholeMessages`.
* One blow. `StruckInv` adds what one blow can make of a message: a byte changed in
  any way, a cut, or bytes too many. A header read is a header written
  (`HdrIsWritten`), so whatever is accepted holds the CRC of all its other bytes
  (`AcceptedIsSealed`), and a changed byte breaks that (`OneByteUnseals`). `OneBlow`
  then says what `OnlyIntactIsAccepted` and `ContentSurvives` say, for one blow
  unless it makes the length in the header smaller (`NotShortened`).

`MessagesAssumption` is that a message is of one of the five types and has the fields of
its struct, each of its width; `DamageAssumption` that damage to a byte makes it
another byte.

`LockstepProofs` proves the safety properties of `Lockstep` for runs of any
length and for all faults. The invariant has four parts besides
`TypeOK` and `NoOrphan`:

* `PairInv`: while the plant is in its loop, it has a row for each tick it
  finished, and the only `FW_OUT` it would still accept is the answer to this
  tick's STATE, the last that the firmware sent. Hence no repetition shifts a row.
* `CountInv`: the firmware numbers its messages one per STATE, and what it has
  sent carries a number it has passed.
* `EndInv`: a closed end belongs to a process that has left, a BYE comes from a
  plant that has left its loop, and so does a firmware's exit code 0.
* `LogInv`: a plant that goes on to its BYE has all rows, or lacks the last one as
  the firmware's end is closed; the BYE then fails, so the exit code is not 0.

The faults that may happen are those of `FaultKinds`. `LockstepAssumption` has that
a garbled or odd message is not a well-formed STATE, FW_OUT or BYE: a peer that
makes one up is another program. With a made-up FW_OUT a row is wrong, with a made-up BYE a
run ends early and cleanly, in the model as in the code; a made-up STATE of
sequence number 0 breaks none of the properties on the small instance, but the
invariant is not strong enough to prove that.

The proofs assume of the constants what each module states in its named ASSUMEs:
limits, sizes and steps are positive naturals, a set of readings is of integers
and not empty. TLC evaluates each of them in the runs.

## 6. What is only model-checked

* Liveness: `RunsToCompletion` and `EachProcessEnds` of `Lockstep`, which need
  fairness and ENABLED.
* `OnlyIntactIsAccepted` and `ContentSurvives` of `Wire` for a blow that makes the
  length in the header smaller, which moves the end of what the CRC covers. The CRC of the
  shorter message is then another number of 32 bits, but which one depends on the
  content, and for some content the two are equal: the properties are not theorems.
  The same is true of two blows. TLC checks them for the messages of the `wire` run.
* The four counterexamples of section 4 are TLC's.

## 7. Plan

1. An abstract specification of a run and its log, implemented by `Lockstep`.
2. A session of `Wire`'s messages under `Lockstep`'s processes, which now takes a
   message as well-formed or not.
3. Smaller parts: the LED's blink phase, the battery.

## 8. What is not modelled, and why

The plant's physics, the IMU noise and the complementary filter are floating
point without discrete state; so is the wrap of an angle. The content of a
row of the log is arithmetic on the plant's state. `sbus_decode` and
`sbus_to_stick` only feed the log, `serveHello`, `pack_out` and `unpack_state`, the
mock HAL and the bindings only the tests. `Lockstep` leaves out two ways for the plant
to end: a peer of another user (`runner.py:89-91`), and the `struct.error` that a body of the
wrong length under a valid CRC would raise from `unpack_hello` or `unpack_out`; a
firmware of this repository is and sends neither. The log tools read finished files.
Float rounding is left out throughout; where `Mission` compares scaled sticks,
its integer forms give the verdicts of the float comparisons for every value a
scenario sends.
