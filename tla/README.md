# robstride_driver in TLA+

`robstride_driver` is a C++ library that drives RobStride motors over CAN: a
class for the motor, a codec for the vendor's private protocol, three
transports, and some bench programs.  The code is small and sequential; what
makes it hard is its environment.  A command is one frame out and one frame
back over a bus that loses and delays frames, carries those of others, and
gives the host no way to tell which command an answer answers.  These modules
say what the driver makes of that.

All paths below are relative to the repository root, as `src/...` here.

## 1. The system

| Component | State | Operations | Talks to |
|---|---|---|---|
| `RobstrideMotor` (`src/src/robstride_motor.cpp`) | cached `last_feedback_`; inside a call: the deadline and the exchange it is in | `enable`, `disable`, `set_run_mode`, `get_run_mode`, `configure_velocity_mode`, `send_velocity_command`, `send_position_csp_command`, `send_motion_command`, `set_mechanical_zero`, `read_param_*`, `write_param` | one `CanInterface`, shared with other instances if calls are serialized |
| codec (`src/src/protocol.cpp`) | none | make and parse frames, scale physical values | called by the motor class and the simulated motor |
| `CanInterface` | none | `send`, `receive(timeout)` | implemented by the three transports |
| `AtSerialCanInterface`, `FrameParser` (`src/src/at_serial_can_interface.cpp`) | parser buffer, tty | `send` (a `write` loop), `receive` (poll, deadline, `select`, `read`) | the USB-CAN module |
| `SocketCanInterface` | socket, kernel filter and queue | `set_motor_id_filter`, `send`, `receive` | the kernel |
| `StubCanInterface` | simulated motors, response queue | `send`, `receive`, `set_fault_bits` | nobody: it is the bus and the motors |
| `PositionUnwrapper` (`position_unwrapper.hpp`) | previous sample, offset | `update`, `position`, `reset` | fed with feedback by the caller |
| `velocity_control`, `tracking_capture_*` (`src/examples`) | where `main` is | sequences of calls | `RobstrideMotor` |
| `run_profile` (`tracking_capture_common.hpp`) | segment, cycle, time | one command and one sample per cycle | `RobstrideMotor`, `PositionUnwrapper` |

Hard behaviour, and so the subject of the project:

- *Timeouts racing late answers.*  An answer that arrives after its call has
  thrown stays in the queue of the transport.  Nothing drains it, and answers
  are matched by motor and type only (`robstride_motor.cpp:52-61`).
- *Partial failure of calls made of several exchanges* (`set_run_mode`,
  `set_mechanical_zero`, `send_position_csp_command`, `configure_velocity_mode`).
- *Frames of others* that arrive between a command and its answer.
- *A byte stream without boundaries*, cut anywhere by `read` and `write`, with
  damaged packets and command replies in between.
- *A receive queue* that fills with frames of others before the filter is set,
  overflows, and holds frames the driver skips.
- *Two ends of a link* that must agree on bits, byte orders, ranges and rounding.
- *Wrapping positions* and the sampling they need, while exchanges take as long
  as they please.
- *Another host* that commands the same motor.
- *Restarts*: motors keep their state, and commands on the bus are obeyed.

Nothing runs concurrently inside the library: the class demands serialized
calls, so one program counter is faithful.  The interleavings are between the
host, each motor, the bus and the clock.

## 2. Modules

| Module | What it is |
|---|---|
| `Frames` | the protocol's vocabulary: commands, answers, what a command does to a motor |
| `RobstrideMotor` | every public call over `transceive`, step by step; motors, bus and clock |
| `MotorService` | the abstract specification: one command at a time, obeyed at most once, answered by the state right after it |
| `RobstrideMotorProofs` | types and the feedback cache, under every fault |
| `RobstrideMotorTimelyProofs` | while answers are timely: fresh answers, the refinement of `MotorService`, and what the calls of several exchanges achieve |
| `MCRobstrideMotor` | its instances for TLC |
| `PositionUnwrapper`, `PositionUnwrapperProofs` | the unwrapper, the shaft, and the theorems |
| `Codec` | `protocol.cpp`: every frame over bytes, scaling and limits, parsing |
| `CanTransport` | the contract of `can_interface.hpp`, as an abstract specification |
| `SocketCanInterface` | filter, send and receive over the kernel's queue; implements `CanTransport` |
| `MotorLink`, `MCMotorLink`, `MotorLinkProofs` | two ends of a bus that speak `Codec` over the socket; the theorems about both |
| `AtSerialCanInterface`, `MCAtSerialCanInterface`, `AtSerialCanInterfaceProofs` | packets over the tty: encoder, parser, receive and send loops; implements `CanTransport` |
| `StubCanInterface`, `MCStubCanInterface`, `StubCanInterfaceProofs` | the transport that simulates motors |
| `MotorBench` | its abstract specification: motors that turn all the time and answer in order |
| `BenchPrograms`, `MCBenchPrograms`, `BenchProgramsProofs` | the six programs of `examples/` over `RobstrideMotor` |
| `RunProfile`, `MCRunProfile`, `RunProfileProofs` | `run_profile` in time, over `PositionUnwrapper` and a turning shaft |

### RobstrideMotor

A public call is a *script*, the sequence of command frames it sends (`enable`,
`set_run_mode(mode)`, ... are operators named as in the code).  `Invoke` starts
one; each command goes through the loop of `transceive`:

| Code (`robstride_motor.cpp`) | Action |
|---|---|
| 37-40 `send`, deadline | `Send`, `SendFails` |
| 42-45 `now >= deadline` | `Check` |
| 48-51 `receive` gives nullopt or throws | `ReceiveTimesOut`, `ReceiveFails` |
| 52-54 frame of another motor | `Discard` |
| 55-58 frame of this motor, other type | `Overhear` (caches feedback) |
| 59-61, 65-72 the expected type | `AcceptMalformed`, `AcceptAndGoOn`, `AcceptAndReturn` |

`status` is how the call ended (`ok`, or the kind of exception), `last_feedback`
the caches of all instances.  A frame keeps its source, type, "dlc >= 8", the
enabled bit, the parameter index and a value.  `re`, `served` and `sends` are
ghosts: they number the commands, which the protocol does not, so that
properties can say *which* command a frame answers.  No guard of the driver
reads them.

The environment: `MotorAnswers`, `LoseAnswer`, `LoseRequest`, `Report`,
`Foreign`, `Rival` (another host that commands the same motor), `Tick`,
`Restart`.  The constant `Faults` says which are allowed.
`"late"` is the important one: without it the clock passes the deadline only
when nothing of the motor is in flight any more, that is, answers come within
`response_timeout` or never.

Of the transport it assumes what `CanTransport` says and no more: frames once
and in order, and losses.  A `receive` that times out although a frame has just
arrived ends the loop as the deadline check does, so `ReceiveTimesOut` needs no
case for it.

### MotorService

What a user relies on: `Issue` a command, `TakeEffect` at most once while it is
outstanding, then `Reply` with the state right after it or `Fail`.
`RobstrideMotor!Service` instantiates it: a request is outstanding while the
driver is in the loop, `obeyed` when the motor has served the current number.
The run `timely` checks `ServiceSpec`; with late answers it does not hold, and
that is the first finding.

### PositionUnwrapper

Angles are integers, and a range is `-Half .. Half`; `update`, `position` and
`reset` are the class, `Turn` and `ReZero` the motor.  `travelled` is the true
position (first sample plus motion), `outrun` records that some motion between
two samples was half a range or more.  A shaft exactly half way may be
reported at either end.  What is lost is floating-point rounding.

### Codec

Bytes are numbers and an identifier is its four bytes, so a shift by eight is a
position in a tuple.  Physical values are integers in a unit in which the table
of limits is exact (`limits_table`); `float_to_uint` clamps and rounds as
`lround` does; a decoded value keeps its numerator, so nothing is rounded
twice.  A decoder returns a set with at most one element, empty for
`std::nullopt`.  A temperature is an integer of any sign, cast to 16 bits as the code
casts the `long` of `lround`, modulo 2^16.  What is lost is the rounding of `double`
itself, and the exception of `get_actuator_limits` for a type that does not exist.

### CanTransport

`receive` returns what arrived, each frame once and in order; `nullopt` only
after its timeout; or throws, and loses nothing by it.  `send` takes nothing from
`receive`.  A transport maps `pending` to what it still owes the caller: for the
socket the extended frames in its queue, for the serial line the frames in the
parser's buffer and in the tty.  The socket implements it with one exception, which
its `TransportSpec` states: a standard frame that no filter kept from the queue makes
`receive` give up at once (`CutShort`, finding 3).  If no such frame comes before the
filter, it implements `CanTransport` itself (`SocketContractTheorem`).

### SocketCanInterface and MotorLink

| Code (`socket_can_interface.cpp`) | Action |
|---|---|
| 66-74 | `set_motor_id_filter`: later frames are filtered, queued ones stay |
| 76-87 | `Send` |
| 89-105 | `Receive`, `SelectTimesOut`, `SelectFails` (any `EINTR`), `SelectReady` |
| 107-122 | `ReadFails`, `ReadFrame`, `IgnoreFrame` (a standard frame: `nullopt`) |

The kernel is `Arrive`: it applies `Passes` and drops what `Capacity` has no room
for, the newest frame.  `MotorLink` puts encoded reports and parameter values of
motors on that bus, and commands of the driver on the wire, and asks whether
the other end decodes what was meant.

### AtSerialCanInterface

The shift of the identifier across byte boundaries, the
length check and the resynchronization work on real packets.  `receive` has
three program points (`poll`, `deadline`, `select`); each iteration of
`FrameParser::poll` that drops a byte is a step (`Skip`), so that bytes,
signals, the clock and the device's end can come in between.  `Read` takes any
prefix of what the tty holds, `Write` any prefix of what is left.  An `EINTR` of
`write` changes nothing and is a stutter.  The constant `Ports` describes the
lines a run looks at: what arrives, the noise between, what is written, what
fails.  The constructor flushes the tty, which is `Init`; its settings are I/O and
not modelled.

### StubCanInterface and MotorBench

The simulated motors move only when a command needs their position: `advance`
adds the speed times the time since `last_update`, and each case of `send` is an
action (`SendEnable`, ... `SendUnsupported`) that advances, changes and answers in
the order of the code; a read does not advance.  Time and angles are integers,
so `remainder` is exact, ties included.  `make_feedback_frame` keeps the clamping
of velocities and the width of the temperature and fault fields.

`MotorBench` is the promise of the class comment: motors that obey like those of
`Frames` (the same `Obey`, `AnswerType` and `AnswerValue` that `RobstrideMotor`'s
motors use), turn at every unit of time, and answer each command once, in order,
with the state right after it.  `StubCanInterface!Bench` maps a simulated motor to
what it would be if it were brought up to date now.  So the refinement says two
things: a program cannot tell lazy from continuous motion, and the stub's motors
obey and answer as the motors do that the driver is checked with (the driver over
the stub itself is not composed).  Host ids are left out: the driver reads none.

### BenchPrograms

A program is the calls of its `main()` before, in and after its loop, with the
mode it runs in, the limits its targets rely on, and the target it must leave at
zero.  `MakeCall` makes the next one over `RobstrideMotor`'s actions; the motor is
found in any state an earlier run may have left; an exception ends the program
(`Catch`).  `velocity` stands for `velocity_control.cpp` and
`tracking_capture_velocity.cpp`, which make the same calls.

### RunProfile

The loop of `run_profile` with a clock: `StartSegment`, `StartCycle` (the command
is sent), `GetAnswer` (`update`), `GetExtra` (`append_extra`), `WakeUp`
(`sleep_until`), `TimesOut` (the exception that ends the capture).  An exchange
takes any time up to `Timeout`, the motor samples its position at any moment of it,
and the shaft turns by up to `Speed` in a tick.  `gap` is the true time since the
last sample was taken, `held` the time since the segment started.  `update`'s effect is `PositionUnwrapper`'s `correction`.

## 3. Runs

| Run | Question | Answer |
|---|---|---|
| `timely` | Two motors, seven calls, losses, short frames, foreign frames, refusals, failing sends, restarts; answers in time or never. Does a normal return mean what it says? | Yes: `FreshAnswer`, `StoppedOnReturn`, `ModeOnReturn`, `ReadReturnsCurrent`; modes change and zeros are set on stopped motors; a CSP target finds its own speed limit in force; `ServiceSpec` holds |
| `late` | Late answers, reports, another host that commands the motor, failing receives on top. What remains? | `last_feedback()` only moves forward, and every call ends |
| `stale_answer` | Is `FreshAnswer` still true when answers are late? | No (finding 1) |
| `unwrap` | Is the unwrapped position right, on any track, and how far can it jump? | `Tracks` as long as the shaft does not outrun the sampling, `JumpBounded` always |
| `profile` | Does `run_profile` sample often enough, hold its segments and end? | `GapBounded`, and so `LoggedPositionExact` below a speed; `SegmentHeld`, for their time and less than a cycle more; `CaptureEnds` |
| `serial` | A clean line cut anywhere, a noisy one, one that is written to | Frames in order, at once; packets whole; `TransportSpec`; every call returns |
| `serial_hang_up` | Is the end of the device reported? | No, as a timeout (finding 2) |
| `socket` | Two motors, another host, standard frames, an overflowing queue, signals. Is what is decoded what was meant, does the filter hold, is it a transport? | Yes: `AnswersSurvive`, `CommandsSurvive`, `FilterHolds`, and `TransportSpec`, with its exception |
| `socket_standard` | Does `receive` return `nullopt` only on timeout? | Not without a filter (finding 3) |
| `programs` | Do the programs drive the motor in their mode, under their own limits, and how do they leave it? | `TargetUnderLimits`; and if they succeed `LeavesMotorSafe`: stopped, in their mode, under their limits, after velocity and current with a zero target |
| `program_failure` | Does `velocity_control` stop the motor in the end? | Not if a call throws (finding 4) |
| `stub` | Do the simulated motors behave like motors that turn all the time? | Yes: `BenchSpec` |

Deadlock is not checked where a bound on sends, arrivals or segments ends the
behaviour; it is checked in `unwrap` and `stub`.

**Bounds.**  In `RobstrideMotor`, `MaxSends` = 4 lets a complete `set_run_mode`
(three exchanges) follow or precede another call, and two calls of two exchanges
follow each other; a stale answer needs two exchanges, a mode change of a running
motor four (enable, timed-out call, stop, write).  `MaxQueue` = 2 lets one
unsolicited frame stand before an answer and one behind it; the answers
themselves are not bounded by it.  Two motors are enough for every property that
speaks of a motor and another.  `late` has one motor, a foreign device, two calls
(one exchange, or three of both answer types) and `MaxSends` = 3, which keeps its
liveness check small; a motor that refuses a mode is left to `timely`, where it
matters; `CacheNeverRegresses` for any number of motors and any
faults is a theorem.  Values are small numbers: the code compares them only for
equality.  In `unwrap`, `Half` = 3, `Range` = 13 allow two wraps each way; `MaxMotion`
= 4 is more than half the range (3), so the shaft can outrun the sampling.

`programs` allows 15 frames: at most nine outside the loop, and the loop is entered
while four are left, enough for it and the end, so every program makes several
rounds and a target follows a target.  `Found` holds a parameter value that is not the
program's limit, and targets are 0 and 1.

In `profile` a tick is 50 ms: the timeout of 100 ms is two ticks, the period of
10 ms is rounded up to one, a shaft at the rated 44 rad/s makes about one unit in
a tick when half the range (4 pi) is five of them (rounded down from 5.7).
Captures read no parameter or one in a cycle, as the programs do.  Without
one the longest gap is four ticks and `LoggedPositionExact` is a promise; with one
it is six, more than half the range at that speed, and the promise lapses: in
`tracking_capture_current` a slow bus and a fast shaft can lose a turn, and only
the length of the exchanges keeps them from it.

In `serial`, three arrivals allow noise before, between and after packets, and
two sends a packet after one that was cut short.  The payload of one frame is the
tail and the header of a packet, as in the repository's test; one of the noises is a
packet, complete but for a length byte that reads nine.  In `socket`, three
arrivals overfill a queue of two; what is encoded are zeros (half a step off),
the ends of each range, one unit from them and beyond, a temperature below zero, for
two actuators with different limits, and identifiers and indices whose bytes differ.
In `stub` one motor is
sent everything, with `Half` = 2 so that ties occur, a speed of -2 that saturates
the velocity field and crosses half the range in one unit of time, the whole of it
in the two the clock has, and a target of 3 outside the range; the other motor puts
its answers in between.  `MaxQueue` = 2 lets two answers wait, of one motor or of both,
so that their order matters.

**Fairness.**  `FairSpec` (of the driver, and of the serial transport) assumes that
the host's thread runs (`WF` of `Driver`) and that the clock goes on (`WF` of
`Tick`): `receive` is given a timeout and blocks no longer.  Nothing is assumed of
motors, of the bus or of the application.  In particular `EveryCallReturns` does
not rest on an answer; it rests on the deadline check at the top of the loop,
which is why a mutant that looks at the queue first breaks it.  `FairProfileSpec`
assumes the same of the program and the clock, and nothing of the motor: the
capture ends because each exchange does and because the end of a segment is
fixed when it starts.

**Mutants.**  The `..._bug` and `Passes_un...` definitions are slips a programmer
could make (no source check, a missing stop, targets before limits, half a reset,
an off by one in the parser, truncation instead of rounding...).  Each property
fails under one of them.

## 4. Findings

1. *A late answer answers the next command* (`robstride_motor.cpp:59`).  The
   documentation says commands return the feedback "answered by the motor".
   After a `TimeoutError` the next command of the same answer type returns the
   previous answer, one behind from then on until a frame is lost.  In
   `set_run_mode` (line 85) the same late answer hides the loss of the stop frame,
   and the mode of a running motor is written.
2. *A device that is gone looks like a silent motor*
   (`at_serial_can_interface.cpp:194`).
3. *A standard frame ends `receive` with `nullopt` at once*
   (`socket_can_interface.cpp:112`), which `transceive` takes for the end of its
   timeout.  The programs are protected: they set a filter.
4. *An exception leaves the motor running* (`velocity_control.cpp:91`).

Limits of the code that the properties respect rather than refute:

- A packet shorter than 17 bytes right behind a lone `AT` header waits in the
  parser's buffer until more bytes arrive (`at_serial_can_interface.cpp:67`); the
  frames motors send have full length, and `NothingHeldUp` is checked with those.
- A temperature below zero is cast, modulo 2^16, to an unsigned field and comes back
  as 6500 degrees and more (`protocol.cpp:188`), although `make_feedback_frame` is
  called the inverse of `parse_feedback` (`protocol.hpp:213-214`).  `AnswersSurvive`
  says what comes back; the stub's model is given temperatures that fit the field.
- The position and pp programs leave their last `loc_ref` in the motor, and between
  `enable()` and the first target of a run the motor follows what it finds
  (`velocity_control.cpp:74`); `LeavesMotorSafe` promises a zero target only after the
  programs that write one.
- What a USB-CAN module makes of the beginning of a packet that `send` could not
  finish is its firmware's; `WritesWhole` says which bytes it got.
- A frame of another host passes the filter of a motor when its bits 15-8 happen
  to equal the motor's id (the torque of a motion control frame is there);
  `transceive` then skips it because of its type.
- Remote frames with extended identifiers are returned as data frames.

## 5. Proofs

Every theorem holds for every value of the constants that satisfies the `ASSUME`s
of the modules: parameters are of their types, `Other` is no motor, `NoFrame` no
frame, `Half` is positive, the actuators of a bus are those of `limits_table`, ids and
indices fit their fields, a program drives one motor.  Four of the assumptions narrow
what a theorem speaks of:

- *`Timely`*: the faults `"late"`, `"report"`, `"rival"` and `"receiveFails"` are not
  allowed, so answers come in time or never.  All others are, in any number:
  losses, short frames, foreign frames, failing sends, motors that refuse a mode,
  restarts.  Without it the theorems that name it are false (run `stale_answer`).
- *`Quiet`*: no noise on the serial line; whatever its frames, and wherever `read`
  and `write` cut them.  Packets have no checksum, so some noises add up to a
  packet, and no theorem covers noise in general; the run `serial` checks lines with
  a little noise of several kinds.
- *`OnlyExtended`*: no standard frame before the filter is set.  Without it
  `Transport!Spec` is false of the socket (run `socket_standard`), and
  `SocketTransportTheorem` proves it with the exception.
- *Speed*: `LoggedPositionExact` speaks of shafts that make less than half the range
  in `MaxGap`.

| Theorems | Assuming | Invariant |
|---|---|---|
| `RobstrideMotorProofs`: `TypeTheorem`, `CacheNeverRegressesTheorem` | | the order of numbers from the cache to the bus |
| `RobstrideMotorTimelyProofs`: `FreshAnswerTheorem`, `ServiceTheorem` | `Timely` | `TimelyInv` |
| `RobstrideMotorTimelyProofs`: `StoppedOnReturn`, `ModeOnReturn`, `ReadReturnsCurrent`, `ModeChange`, `Zero`, `TargetUnderItsLimit` | `Timely` | `CallInv` |
| `BenchProgramsProofs`: `LeavesMotorSafe`, `TargetUnderLimits` | `Timely` | `BenchInv` |
| `PositionUnwrapperProofs`: `Type`, `Tracks`, `JumpBounded` | | last sample and shaft agree modulo the range |
| `RunProfileProofs`: `GapBounded`, `SegmentHeld`, `LoggedPositionExact` | | `ProfileInv`, `HeldInv` |
| `MotorLinkProofs`: `SocketType`, `Filter`, `SocketTransport` | | `SocketInv` |
| `MotorLinkProofs`: `SocketContract` | `OnlyExtended` | `SocketInv`, `ExtendedQueue` |
| `MotorLinkProofs`: `AnswersSurvive`, `CommandsSurvive` | | `SocketInv`, and the codec's lemmas |
| `AtSerialCanInterfaceProofs`: `SerialType`, `WritesWhole` | | `SerialInv` |
| `AtSerialCanInterfaceProofs`: `FramesInOrder`, `NothingHeldUp`, `SerialTransport` | `Quiet` | `QuietInv` |
| `StubCanInterfaceProofs`: `StubType`, `StubBench` | | `StubInv` |

**`RobstrideMotorProofs`.**  The content of `TypeTheorem` is that transceive is only
entered with a command of the script (`step <= Len(call.script)`).
`CacheNeverRegresses` is not inductive.  The invariant orders, for each motor,
everything that carries a number: what the cache holds is at most what the frames
in the host's queue carry, those are in non-decreasing order and at most what the
motor obeyed last, the commands on their way to it carry strictly larger numbers
in order, and none is larger than `sends`.  Losses, reports and restarts only
remove elements of that chain or repeat one.

**`RobstrideMotorTimelyProofs`.**  `TimelyInv` says what is in flight: at most one
command, the outstanding one, not yet obeyed and without an answer
(`OneRequest`); or at most one frame of a motor, the answer to the outstanding
command, which still tells the motor's state (`OneAnswer`); and after the deadline
nothing (`NoAnswerToCome`).  So outside an exchange nothing is in flight, which is
what makes it safe to match answers by motor and type.  The refinement of
`MotorService` uses the same invariant: the answer accepted is the reply of the
service because of `OneAnswer`, and a motor that obeys takes the effect of the
request because of `OneRequest`.

`CallInv` adds what a script has achieved so far.
`Obeyed(k)` says, of the driver's place in a call, that the motor has obeyed
command k; if it has obeyed the first, the motor is stopped
(`disable`, `set_run_mode`, `set_mechanical_zero`) or has the speed limit of this call
(`send_position_csp_command`), and stays so until the call ends, because nothing else
reaches it (`TimelyInv`) and no later command of these scripts undoes it.  From
there the three promises at the return of a call follow, and the three about
steps: a write of `run_mode`, a zero, and a position target are second commands.
`ModeOnReturn` holds even with motors that refuse, because the last exchange reads
the mode back.

**`BenchProgramsProofs`.**  A lemma for each program says it is `Disciplined`: which
call sets what for good (`Settled`), and that no target comes before the loop.
`BenchInv` says that a call under way is the program's, that the motor is in its
mode from the return of `set_run_mode` on, and that what is settled stays in force,
round after round of the loop, whatever was in the parameters before.

**`PositionUnwrapperProofs`.**  The invariant adds that the last sample equals the
shaft's angle at that time modulo the range, and that a fresh track has offset
0.  The arithmetic core is `CorrectionIsExact`: two samples less than half a range
of motion apart differ from the motion by 0 or one range, and the comparison
with half the range tells which.

**`RunProfileProofs`.**  `ProfileInv` bounds, by the phase of the loop, how long the
cycle has taken (`Elapsed`), what is left of the segment (`LeftInv`) and how old the
last sample is (`GapInv`); a gap of at most `MaxGap` is motion below half the range,
to which `CorrectionIsExact` applies.  `HeldInv` ties `held` to the loop's own count:
the time a segment was held and what is left of it make up its duration, and the
bound on `held` is never reached, so the segment ends neither early nor a cycle late.

**`MotorLinkProofs`.**  `SocketInv` strengthens the types by what the filter has let
into the queue behind the first `before` frames.  The refinement maps `pending` to the
extended frames of the queue: an operator defined by recursion over it, about which
the prover has no induction rule.  The lemma that it distributes over `Append` and
`Tail` is proved by taking the least element of the set of counterexamples.  Where the
bus has extended frames only before the filter, `ExtendedQueue` says that the queue
has, so the exception never happens.
For the codec, `HalfStep` is the core: what `float_to_uint` clamps and rounds,
`uint_to_float` brings back to half a step, for every range and width of the field.
The rest are lemmas about bytes and words (a 16 bit field is the two bytes it was
split into, an identifier its four), from which each kind of frame follows.

**`AtSerialCanInterfaceProofs`.**  `SerialInv` is enough for `WritesWhole` whatever
`write` accepts, and for the type of what `receive` returns, whatever arrives
(`ExtractedIsFrame`: four bytes shifted back are 29 bits, and the length byte has been
looked at).  `QuietInv` says that the parser's buffer and the bytes on the line
are, together, exactly the packets of the frames that have not been returned
(`Placed` gives each its place), so the parser is always at the beginning of a packet
or short of its end, never resynchronizes, and returns the next frame as soon as
its tail is there.

**`StubCanInterfaceProofs`.**  `StubInv` says of every simulated motor that it was last
brought up to date in the past, and at some time if it is enabled; without the
second part the time before the first command would count as motion.  `At(s, t)` is the
motor it stands for at time t.  `advance` does not change it (`AdvanceFacts`), a unit of
time adds the speed once (`TickImplements`), and on a motor that is up to date each case
of `send` is a reaction of the bench (`EnableObeys`, ... `ParamObeys`).  The
arithmetic is in `RemainderFacts`: what `std::remainder` leaves is at most half a turn and
whole turns away, so the clamp of the encoder never cuts a position (`ReportedAngle`) and
a jump to a target is the shortest way (`ShortestWay`).

Only model-checked: liveness (`EveryCallReturns` of the driver and of the serial
transport, `CaptureEnds`), which is out of the prover's reach; and `FramesInOrder`,
`NothingHeldUp` and `TransportSpec` on a line with noise.

## 6. Not modelled, and the plan

Left out for good: tty settings, opening sockets and devices
(constructors that throw leave no object), a `setsockopt` that fails (the filter
stays as it was), argument parsing, printing, CSV files, `plot_tracking.py`; short
reads of a raw CAN socket and remote frames, which its kernel and these motors
do not produce; calls of several threads, which the class forbids.  The tests
are read as statements of what the code should do.

The project models every component with state, and proves every safety property
of its runs but those named at the end of section 5.  What remains: the serial line
with noise that contains no header, that is, which noises the parser survives for
every stream, as an assumption in the place of `Quiet`.
