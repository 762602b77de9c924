------------------------- MODULE StubCanInterface -------------------------
(***************************************************************************)
(* StubCanInterface (stub_can_interface.cpp): the transport that simulates *)
(* the motors behind it.  Nothing moves between calls; a motor is brought  *)
(* up to date by the commands that need its position.  Angles and times    *)
(* are integers.  A motor the code creates on its first use has the state  *)
(* Init gives it here.  The definitions named ..._bug are slips one could  *)
(* make; no action uses them.                                              *)
(***************************************************************************)
EXTENDS Frames, Integers

CONSTANTS
    Half, Fastest, Instructions, FaultBits, Temperatures,  \* see MotorBench
    MaxTime,    \* bound on the clock
    MaxQueue    \* bound on the answers the host leaves in the queue

\* The fields of frames.
Byte == 0 .. 255
FaultField == 0 .. 63
TemperatureField == 0 .. 65535

ASSUME StubCanInterfaceAssumption ==
    /\ Half \in Nat \ {0} /\ Fastest \in Nat
    /\ {"spd_ref", "loc_ref"} \subseteq FloatParams
    /\ Instructions \in
         [Motors -> SUBSET [type : CommType, index : ParamIndex, value : Int]]
    \* Reads and writes name a parameter and nothing else does; a run mode is
    \* a byte.
    /\ \A m \in Motors : \A cmd \in Instructions[m] :
         /\ cmd.index = "none" <=> cmd.type \notin {"ReadParam", "WriteParam"}
         /\ cmd.index = "run_mode" => cmd.value \in Byte
    /\ FaultBits \subseteq FaultField
    /\ 300 \in Temperatures /\ Temperatures \subseteq TemperatureField
    /\ MaxTime \in Nat /\ MaxQueue \in Nat

VARIABLES
    now,          \* steady_clock
    motors_,
    responses_,
    temperature_

vars == <<now, motors_, responses_, temperature_>>

span == 2 * Half
Velocity == 2
PositionCsp == 5

SimulatedMotor ==
    [enabled : BOOLEAN, run_mode : Nat, position : Int, fault_bits : Nat,
     params : [FloatParams -> Int], last_update : Nat, has_last_update : BOOLEAN]

\* Frames from a motor, as they are encoded.
FeedbackFrame ==
    [source : Motors, type : {"Feedback"}, enabled : BOOLEAN, fault : FaultField,
     position : -Half .. Half, velocity : -Fastest .. Fastest, temp_u : TemperatureField]
ParamFrame ==
    [source : Motors, type : {"ReadParam"}, index : ParamIndex, value : Int]

TypeOK ==
    /\ now \in Nat /\ temperature_ \in Temperatures
    /\ motors_ \in [Motors -> SimulatedMotor]
    /\ \A m \in Motors :
         /\ motors_[m].last_update <= now
         /\ motors_[m].enabled => motors_[m].has_last_update
    /\ \A i \in 1 .. Len(responses_) : responses_[i] \in FeedbackFrame \cup ParamFrame

Init ==
    /\ now = 0 /\ temperature_ = 300 /\ responses_ = <<>>
    /\ motors_ = [m \in Motors |->
                    [enabled |-> FALSE, run_mode |-> 0, position |-> 0,
                     fault_bits |-> 0, params |-> [p \in FloatParams |-> 0],
                     last_update |-> 0, has_last_update |-> FALSE]]

----------------------------------------------------------------------------
Moving(s) == s.enabled /\ s.run_mode = Velocity

advance(s) ==
    [s EXCEPT
       !.position = IF s.has_last_update /\ Moving(s)
                    THEN @ + s.params["spd_ref"] * (now - s.last_update) ELSE @,
       !.last_update = now,
       !.has_last_update = TRUE]

\* std::remainder(x, span): what is left of x beyond the nearest multiple of
\* span, the even multiple when two are equally near.
remainder(x) ==
    LET q == x \div span
        r == x % span
    IN IF 2 * r < span \/ (2 * r = span /\ q % 2 = 0) THEN r ELSE r - span

\* float_to_uint keeps a value within the limits it is encoded by.
clamp(v, limit) == IF v > limit THEN limit ELSE IF v < -limit THEN -limit ELSE v

make_feedback_frame_bug(m, s, velocity) ==
    [source |-> m, type |-> "Feedback", enabled |-> s.enabled,
     fault |-> s.fault_bits % 64, position |-> remainder(s.position),
     velocity |-> velocity, temp_u |-> temperature_ % 65536]

make_feedback_frame(m, s, velocity) ==
    [source |-> m, type |-> "Feedback", enabled |-> s.enabled,
     fault |-> s.fault_bits % 64, position |-> clamp(remainder(s.position), Half),
     velocity |-> clamp(velocity, Fastest), temp_u |-> temperature_ % 65536]

make_param_response_frame(m, index, value) ==
    [source |-> m, type |-> "ReadParam", index |-> index, value |-> value]

queue_feedback(m, s) ==
    /\ Len(responses_) < MaxQueue
    /\ responses_' = Append(responses_,
         make_feedback_frame(m, s, IF Moving(s) THEN s.params["spd_ref"] ELSE 0))

----------------------------------------------------------------------------
\* send: what a command does to an advanced state.
Enabled(s) == [s EXCEPT !.enabled = TRUE]

Stopped(s, cmd) ==
    [s EXCEPT !.enabled = FALSE, !.fault_bits = IF cmd.value = 1 THEN 0 ELSE @]

\* The nearest continuous position whose wrapped value equals loc_ref.
Jumped(s, cmd) ==
    IF cmd.index = "loc_ref" /\ s.enabled /\ s.run_mode = PositionCsp
    THEN [s EXCEPT !.position = @ + remainder(cmd.value - @)]
    ELSE s

Written(s, cmd) ==
    Jumped(IF cmd.index = "run_mode" THEN [s EXCEPT !.run_mode = cmd.value]
           ELSE [s EXCEPT !.params[cmd.index] = cmd.value], cmd)

\* A case that advances the motor, changes it and answers with feedback.
Becomes(m, s) ==
    /\ motors_' = [motors_ EXCEPT ![m] = s]
    /\ queue_feedback(m, s)
    /\ UNCHANGED <<now, temperature_>>

SendEnable(m, cmd) ==
    cmd.type = "Enable" /\ Becomes(m, Enabled(advance(motors_[m])))

SendStop(m, cmd) ==
    cmd.type = "Stop" /\ Becomes(m, Stopped(advance(motors_[m]), cmd))

SendSetMechanicalZero(m, cmd) ==
    /\ cmd.type = "SetMechanicalZero"
    /\ Becomes(m, [advance(motors_[m]) EXCEPT !.position = 0])

SendMotionControl(m, cmd) ==
    cmd.type = "MotionControl" /\ Becomes(m, advance(motors_[m]))

SendWriteParam_bug(m, cmd) ==
    cmd.type = "WriteParam" /\ Becomes(m, advance(Written(motors_[m], cmd)))

SendWriteParam(m, cmd) ==
    cmd.type = "WriteParam" /\ Becomes(m, Written(advance(motors_[m]), cmd))

\* A read does not advance the motor.
SendReadParam(m, cmd) ==
    /\ cmd.type = "ReadParam" /\ Len(responses_) < MaxQueue
    /\ responses_' = Append(responses_,
         make_param_response_frame(m, cmd.index,
           IF cmd.index = "run_mode" THEN motors_[m].run_mode
           ELSE motors_[m].params[cmd.index]))
    /\ UNCHANGED <<now, motors_, temperature_>>

\* Any other type gets no response.
SendUnsupported(m, cmd) ==
    /\ cmd.type \notin {"Enable", "Stop", "SetMechanicalZero", "MotionControl",
                        "ReadParam", "WriteParam"}
    /\ UNCHANGED vars

send(m, cmd) ==
    \/ SendEnable(m, cmd) \/ SendStop(m, cmd) \/ SendSetMechanicalZero(m, cmd)
    \/ SendMotionControl(m, cmd) \/ SendReadParam(m, cmd)
    \/ SendWriteParam(m, cmd) \/ SendUnsupported(m, cmd)

\* With an empty queue receive returns nullopt at once and changes nothing.
receive ==
    /\ responses_ # <<>> /\ responses_' = Tail(responses_)
    /\ UNCHANGED <<now, motors_, temperature_>>

set_fault_bits(m, bits) ==
    /\ motors_' = [motors_ EXCEPT ![m].fault_bits = bits]
    /\ UNCHANGED <<now, responses_, temperature_>>

set_temperature(t) ==
    temperature_' = t /\ UNCHANGED <<now, motors_, responses_>>

Tick ==
    /\ now < MaxTime /\ now' = now + 1
    /\ UNCHANGED <<motors_, responses_, temperature_>>

Next ==
    \/ \E m \in Motors : \E cmd \in Instructions[m] : send(m, cmd)
    \/ receive
    \/ \E m \in Motors, bits \in FaultBits : set_fault_bits(m, bits)
    \/ \E t \in Temperatures : set_temperature(t)
    \/ Tick

Spec == Init /\ [][Next]_vars

----------------------------------------------------------------------------
\* parse_feedback and parse_param_response, on the host's side.
parsed(f) ==
    IF f.type = "ReadParam" THEN f
    ELSE [source |-> f.source, type |-> f.type, enabled |-> f.enabled,
          fault |-> f.fault, position |-> f.position, velocity |-> f.velocity,
          temperature |-> f.temp_u]

\* The motor a simulated motor stands for: what it would be if it were
\* brought up to date now.
Represented(s) ==
    [enabled |-> s.enabled, run_mode |-> s.run_mode, params |-> s.params,
     fault |-> s.fault_bits, angle |-> advance(s).position]

turning == [m \in Motors |-> Represented(motors_[m])]
reported == [i \in DOMAIN responses_ |-> parsed(responses_[i])]

Bench == INSTANCE MotorBench WITH
    motors <- turning, temperature <- temperature_, answers <- reported

\* The simulation is indistinguishable from motors that turn all the time:
\* though positions are only brought up to date by some commands, no order of
\* writes, stops, reads, zeros and pauses loses or adds motion, and each
\* command is answered once, in order, with the state right after it.
BenchSpec == Bench!Spec

============================================================================
