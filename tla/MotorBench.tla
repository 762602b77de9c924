---------------------------- MODULE MotorBench ----------------------------
(***************************************************************************)
(* What StubCanInterface promises to a program that runs without hardware: *)
(* motors that obey like those of Frames, that turn all the time while     *)
(* enabled in velocity mode, and that answer every command they know once, *)
(* in order, with the state they are in right after it.                    *)
(***************************************************************************)
EXTENDS Frames, Integers

CONSTANTS
    Half,           \* limits.position: positions are reported in -Half .. Half
    Fastest,        \* limits.velocity: velocities saturate at +-Fastest
    Instructions,   \* for each motor, the commands it may be sent
    FaultBits,      \* fault bits a test may inject
    Temperatures    \* temperatures a test may set, in tenths of a degree

VARIABLES
    motors,       \* each motor's state, its angle unwrapped
    temperature,  \* of all motors
    answers       \* answers the host has not received yet

vars == <<motors, temperature, answers>>

span == 2 * Half
Velocity == 2
PositionCsp == 5

Init ==
    /\ motors = [m \in Motors |->
                   [enabled |-> FALSE, run_mode |-> 0, angle |-> 0, fault |-> 0,
                    params |-> [p \in FloatParams |-> 0]]]
    /\ temperature = 300
    /\ answers = <<>>

Congruent(a, b) == (a - b) % span = 0

Turning(s) == s.enabled /\ s.run_mode = Velocity

\* A target written to an enabled motor in CSP mode is reached at once, by the
\* shortest way; setting the zero makes the present angle 0.
Angles(s, cmd) ==
    IF cmd.type = "SetMechanicalZero" THEN {0}
    ELSE IF cmd.type = "WriteParam" /\ cmd.index = "loc_ref"
            /\ s.enabled /\ s.run_mode = PositionCsp
         THEN {a \in s.angle - Half .. s.angle + Half : Congruent(a, cmd.value)}
         ELSE {s.angle}

Reactions(s, cmd) ==
    {[Obey(s, cmd) EXCEPT
        !.angle = a,
        !.fault = IF cmd = make_stop_frame(TRUE) THEN 0 ELSE @] : a \in Angles(s, cmd)}

Saturated(v) ==
    IF v > Fastest THEN Fastest ELSE IF v < -Fastest THEN -Fastest ELSE v

Answers(m, s, cmd) ==
    IF cmd.type = "ReadParam"
    THEN {[source |-> m, type |-> AnswerType(cmd), index |-> cmd.index,
           value |-> AnswerValue(s, cmd)]}
    ELSE {[source |-> m, type |-> AnswerType(cmd),
           enabled |-> s.enabled, fault |-> s.fault, position |-> w,
           velocity |-> IF Turning(s) THEN Saturated(s.params["spd_ref"]) ELSE 0,
           temperature |-> temperature] :
            w \in {v \in -Half .. Half : Congruent(s.angle, v)}}

\* What a motor of Frames reacts to.
Known == {"MotionControl", "Enable", "Stop", "SetMechanicalZero", "ReadParam",
          "WriteParam"}

Instruct(m, cmd) ==
    /\ cmd.type \in Known
    /\ \E s \in Reactions(motors[m], cmd) :
         /\ motors' = [motors EXCEPT ![m] = s]
         /\ \E a \in Answers(m, s, cmd) : answers' = Append(answers, a)
    /\ UNCHANGED temperature

Deliver ==
    /\ answers # <<>> /\ answers' = Tail(answers)
    /\ UNCHANGED <<motors, temperature>>

InjectFault(m, bits) ==
    /\ motors' = [motors EXCEPT ![m].fault = bits]
    /\ UNCHANGED <<temperature, answers>>

SetTemperature(t) ==
    temperature' = t /\ UNCHANGED <<motors, answers>>

\* One unit of time: every motor that turns, turns.
Pass ==
    /\ motors' = [m \in Motors |->
                    [motors[m] EXCEPT !.angle =
                       IF Turning(motors[m]) THEN @ + motors[m].params["spd_ref"]
                       ELSE @]]
    /\ UNCHANGED <<temperature, answers>>

Next ==
    \/ \E m \in Motors : \E cmd \in Instructions[m] : Instruct(m, cmd)
    \/ Deliver
    \/ \E m \in Motors, bits \in FaultBits : InjectFault(m, bits)
    \/ \E t \in Temperatures : SetTemperature(t)
    \/ Pass

Spec == Init /\ [][Next]_vars

============================================================================
