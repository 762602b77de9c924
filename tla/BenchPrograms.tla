--------------------------- MODULE BenchPrograms ---------------------------
(***************************************************************************)
(* The programs of examples/ over RobstrideMotor: velocity_control.cpp and *)
(* tracking_capture_{velocity,position,pp,current,operation}.cpp.  Each    *)
(* makes the calls of its main() in order, repeats those of its loop until *)
(* the clock says otherwise, and ends at the first exception.  The motor   *)
(* is found as an earlier run or another program may have left it.         *)
(* Definitions named ..._bug are slips one could make.                     *)
(***************************************************************************)
EXTENDS RobstrideMotor

CONSTANTS
    Programs,  \* the programs that may run
    Targets,   \* the targets of a profile, or argv[3]
    Limit,     \* the value of every limit a program configures
    Found      \* what an earlier run may have left in a parameter

\* A program drives one motor; its modes and values are among the ones the
\* application uses.
ASSUME BenchProgramsAssumption ==
    /\ Programs \subseteq {"velocity", "position", "pp", "current", "operation"}
    /\ \E m \in Motors : Motors = {m}
    /\ {0, 1, 2, 3, 5} \subseteq Modes
    /\ Targets \cup {0, Limit} \subseteq Values
    /\ Found \subseteq Nat
    /\ {"spd_ref", "limit_cur", "acc_rad", "loc_ref", "limit_spd", "vel_max",
        "acc_set", "iq_ref", "iq_filtered"} \subseteq FloatParams
    /\ {"set_run_mode", "enable", "disable", "configure_velocity_mode",
        "send_velocity_command", "set_mechanical_zero", "write_param",
        "send_motion_command", "read_param_float"} \subseteq Apis

VARIABLES
    program,  \* the program that runs
    at,       \* how many of its calls it has come to
    ended     \* no, success or failure

mainVars == <<vars, program, at, ended>>

\* One call of main(), for every script it may have.
Step(api, scripts) == [api |-> api, scripts |-> scripts]

SetMode(mode) == Step("set_run_mode", {set_run_mode(mode)})
SetZero == Step("set_mechanical_zero", {set_mechanical_zero})
Enable == Step("enable", {enable})
Disable == Step("disable", {disable(FALSE)})
Configure == Step("configure_velocity_mode", {configure_velocity_mode(Limit, Limit)})
Turn(velocities) ==
    Step("send_velocity_command", {send_velocity_command(v) : v \in velocities})
Write(index, values) == Step("write_param", {write_param(index, v) : v \in values})
Read(index) == Step("read_param_float", {read_param_float(index)})
Move == Step("send_motion_command", {send_motion_command})

\* A program: the mode it runs in, the limits its targets rely on, the
\* target it leaves at zero, and its calls before, in and after its loop.
Program(mode, limits, zeroed, prologue, loop, epilogue) ==
    [mode |-> mode, limits |-> limits, zeroed |-> zeroed, prologue |-> prologue,
     loop |-> loop, epilogue |-> epilogue]

velocity ==
    Program(2, {"limit_cur", "acc_rad"}, {"spd_ref"},
            <<SetMode(2), Enable, Configure>>, <<Turn(Targets)>>, <<Turn({0}), Disable>>)

position ==
    Program(5, {"limit_spd"}, {},
            <<SetMode(5), SetZero, Enable, Write("limit_spd", {Limit})>>,
            <<Write("loc_ref", Targets)>>, <<Disable>>)

\* acc_set is forgotten.
pp_bug ==
    Program(1, {"vel_max", "acc_set"}, {},
            <<SetMode(1), SetZero, Enable, Write("vel_max", {Limit})>>,
            <<Write("loc_ref", Targets)>>, <<Disable>>)

pp ==
    Program(1, {"vel_max", "acc_set"}, {},
            <<SetMode(1), SetZero, Enable, Write("vel_max", {Limit}),
              Write("acc_set", {Limit})>>,
            <<Write("loc_ref", Targets)>>, <<Disable>>)

\* The last target is left in force.
current_bug ==
    Program(3, {}, {"iq_ref"}, <<SetMode(3), Enable>>,
            <<Write("iq_ref", Targets), Read("iq_filtered")>>, <<Disable>>)

current ==
    Program(3, {}, {"iq_ref"}, <<SetMode(3), Enable>>,
            <<Write("iq_ref", Targets), Read("iq_filtered")>>,
            <<Write("iq_ref", {0}), Disable>>)

operation ==
    Program(0, {}, {}, <<SetMode(0), SetZero, Enable>>, <<Move>>, <<Disable>>)

Code(name) ==
    CASE name = "velocity" -> velocity
      [] name = "position" -> position
      [] name = "pp" -> pp
      [] name = "current" -> current
      [] name = "operation" -> operation

----------------------------------------------------------------------------
p == Code(program)

calls == p.prologue \o p.loop \o p.epilogue

\* The loop is entered, repeated or left when its first call is due.
loop_end == Len(p.prologue) + Len(p.loop)

Following ==
    IF at \in {Len(p.prologue), loop_end}
    THEN {Len(p.prologue) + 1, loop_end + 1} ELSE {at + 1}

MainInit ==
    \E name \in Programs, on \in BOOLEAN, mode \in Modes, left \in Found :
      /\ program = name /\ at = 0 /\ ended = "no"
      /\ pc = "idle" /\ call = NoCall /\ step = 1 /\ expired = FALSE
      /\ response = NoFrame /\ status = "none" /\ sends = 0
      /\ last_feedback = [m \in Motors |-> NoFrame]
      /\ toMotor = [m \in Motors |-> <<>>] /\ toHost = <<>>
      /\ motor = [m \in Motors |-> [enabled |-> on, run_mode |-> mode,
                                    params |-> [index \in FloatParams |-> left]]]
      /\ served = [m \in Motors |-> 0]

Going == pc = "idle" /\ ended = "no" /\ status \in {"none", "ok"}

\* main() makes its next call.  (The bound leaves room to come to the end.)
MakeCall ==
    /\ Going
    /\ \E next \in Following \cap DOMAIN calls, m \in Motors :
         /\ next = Len(p.prologue) + 1 => sends + 4 <= MaxSends
         /\ at' = next
         /\ \E script \in calls[next].scripts :
              Invoke([api |-> calls[next].api, m |-> m, script |-> script])
    /\ UNCHANGED <<program, ended>>

Return ==
    /\ Going /\ at = Len(calls)
    /\ ended' = "success"
    /\ UNCHANGED <<vars, program, at>>

\* An exception: the handler prints it and main() returns.
Catch ==
    /\ pc = "idle" /\ ended = "no" /\ status \notin {"none", "ok"}
    /\ ended' = "failure"
    /\ UNCHANGED <<vars, program, at>>

Library ==
    /\ \/ Driver \/ Tick \/ Foreign
       \/ \E m \in Motors : MotorAnswers(m) \/ LoseAnswer(m) \/ LoseRequest(m)
    /\ UNCHANGED <<program, at, ended>>

MainNext == MakeCall \/ Return \/ Catch \/ Library

MainSpec == MainInit /\ [][MainNext]_mainVars

----------------------------------------------------------------------------
\* What the next enable() starts with: a program that ends with success leaves
\* the motor stopped, in the mode of the program, under the limits of this
\* run, and, after the velocity and current programs, with a zero target.
\* The position and pp programs leave their last loc_ref where it is; what a
\* motor makes of its last motion control frame after a stop is its own.
LeavesMotorSafe ==
    ended = "success" => \A m \in Motors :
      /\ ~motor[m].enabled /\ motor[m].run_mode = p.mode
      /\ \A index \in p.limits : motor[m].params[index] = Limit
      /\ \A index \in p.zeroed : motor[m].params[index] = 0

IsTarget(c) == c.type = "MotionControl" \/ c.index \in {"spd_ref", "loc_ref", "iq_ref"}

\* A target reaches the motor only when it is in the mode the program set
\* and under the limits of this run, not under those of an earlier one.
TargetUnderLimits ==
    [][\A m \in Motors :
         served'[m] # served[m] /\ IsTarget(Head(toMotor[m]).cmd)
           => /\ motor[m].run_mode = p.mode
              /\ \A index \in p.limits : motor[m].params[index] = Limit]_mainVars

\* "Runs the motor at a target velocity for a fixed duration while printing
\* feedback, then stops it": when the program has ended, the motor is stopped.
StopsInTheEnd == ended # "no" => \A m \in Motors : ~motor[m].enabled

============================================================================
