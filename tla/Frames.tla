------------------------------ MODULE Frames ------------------------------
(***************************************************************************)
(* The vocabulary of the RobStride private CAN protocol as the rest of the *)
(* project uses it: communication types, run modes, parameter indices, the *)
(* command frames a host builds and the frames a motor answers with.       *)
(* A frame keeps what the driver's control flow looks at and nothing else: *)
(* how a frame is laid out in 29 + 64 bits is not the subject here.        *)
(***************************************************************************)
EXTENDS Naturals, Sequences

CONSTANTS
    Motors,       \* CAN ids of the motors this host drives
    FloatParams   \* names of the float parameters the model keeps track of

ASSUME FramesAssumption ==
    FloatParams \subseteq
      {"iq_ref", "spd_ref", "limit_torque", "cur_kp", "cur_ki",
       "cur_filt_gain", "loc_ref", "limit_spd", "limit_cur", "mech_pos",
       "iq_filtered", "mech_vel", "v_bus", "loc_kp", "spd_kp", "spd_ki",
       "spd_filt_gain", "acc_rad", "vel_max", "acc_set"}

CommType == {"MotionControl", "Feedback", "Enable", "Stop",
             "SetMechanicalZero", "ReadParam", "WriteParam", "FaultFeedback"}

RunMode == 0 .. 5

\* The parameters a frame can name; "none" in the frames that name none.
ParamIndex == FloatParams \cup {"run_mode", "none"}

\* A command frame, host -> motor.  `value` is the parameter written, or
\* data[0] (clear_fault of a stop frame).
Command == [type : CommType, index : ParamIndex, value : Nat]

make_enable_frame == [type |-> "Enable", index |-> "none", value |-> 0]

make_stop_frame(clear_fault) ==
    [type |-> "Stop", index |-> "none", value |-> IF clear_fault THEN 1 ELSE 0]

make_set_mechanical_zero_frame ==
    [type |-> "SetMechanicalZero", index |-> "none", value |-> 1]

make_read_param_frame(index) ==
    [type |-> "ReadParam", index |-> index, value |-> 0]

make_write_param_frame(index, value) ==
    [type |-> "WriteParam", index |-> index, value |-> value]

make_motion_control_frame ==
    [type |-> "MotionControl", index |-> "none", value |-> 0]

----------------------------------------------------------------------------
\* What a command does to a motor.  A float parameter nobody wrote reads 0.
MotorState == [enabled : BOOLEAN, run_mode : Nat, params : [FloatParams -> Nat]]

Obey(s, cmd) ==
    CASE cmd.type = "Enable" -> [s EXCEPT !.enabled = TRUE]
      [] cmd.type = "Stop" -> [s EXCEPT !.enabled = FALSE]
      [] cmd.type = "WriteParam" /\ cmd.index = "run_mode" ->
           [s EXCEPT !.run_mode = cmd.value]
      [] cmd.type = "WriteParam" /\ cmd.index \in FloatParams ->
           [s EXCEPT !.params[cmd.index] = cmd.value]
      [] OTHER -> s

\* What may become of a motor that receives a command: it obeys, or, if it is
\* of the refusing kind, ignores a write of run_mode.
Outcomes(s, cmd, refusing) ==
    {Obey(s, cmd)} \cup
      IF refusing /\ cmd.type = "WriteParam" /\ cmd.index = "run_mode"
      THEN {s} ELSE {}

\* A parameter read is answered by a type-17 frame, every other command by
\* a feedback frame.
AnswerType(cmd) == IF cmd.type = "ReadParam" THEN "ReadParam" ELSE "Feedback"

ParamValue(s, index) ==
    IF index = "run_mode" THEN s.run_mode
    ELSE IF index \in FloatParams THEN s.params[index] ELSE 0

\* The value an answer to `cmd` carries when the motor is in state s.
AnswerValue(s, cmd) == IF cmd.type = "ReadParam" THEN ParamValue(s, cmd.index) ELSE 0

============================================================================
