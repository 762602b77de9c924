----------------------------- MODULE MotorLink -----------------------------
(***************************************************************************)
(* A host and its motors over SocketCanInterface, both speaking the        *)
(* protocol of Codec: what one end encodes is what the other end decodes.  *)
(* The motor's end of a command is get_target_motor_id, get_host_id and    *)
(* the parse_param_..._request functions, which simulated motors use, and  *)
(* for a motion control command the layout protocol.hpp documents.         *)
(***************************************************************************)
EXTENDS SocketCanInterface

CONSTANTS
    Actuators,  \* actuator types on the bus
    Feedbacks,  \* what motors may report
    Responses,  \* the parameter values they may answer with
    Commands    \* the commands hosts may send

\* What a motor can report; a physical value may be out of its range.
Report == [motor_id : Byte, host_id : Byte, mode : 0 .. 3, fault : 0 .. 63,
           position : Int, velocity : Int, torque : Int, temperature : Int]

Value == {bytes \in Seq(Byte) : Len(bytes) <= 4}

Response == [motor_id : Byte, host_id : Byte, index : UInt16, value : Value]

\* What a host can command, by the arguments of the make_... functions.
Command ==
    [type : {"Enable", "SetMechanicalZero", "GetDeviceId"}, motor_id : Byte, host_id : Byte]
    \cup [type : {"Stop"}, motor_id : Byte, host_id : Byte, clear_fault : BOOLEAN]
    \cup [type : {"SetCanId"}, motor_id : Byte, host_id : Byte, new_motor_id : Byte]
    \cup [type : {"ReadParam"}, motor_id : Byte, host_id : Byte, index : UInt16]
    \cup [type : {"WriteParam"}, motor_id : Byte, host_id : Byte, index : UInt16, value : Value]
    \cup [type : {"MotionControl"}, motor_id : Byte, torque : Int, position : Int,
          velocity : Int, kp : Int, kd : Int]

ASSUME MotorLinkAssumption ==
    /\ Actuators \subseteq DOMAIN limits_table
    /\ Feedbacks \subseteq Report /\ Responses \subseteq Response
    /\ Commands \subseteq Command

FeedbackFrames ==
    {make_feedback_frame(fb, get_actuator_limits(t)) : fb \in Feedbacks, t \in Actuators}

ResponseFrames ==
    {make_param_response_frame(r.motor_id, r.host_id, r.index, r.value) : r \in Responses}

\* The frame of a command.
encoded(c, limits) ==
    CASE c.type = "Enable" -> make_enable_frame(c.motor_id, c.host_id)
      [] c.type = "Stop" -> make_stop_frame(c.motor_id, c.host_id, c.clear_fault)
      [] c.type = "SetMechanicalZero" -> make_set_mechanical_zero_frame(c.motor_id, c.host_id)
      [] c.type = "SetCanId" -> make_set_can_id_frame(c.motor_id, c.host_id, c.new_motor_id)
      [] c.type = "GetDeviceId" -> make_get_device_id_frame(c.motor_id, c.host_id)
      [] c.type = "ReadParam" -> make_read_param_frame(c.motor_id, c.host_id, c.index)
      [] c.type = "WriteParam" ->
           make_write_param_frame(c.motor_id, c.host_id, c.index, c.value)
      [] c.type = "MotionControl" ->
           make_motion_control_frame(c.motor_id, c.torque, c.position, c.velocity,
                                     c.kp, c.kd, limits)

CommandFrames ==
    {encoded(c, get_actuator_limits(t)) : c \in Commands, t \in Actuators}

----------------------------------------------------------------------------
abs(x) == IF x < 0 THEN -x ELSE x

\* A decoded value is the one encoded, clamped, up to half a step.
Near(value, x, min, max) ==
    2 * abs(value - clamp(x, min, max) * steps) <= max - min

NearSymmetric(value, x, limit) == Near(value, x, -limit, limit)

SameReport(parsed, fb, limits) ==
    /\ \A field \in {"motor_id", "host_id", "mode", "fault"} : parsed[field] = fb[field]
    /\ parsed.temperature = fb.temperature % 65536
    /\ NearSymmetric(parsed.position, fb.position, limits.position)
    /\ NearSymmetric(parsed.velocity, fb.velocity, limits.velocity)
    /\ NearSymmetric(parsed.torque, fb.torque, limits.torque)

padded(value) == value \o zeros(4 - Len(value))

\* Every report and every parameter value receive returns means what the
\* motor meant: its id, mode and fault, the values up to half a step of their
\* range, the index, and the bytes of the value.  The temperature is the exact
\* one from 0 to 6553.5 degrees; beyond, and below zero, it is that modulo the
\* sixteen bits it was cast to.
AnswersSurvive ==
    result = "frame" =>
      LET f == got[Len(got)] IN
        /\ \A fb \in Feedbacks, t \in Actuators :
             f = make_feedback_frame(fb, get_actuator_limits(t)) =>
               \E parsed \in parse_feedback(f, get_actuator_limits(t)) :
                 SameReport(parsed, fb, get_actuator_limits(t))
        /\ \A r \in Responses :
             f = make_param_response_frame(r.motor_id, r.host_id, r.index, r.value) =>
               parse_param_response(f) =
                 {[motor_id |-> r.motor_id, index |-> r.index, data |-> padded(r.value)]}

SameMotion(f, c, limits) ==
    /\ NearSymmetric(uint_to_float(f.id[2] * 256 + f.id[3], -limits.torque, limits.torque),
                     c.torque, limits.torque)
    /\ NearSymmetric(from_symmetric(f, 1, limits.position), c.position, limits.position)
    /\ NearSymmetric(from_symmetric(f, 3, limits.velocity), c.velocity, limits.velocity)
    /\ Near(uint_to_float(from_big_endian(f, 5), 0, limits.kp_max), c.kp, 0, limits.kp_max)
    /\ Near(uint_to_float(from_big_endian(f, 7), 0, limits.kd_max), c.kd, 0, limits.kd_max)

SameCommand(f, c, limits) ==
    /\ get_comm_type(f) = CommType[c.type]
    /\ get_target_motor_id(f) = c.motor_id
    /\ c.type # "MotionControl" => get_host_id(f) = c.host_id
    /\ CASE c.type = "Stop" -> (f.data[1] # 0) = c.clear_fault
         [] c.type = "SetCanId" -> f.id[2] = c.new_motor_id
         [] c.type = "ReadParam" ->
              \E request \in parse_param_read_request(f) : request.index = c.index
         [] c.type = "WriteParam" ->
              \E request \in parse_param_write_request(f) :
                request.index = c.index /\ request.data = padded(c.value)
         [] c.type = "MotionControl" -> SameMotion(f, c, limits)
         [] OTHER -> TRUE

\* Every command the driver puts on the bus means to its motor what the
\* caller asked for.
CommandsSurvive ==
    wire # <<>> =>
      LET f == wire[Len(wire)] IN
        f.eff /\ \A c \in Commands, t \in Actuators :
          encoded(c, get_actuator_limits(t)) = can_frame(f) =>
            SameCommand(f, c, get_actuator_limits(t))

============================================================================
