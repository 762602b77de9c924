------------------------------- MODULE Codec -------------------------------
(***************************************************************************)
(* The bit layout of the private protocol (src/src/protocol.cpp): the 29   *)
(* bit identifier as <<communication type, high byte of data area 2, its   *)
(* low byte, destination>>, and the data field as eight bytes.             *)
(*                                                                         *)
(* Physical values are integers in units that make every limit exact: the  *)
(* thousandth part of pi rad, a tenth of rad/s, Nm, Kd or Celsius, 1 of Kp.*)
(* A decoded value is a multiple of 1/65535 of the unit and is kept as its *)
(* numerator.  A float parameter is its four bytes, which memcpy moves and *)
(* nothing here looks into.  Definitions named ..._bug are slips one could *)
(* make; no other definition uses them.                                    *)
(***************************************************************************)
EXTENDS Integers, Sequences

Byte == 0 .. 255
UInt16 == 0 .. 65535
Identifier == (0 .. 31) \X Byte \X Byte \X Byte
Data == [1 .. 8 -> Byte]
CanFrame == [id : Identifier, dlc : 0 .. 8, data : Data]

CommType == [
    GetDeviceId |-> 0, MotionControl |-> 1, Feedback |-> 2, Enable |-> 3,
    Stop |-> 4, SetMechanicalZero |-> 6, SetCanId |-> 7, ReadParam |-> 17,
    WriteParam |-> 18]

Limits(velocity, torque, kp_max, kd_max) ==
    [position |-> 4000, velocity |-> velocity, torque |-> torque,
     kp_max |-> kp_max, kd_max |-> kd_max]

limits_table == [
    Rs00 |-> Limits(500, 170, 500, 50),    Rs01 |-> Limits(440, 170, 500, 50),
    Rs02 |-> Limits(440, 170, 500, 50),    Rs03 |-> Limits(500, 600, 5000, 1000),
    Rs04 |-> Limits(150, 1200, 5000, 1000), Rs05 |-> Limits(330, 170, 500, 50),
    Rs06 |-> Limits(200, 360, 5000, 1000)]

\* (A type that is not in the table throws; ActuatorType has none.)
get_actuator_limits(type) == limits_table[type]

----------------------------------------------------------------------------
\* Scaling.

clamp(x, min, max) == IF x < min THEN min ELSE IF x > max THEN max ELSE x

steps == 65535

\* Truncates instead of rounding.
float_to_uint_bug(x, min, max) ==
    ((clamp(x, min, max) - min) * steps) \div (max - min)

\* lround of a number that is not negative: a half goes up.
float_to_uint(x, min, max) ==
    LET span == max - min
    IN  (2 * (clamp(x, min, max) - min) * steps + span) \div (2 * span)

\* The numerator over `steps`.
uint_to_float(value, min, max) == value * (max - min) + min * steps

----------------------------------------------------------------------------
\* Building frames.

make_id(type, data_area2, dest) ==
    <<type, data_area2 \div 256, data_area2 % 256, dest>>

big_endian(v) == <<v \div 256, v % 256>>
little_endian(v) == <<v % 256, v \div 256>>
zeros(n) == [i \in 1 .. n |-> 0]

make_frame(type, data_area2, dest, data) ==
    [id |-> make_id(type, data_area2, dest), dlc |-> 8,
     data |-> data \o zeros(8 - Len(data))]

make_enable_frame(motor_id, host_id) ==
    make_frame(CommType.Enable, host_id, motor_id, <<>>)

make_stop_frame(motor_id, host_id, clear_fault) ==
    make_frame(CommType.Stop, host_id, motor_id, <<IF clear_fault THEN 1 ELSE 0>>)

make_set_mechanical_zero_frame(motor_id, host_id) ==
    make_frame(CommType.SetMechanicalZero, host_id, motor_id, <<1>>)

make_set_can_id_frame(motor_id, host_id, new_motor_id) ==
    make_frame(CommType.SetCanId, new_motor_id * 256 + host_id, motor_id, <<>>)

make_get_device_id_frame(motor_id, host_id) ==
    make_frame(CommType.GetDeviceId, host_id, motor_id, <<>>)

make_read_param_frame(motor_id, host_id, index) ==
    make_frame(CommType.ReadParam, host_id, motor_id, little_endian(index))

\* `value` is the float's four bytes, or the one byte of an uint8.
make_write_param_frame_bug(motor_id, host_id, index, value) ==
    make_frame(CommType.WriteParam, host_id, motor_id, big_endian(index) \o zeros(2) \o value)

make_write_param_frame(motor_id, host_id, index, value) ==
    make_frame(CommType.WriteParam, host_id, motor_id,
               little_endian(index) \o zeros(2) \o value)

symmetric(x, limit) == float_to_uint(x, -limit, limit)

make_motion_control_frame(motor_id, torque, position, velocity, kp, kd, limits) ==
    make_frame(CommType.MotionControl, symmetric(torque, limits.torque), motor_id,
               big_endian(symmetric(position, limits.position))
                 \o big_endian(symmetric(velocity, limits.velocity))
                 \o big_endian(float_to_uint(kp, 0, limits.kp_max))
                 \o big_endian(float_to_uint(kd, 0, limits.kd_max)))

\* The temperature is cast to 16 bits, not clamped.
make_feedback_frame(feedback, limits) ==
    make_frame(CommType.Feedback,
               ((feedback.mode * 64) + (feedback.fault % 64)) * 256 + feedback.motor_id,
               feedback.host_id,
               big_endian(symmetric(feedback.position, limits.position))
                 \o big_endian(symmetric(feedback.velocity, limits.velocity))
                 \o big_endian(symmetric(feedback.torque, limits.torque))
                 \o big_endian(feedback.temperature % 65536))

make_param_response_frame(motor_id, host_id, index, value) ==
    make_frame(CommType.ReadParam, motor_id, host_id,
               little_endian(index) \o zeros(2) \o value)

----------------------------------------------------------------------------
\* Reading frames.

get_comm_type(frame) == frame.id[1]
get_source_motor_id(frame) == frame.id[3]
get_target_motor_id(frame) == frame.id[4]
get_host_id(frame) == frame.id[3]

from_big_endian(frame, i) == frame.data[i] * 256 + frame.data[i + 1]
from_little_endian(frame, i) == frame.data[i] + frame.data[i + 1] * 256

\* std::optional is a set with at most one element.
nullopt == {}

parse_param_read_request(frame) ==
    IF get_comm_type(frame) # CommType.ReadParam THEN nullopt
    ELSE {[motor_id |-> get_target_motor_id(frame), host_id |-> get_host_id(frame),
           index |-> from_little_endian(frame, 1)]}

parse_param_write_request(frame) ==
    IF get_comm_type(frame) # CommType.WriteParam THEN nullopt
    ELSE {[motor_id |-> get_target_motor_id(frame), host_id |-> get_host_id(frame),
           index |-> from_little_endian(frame, 1), data |-> SubSeq(frame.data, 5, 8)]}

from_symmetric(frame, i, limit) == uint_to_float(from_big_endian(frame, i), -limit, limit)

parse_feedback(frame, limits) ==
    IF get_comm_type(frame) # CommType.Feedback \/ frame.dlc < 8 THEN nullopt
    ELSE {[motor_id |-> get_source_motor_id(frame), host_id |-> frame.id[4],
           mode |-> frame.id[2] \div 64, fault |-> frame.id[2] % 64,
           position |-> from_symmetric(frame, 1, limits.position),
           velocity |-> from_symmetric(frame, 3, limits.velocity),
           torque |-> from_symmetric(frame, 5, limits.torque),
           temperature |-> from_big_endian(frame, 7)]}

parse_param_response(frame) ==
    IF get_comm_type(frame) # CommType.ReadParam \/ frame.dlc < 8 THEN nullopt
    ELSE {[motor_id |-> get_source_motor_id(frame),
           index |-> from_little_endian(frame, 1), data |-> SubSeq(frame.data, 5, 8)]}

============================================================================
