---------------------------- MODULE MCMotorLink ----------------------------
(***************************************************************************)
(* Reports, answers and commands at the edges of their ranges, for the     *)
(* host's motor 1 and for its neighbours on the bus.                       *)
(***************************************************************************)
EXTENDS MotorLink

Reported(motor, mode, fault, position, velocity, torque, temperature) ==
    [motor_id |-> motor, host_id |-> 253, mode |-> mode, fault |-> fault,
     position |-> position, velocity |-> velocity, torque |-> torque,
     temperature |-> temperature]

\* Zero, which is half a step off; the ends and beyond; one unit from both;
\* values that truncation would move by more than half a step; half a degree
\* below zero.
MCFeedbacks ==
    {Reported(1, 0, 0, 0, 0, 0, 250), Reported(1, 2, 63, 4000, -440, 170, 65535),
     Reported(1, 2, 0, -9999, 999, -1201, 0), Reported(1, 1, 32, -3999, 149, 1, -5),
     Reported(1, 2, 1, 1, -1, 169, 255), Reported(32, 2, 0, 2000, 3, -7, 300)}

MCResponses ==
    {[motor_id |-> 1, host_id |-> 253, index |-> 28677, value |-> <<2>>],
     [motor_id |-> 1, host_id |-> 253, index |-> 28698, value |-> <<0, 0, 160, 65>>]}

Motion(torque, position, velocity, kp, kd) ==
    [type |-> "MotionControl", motor_id |-> 1, torque |-> torque,
     position |-> position, velocity |-> velocity, kp |-> kp, kd |-> kd]

MCCommands ==
    {[type |-> t, motor_id |-> 1, host_id |-> 253] :
       t \in {"Enable", "SetMechanicalZero", "GetDeviceId"}}
    \cup {[type |-> "Stop", motor_id |-> 1, host_id |-> 253, clear_fault |-> b] : b \in BOOLEAN}
    \cup {[type |-> "SetCanId", motor_id |-> 1, host_id |-> 253, new_motor_id |-> 127],
          [type |-> "ReadParam", motor_id |-> 1, host_id |-> 253, index |-> 28698],
          [type |-> "WriteParam", motor_id |-> 1, host_id |-> 253, index |-> 28677,
           value |-> <<2>>],
          [type |-> "WriteParam", motor_id |-> 1, host_id |-> 253, index |-> 28682,
           value |-> <<0, 0, 128, 191>>]}
    \cup {Motion(0, 500, 0, 4, 10), Motion(-1201, -4001, 441, 5001, 1001),
          Motion(3, -3999, 1, 499, 1)}

\* Motor 1 and motor 32, and another host that commands both; the torque of
\* its motion control frame has a 1 where a motor's frame has its id.
OnTheBus ==
    {raw_frame(f) : f \in FeedbackFrames \cup ResponseFrames}
      \cup {raw_frame(make_enable_frame(1, 254)),
            [raw_frame(make_enable_frame(32, 254)) EXCEPT !.id = <<1, 128, 1, 32>>]}

\* A standard data frame of a device that speaks another protocol.
Standard == {[eff |-> FALSE, id |-> <<0, 0, 1, 160>>, dlc |-> 8, data |-> zeros(8)]}

Mixed == OnTheBus \cup Standard

\* Before the filter is set nothing is kept from the queue.
Unfiltered == Standard \cup {raw_frame(make_enable_frame(32, 254))}

============================================================================
