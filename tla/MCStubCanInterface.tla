------------------------ MODULE MCStubCanInterface ------------------------
(* StubCanInterface for TLC: one motor that is sent everything, and another  *)
(* whose answers come in between.                                            *)
EXTENDS StubCanInterface

CONSTANTS m1, m2

Little == {make_enable_frame}

Everything ==
    {make_enable_frame, make_stop_frame(FALSE), make_stop_frame(TRUE),
     make_set_mechanical_zero_frame, make_motion_control_frame,
     make_read_param_frame("run_mode"), make_read_param_frame("spd_ref"),
     make_write_param_frame("run_mode", Velocity),
     make_write_param_frame("run_mode", PositionCsp),
     make_write_param_frame("spd_ref", -2),
     make_write_param_frame("loc_ref", 3),
     [type |-> "FaultFeedback", index |-> "none", value |-> 0]}

InstructionsOf == [m \in {m1, m2} |-> IF m = m1 THEN Everything ELSE Little]

============================================================================
