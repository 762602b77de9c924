-------------------------- MODULE MCBenchPrograms --------------------------
(***************************************************************************)
(* BenchPrograms with one motor and an unreliable bus.                     *)
(***************************************************************************)
EXTENDS BenchPrograms

AllPrograms == {"velocity", "position", "pp", "current", "operation"}

BenchParams == {"spd_ref", "limit_cur", "acc_rad", "loc_ref", "limit_spd",
                "vel_max", "acc_set", "iq_ref", "iq_filtered"}

BenchApis == {"set_run_mode", "enable", "disable", "configure_velocity_mode",
              "send_velocity_command", "set_mechanical_zero", "write_param",
              "send_motion_command", "read_param_float"}

BenchFaults == {"loseRequest", "loseAnswer", "short", "foreign", "sendFails", "refuse"}

============================================================================
