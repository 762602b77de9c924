------------------------ MODULE MCRobstrideMotor ------------------------
(***************************************************************************)
(* Instances of RobstrideMotor small enough for TLC.                       *)
(***************************************************************************)
EXTENDS RobstrideMotor

\* A call of every script with a promise of its own.  The others differ from
\* these in the parameter they write.
TimelyApis == {"enable", "disable", "set_run_mode", "set_mechanical_zero",
               "send_position_csp_command", "read_param_float", "get_run_mode"}

\* Losses and errors under which an answer still never outlives its call.
TimelyFaults == {"loseRequest", "loseAnswer", "short", "foreign", "sendFails",
                 "refuse", "crash"}

\* Everything that can happen to the frames of a command.
LateFaults == (TimelyFaults \ {"refuse"})
                \cup {"late", "report", "rival", "receiveFails"}

============================================================================
