--------------------------- MODULE MotorService ---------------------------
(***************************************************************************)
(* What a user of RobstrideMotor relies on, without frames, queues or      *)
(* clocks: one command at a time is outstanding at one motor; the motor    *)
(* obeys it at most once, while it is outstanding and never afterwards;    *)
(* and a call that gets a reply gets the state the motor was in right      *)
(* after it obeyed this very command.                                      *)
(***************************************************************************)
EXTENDS Frames

CONSTANTS NoRequest, NoReply, Refusing

VARIABLES
    motor,    \* the motors
    request,  \* the outstanding command and its motor, or NoRequest
    obeyed,   \* the motor has received the outstanding command
    reply     \* the last reply handed to the caller, or NoReply

vars == <<motor, request, obeyed, reply>>

Init ==
    /\ motor = [m \in Motors |-> [enabled |-> FALSE, run_mode |-> 0,
                                  params |-> [p \in FloatParams |-> 0]]]
    /\ request = NoRequest /\ obeyed = FALSE /\ reply = NoReply

Issue ==
    /\ request = NoRequest
    /\ request' \in [m : Motors, cmd : Command] /\ obeyed' = FALSE
    /\ UNCHANGED <<motor, reply>>

TakeEffect ==
    /\ request # NoRequest /\ ~obeyed
    /\ \E s \in Outcomes(motor[request.m], request.cmd, Refusing) :
         motor' = [motor EXCEPT ![request.m] = s]
    /\ obeyed' = TRUE
    /\ UNCHANGED <<request, reply>>

Reply ==
    /\ request # NoRequest /\ obeyed
    /\ reply' = [m |-> request.m, index |-> request.cmd.index,
                 enabled |-> motor[request.m].enabled,
                 value |-> AnswerValue(motor[request.m], request.cmd)]
    /\ request' = NoRequest /\ obeyed' = FALSE
    /\ UNCHANGED motor

\* The call throws; whether the motor obeyed stays unknown to the caller.
Fail ==
    /\ request # NoRequest
    /\ request' = NoRequest /\ obeyed' = FALSE
    /\ UNCHANGED <<motor, reply>>

\* The caller starts anew and remembers no reply.
Forget ==
    /\ request' = NoRequest /\ obeyed' = FALSE /\ reply' = NoReply
    /\ UNCHANGED motor

Next ==
    \/ Issue \/ TakeEffect \/ Reply \/ Fail \/ Forget

Spec == Init /\ [][Next]_vars

============================================================================
