-------------------------- MODULE RobstrideMotor --------------------------
(***************************************************************************)
(* RobstrideMotor (src/src/robstride_motor.cpp): every API call is a       *)
(* script of commands, and every command is one exchange (`transceive`):   *)
(* send a frame, then look at whatever the bus delivers until a frame of   *)
(* this motor with the expected type arrives or the deadline passes.       *)
(*                                                                         *)
(* The instances of all motors share one CanInterface and their calls are  *)
(* serialized, as the class requires, so there is one program counter.     *)
(* The motors and the bus are the environment; the set Faults names what   *)
(* they are allowed to do wrong.                                           *)
(***************************************************************************)
EXTENDS Frames

CONSTANTS
    Other,        \* CAN id of a device another host drives on the same bus
    NoFrame,      \* std::nullopt where a frame could be
    Apis,         \* the calls the application makes
    Modes,        \* run modes it asks for
    Values,       \* parameter values it writes
    Faults,       \* what the environment may do, see FaultKinds
    MaxSends,     \* bound on the command frames sent in one behaviour
    MaxQueue      \* bound on the frames queued when unsolicited ones arrive

FaultKinds ==
  {"loseRequest",   \* a command frame never reaches its motor
   "loseAnswer",    \* a motor obeys and its answer is never received
   "short",         \* a motor answers with dlc < 8
   "late",          \* the deadline may pass before the answer arrives
   "report",        \* a motor sends frames nobody asked for
   "foreign",       \* frames of a device another host drives
   "rival",         \* another host drives the same motor
   "sendFails",     \* CanInterface::send throws
   "receiveFails",  \* CanInterface::receive throws
   "refuse",        \* a motor ignores a write of run_mode
   "crash"}         \* the host process restarts

ASSUME RobstrideMotorAssumption ==
    /\ Other \notin Motors
    /\ Modes \subseteq RunMode
    /\ Values \subseteq Nat
    /\ Faults \subseteq FaultKinds
    /\ MaxSends \in Nat
    /\ MaxQueue \in Nat

\* A frame a device sends.  `whole` is dlc >= 8; `re` is a ghost: the number
\* of the last command the sender had obeyed when it sent the frame.
Answer == [src : Motors \cup {Other}, type : CommType, whole : BOOLEAN,
           re : Nat, enabled : BOOLEAN, index : ParamIndex, value : Nat]

ASSUME NoFrameAssumption == NoFrame \notin Answer

Request == [id : Nat, cmd : Command]

----------------------------------------------------------------------------
\* The API: the commands each call sends, in order.  The definitions named
\* ..._bug are slips one could make; no action refers to them.

enable == <<make_enable_frame>>

disable(clear_fault) == <<make_stop_frame(clear_fault)>>

write_param(index, value) == <<make_write_param_frame(index, value)>>

read_param_float(index) == <<make_read_param_frame(index)>>

read_param_uint8(index) == <<make_read_param_frame(index)>>

get_run_mode == read_param_uint8("run_mode")

set_run_mode_bug(mode) == write_param("run_mode", mode) \o get_run_mode

set_run_mode(mode) ==
    disable(FALSE) \o write_param("run_mode", mode) \o get_run_mode

configure_velocity_mode(current_limit, acceleration) ==
    write_param("limit_cur", current_limit)
      \o write_param("acc_rad", acceleration)

send_velocity_command(velocity) == write_param("spd_ref", velocity)

send_position_csp_command_bug(position, speed_limit) ==
    write_param("loc_ref", position) \o write_param("limit_spd", speed_limit)

send_position_csp_command(position, speed_limit) ==
    write_param("limit_spd", speed_limit) \o write_param("loc_ref", position)

send_motion_command == <<make_motion_control_frame>>

set_mechanical_zero_bug == <<make_set_mechanical_zero_frame>>

set_mechanical_zero == disable(FALSE) \o <<make_set_mechanical_zero_frame>>

\* What the application can call, by name.
Script(api) ==
    CASE api = "enable" -> {enable}
      [] api = "disable" -> {disable(clear) : clear \in BOOLEAN}
      [] api = "set_run_mode" -> {set_run_mode(mode) : mode \in Modes}
      [] api = "get_run_mode" -> {get_run_mode}
      [] api = "configure_velocity_mode" ->
           {configure_velocity_mode(i, a) : i \in Values, a \in Values}
      [] api = "send_velocity_command" ->
           {send_velocity_command(v) : v \in Values}
      [] api = "send_position_csp_command" ->
           {send_position_csp_command(p, v) : p \in Values, v \in Values}
      [] api = "send_motion_command" -> {send_motion_command}
      [] api = "set_mechanical_zero" -> {set_mechanical_zero}
      [] api = "read_param_float" -> {read_param_float(i) : i \in FloatParams}
      [] api = "write_param" ->
           {write_param(i, v) : i \in FloatParams, v \in Values}
      [] OTHER -> {}

Call == [api : Apis, m : Motors, script : Seq(Command) \ {<<>>}]

NoCall == [api |-> "none", m |-> Other, script |-> <<>>]

Calls == {c \in UNION {{[api |-> a, m |-> m, script |-> s] : s \in Script(a)} :
                       a \in Apis, m \in Motors} : c \in Call}

----------------------------------------------------------------------------
VARIABLES
    \* the driver
    pc,             \* where it is: idle, or inside transceive
    call,           \* the API call in progress, or the last one
    step,           \* which command of its script
    expired,        \* now >= deadline
    response,       \* the frame transceive returned last
    status,         \* how the last call ended
    last_feedback,  \* last_feedback_ of each motor's instance
    sends,          \* ghost: commands sent so far, numbers the exchanges
    \* the bus
    toMotor,        \* commands on their way, per motor
    toHost,         \* frames on their way to the host, and in its queue
    \* the motors
    motor,          \* the state a command acts on
    served          \* ghost: the last command each motor obeyed

driverVars == <<pc, call, step, expired, response, status, last_feedback, sends>>
busVars == <<toMotor, toHost>>
motorVars == <<motor, served>>
vars == <<pc, call, step, expired, response, status, last_feedback, sends,
          toMotor, toHost, motor, served>>

Status == {"none", "ok", "timeout", "malformed", "mismatch", "transport"}

\* Every variable stays in its domain, and inside a call there is a command
\* to exchange: transceive is never entered without one.
TypeOK ==
    /\ pc \in {"idle", "send", "check", "receive"}
    /\ call \in Call \cup {NoCall}
    /\ step \in Nat \ {0}
    /\ pc # "idle" => call \in Call /\ step <= Len(call.script)
    /\ expired \in BOOLEAN
    /\ response \in Answer \cup {NoFrame}
    /\ status \in Status
    /\ last_feedback \in [Motors -> Answer \cup {NoFrame}]
    /\ sends \in Nat
    /\ toMotor \in [Motors -> Seq(Request)]
    /\ toHost \in Seq(Answer)
    /\ motor \in [Motors -> MotorState]
    /\ served \in [Motors -> Nat]

\* A motor powers up disabled, in operation control mode.
Init ==
    /\ pc = "idle" /\ call = NoCall /\ step = 1 /\ expired = FALSE
    /\ response = NoFrame /\ status = "none" /\ sends = 0
    /\ last_feedback = [m \in Motors |-> NoFrame]
    /\ toMotor = [m \in Motors |-> <<>>] /\ toHost = <<>>
    /\ motor = [m \in Motors |-> [enabled |-> FALSE, run_mode |-> 0,
                                  params |-> [p \in FloatParams |-> 0]]]
    /\ served = [m \in Motors |-> 0]

----------------------------------------------------------------------------
\* The driver.

\* The oldest element of a queue, if there is one.
First(q) == {q[i] : i \in {1} \cap DOMAIN q}

cmd == call.script[step]

Waiting == pc \in {"check", "receive"}

Raise(error) == pc' = "idle" /\ status' = error

Invoke(c) ==
    /\ pc = "idle"
    /\ sends + Len(c.script) <= MaxSends
    /\ pc' = "send" /\ call' = c /\ step' = 1 /\ status' = "none"
    /\ UNCHANGED <<expired, response, last_feedback, sends, busVars, motorVars>>

\* can_->send(frame), and the deadline is set.
Send ==
    /\ pc = "send"
    /\ pc' = "check" /\ expired' = FALSE /\ sends' = sends + 1
    /\ toMotor' = [toMotor EXCEPT ![call.m] =
                     Append(@, [id |-> sends + 1, cmd |-> cmd])]
    /\ UNCHANGED <<call, step, response, status, last_feedback, toHost, motorVars>>

SendFails ==
    /\ "sendFails" \in Faults /\ pc = "send"
    /\ Raise("transport")
    /\ UNCHANGED <<call, step, expired, response, last_feedback, sends,
                   busVars, motorVars>>

DeadlinePassed_bug == expired /\ toHost = <<>>

DeadlinePassed == expired

\* The top of the loop: give up, or block in can_->receive(remaining).
Check ==
    /\ pc = "check"
    /\ \/ DeadlinePassed /\ Raise("timeout")
       \/ ~DeadlinePassed /\ pc' = "receive" /\ UNCHANGED status
    /\ UNCHANGED <<call, step, expired, response, last_feedback, sends,
                   busVars, motorVars>>

\* can_->receive returned nullopt.  `remaining` is truncated to whole
\* milliseconds, so `expired` stands for "less than one millisecond left".
ReceiveTimesOut ==
    /\ pc = "receive" /\ expired /\ toHost = <<>>
    /\ Raise("timeout")
    /\ UNCHANGED <<call, step, expired, response, last_feedback, sends,
                   busVars, motorVars>>

ReceiveFails ==
    /\ "receiveFails" \in Faults /\ pc = "receive"
    /\ Raise("transport")
    /\ UNCHANGED <<call, step, expired, response, last_feedback, sends,
                   busVars, motorVars>>

\* can_->receive returned the frame f.
Received(f) ==
    /\ pc = "receive" /\ f \in First(toHost)
    /\ toHost' = Tail(toHost)
    /\ UNCHANGED <<call, expired, sends, toMotor, motorVars>>

FromThisMotor_bug(f) == TRUE

FromThisMotor(f) == f.src = call.m

expected_type == AnswerType(cmd)

parse_feedback(f) == IF f.type = "Feedback" /\ f.whole THEN f ELSE NoFrame

Cache(f) ==
    last_feedback' = IF parse_feedback(f) = NoFrame THEN last_feedback
                     ELSE [last_feedback EXCEPT ![call.m] = parse_feedback(f)]

Discard ==
    \E f \in First(toHost) :
      /\ Received(f) /\ ~FromThisMotor(f)
      /\ pc' = "check"
      /\ UNCHANGED <<step, response, status, last_feedback>>

Overhear ==
    \E f \in First(toHost) :
      /\ Received(f) /\ FromThisMotor(f) /\ f.type # expected_type
      /\ pc' = "check" /\ Cache(f)
      /\ UNCHANGED <<step, response, status>>

Accepted(f) == Received(f) /\ FromThisMotor(f) /\ f.type = expected_type /\ Cache(f)

AcceptMalformed ==
    \E f \in First(toHost) :
      /\ Accepted(f) /\ ~f.whole
      /\ Raise("malformed")
      /\ UNCHANGED <<step, response>>

AcceptAndGoOn_bug ==
    \E f \in First(toHost) :
      /\ Accepted(f) /\ f.whole /\ step <= Len(call.script)
      /\ response' = f /\ step' = step + 1 /\ pc' = "send"
      /\ UNCHANGED status

AcceptAndGoOn ==
    \E f \in First(toHost) :
      /\ Accepted(f) /\ f.whole /\ step < Len(call.script)
      /\ response' = f /\ step' = step + 1 /\ pc' = "send"
      /\ UNCHANGED status

\* The low byte of the value field.  Values stand for small integers, and
\* the low mantissa byte of a small integer's float is zero.
as_uint8(f) == IF f.index = "run_mode" THEN f.value ELSE 0

Verdict_bug(f) == "ok"

Verdict(f) ==
    IF call.api = "set_run_mode" /\ as_uint8(f) # call.script[2].value
    THEN "mismatch" ELSE "ok"

AcceptAndReturn ==
    \E f \in First(toHost) :
      /\ Accepted(f) /\ f.whole /\ step = Len(call.script)
      /\ response' = f /\ pc' = "idle" /\ status' = Verdict(f)
      /\ UNCHANGED step

Driver ==
    \/ Send \/ SendFails \/ Check \/ ReceiveTimesOut \/ ReceiveFails
    \/ Discard \/ Overhear
    \/ AcceptMalformed \/ AcceptAndGoOn \/ AcceptAndReturn

----------------------------------------------------------------------------
\* Time, motors, bus.

Quiet(m) == toMotor[m] = <<>> /\ \A i \in DOMAIN toHost : toHost[i].src # m

\* The deadline passes.  Unless answers can be late, only when the motor
\* will not answer any more.
Tick ==
    /\ Waiting /\ ~expired
    /\ "late" \in Faults \/ Quiet(call.m)
    /\ expired' = TRUE
    /\ UNCHANGED <<pc, call, step, response, status, last_feedback, sends,
                   busVars, motorVars>>

Refusing == "refuse" \in Faults

AnswerTo(m, s, r, whole) ==
    [src |-> m, type |-> AnswerType(r.cmd), whole |-> whole, re |-> r.id,
     enabled |-> s.enabled, index |-> r.cmd.index,
     value |-> AnswerValue(s, r.cmd)]

Handles(m, r, s) ==
    /\ r \in First(toMotor[m])
    /\ toMotor' = [toMotor EXCEPT ![m] = Tail(@)]
    /\ motor' = [motor EXCEPT ![m] = s]
    /\ served' = [served EXCEPT ![m] = r.id]
    /\ UNCHANGED driverVars

MotorAnswers(m) ==
    \E r \in First(toMotor[m]) : \E s \in Outcomes(motor[m], r.cmd, Refusing) :
      \E whole \in IF "short" \in Faults THEN BOOLEAN ELSE {TRUE} :
        /\ Handles(m, r, s)
        /\ toHost' = Append(toHost, AnswerTo(m, s, r, whole))

LoseAnswer(m) ==
    \E r \in First(toMotor[m]) : \E s \in Outcomes(motor[m], r.cmd, Refusing) :
      /\ "loseAnswer" \in Faults
      /\ Handles(m, r, s)
      /\ UNCHANGED toHost

LoseRequest(m) ==
    /\ "loseRequest" \in Faults /\ toMotor[m] # <<>>
    /\ toMotor' = [toMotor EXCEPT ![m] = Tail(@)]
    /\ UNCHANGED <<driverVars, toHost, motorVars>>

Unsolicited(src, type, re, on) ==
    /\ Len(toHost) < MaxQueue
    /\ toHost' = Append(toHost,
         [src |-> src, type |-> type, whole |-> TRUE, re |-> re,
          enabled |-> on, index |-> "none", value |-> 0])
    /\ UNCHANGED <<driverVars, toMotor, motorVars>>

\* A motor reports its state, or a fault, of its own accord.
Report(m) ==
    /\ "report" \in Faults
    /\ \E type \in {"Feedback", "FaultFeedback"} :
         Unsolicited(m, type, served[m], motor[m].enabled)

Foreign ==
    /\ "foreign" \in Faults
    /\ \E type \in {"Feedback", "ReadParam"} : Unsolicited(Other, type, 0, TRUE)

\* Another host commands the same motor.  transceive looks at neither the
\* destination of an answer nor the host that asked for it.
Rival(m) ==
    /\ "rival" \in Faults /\ Len(toHost) < MaxQueue
    /\ \E c \in {make_enable_frame, make_stop_frame(FALSE),
                make_read_param_frame("run_mode")} :
         /\ motor' = [motor EXCEPT ![m] = Obey(@, c)]
         /\ toHost' = Append(toHost, AnswerTo(m, Obey(motor[m], c),
                                              [id |-> served[m], cmd |-> c], TRUE))
    /\ UNCHANGED <<driverVars, toMotor, served>>

\* The host process dies and starts again: a new CanInterface whose receive
\* queue is empty, new instances without history.  The motors go on.
Restart ==
    /\ "crash" \in Faults
    /\ "late" \in Faults \/ \A m \in Motors : toMotor[m] = <<>>
    /\ pc' = "idle" /\ call' = NoCall /\ step' = 1 /\ expired' = FALSE
    /\ response' = NoFrame /\ status' = "none" /\ toHost' = <<>>
    /\ last_feedback' = [m \in Motors |-> NoFrame]
    /\ UNCHANGED <<sends, toMotor, motorVars>>

Next ==
    \/ \E c \in Calls : Invoke(c)
    \/ Driver
    \/ Tick
    \/ \E m \in Motors : \/ MotorAnswers(m) \/ LoseAnswer(m) \/ LoseRequest(m)
                       \/ Report(m) \/ Rival(m)
    \/ Foreign
    \/ Restart

Spec == Init /\ [][Next]_vars

\* The driver's thread keeps running and the clock keeps going.  Nothing is
\* assumed of the motors, of the bus, or of the application.
FairSpec == Spec /\ WF_vars(Driver) /\ WF_vars(Tick)

----------------------------------------------------------------------------
\* Properties.

\* A call that returns normally returns the answer of its own last command:
\* the frame of this motor, sent after this motor obeyed that command.
FreshAnswer ==
    status = "ok" => response.src = call.m /\ response.re = sends

\* disable, set_run_mode and set_mechanical_zero leave the motor stopped
\* when they return normally.
StoppedOnReturn ==
    status = "ok" /\ call.api \in {"disable", "set_run_mode", "set_mechanical_zero"}
      => ~motor[call.m].enabled

\* set_run_mode returns normally only if the motor is in the mode asked for.
ModeOnReturn ==
    status = "ok" /\ call.api = "set_run_mode"
      => motor[call.m].run_mode = call.script[2].value

\* A parameter read returns the value the motor holds when it returns.
ReadReturnsCurrent ==
    status = "ok" /\ call.api \in {"get_run_mode", "read_param_float"}
      => /\ response.index = call.script[1].index
         /\ response.value = ParamValue(motor[call.m], call.script[1].index)

\* The run mode of a motor changes only while the motor is stopped.
ModeChangeOnlyWhenStopped ==
    [][\A m \in Motors :
         motor'[m].run_mode # motor[m].run_mode => ~motor[m].enabled]_vars

\* A motor obeys a set-zero command only while it is stopped.
ZeroOnlyWhenStopped ==
    [][\A m \in Motors :
         /\ served'[m] # served[m]
         /\ Head(toMotor[m]).cmd.type = "SetMechanicalZero"
         => ~motor[m].enabled]_vars

\* A position target of send_position_csp_command reaches the motor only
\* when the speed limit of the same call is in force there.
TargetUnderItsLimit ==
    [][\A m \in Motors :
         /\ served'[m] # served[m]
         /\ call.api = "send_position_csp_command"
         /\ Head(toMotor[m]).cmd.index = "loc_ref"
         => motor[m].params["limit_spd"] = call.script[1].value]_vars

\* last_feedback() never goes back to a state the motor had before one it
\* already reported, whatever the bus loses, delays or adds.
CacheNeverRegresses ==
    [][\A m \in Motors :
         last_feedback[m] # NoFrame /\ last_feedback'[m] # NoFrame
           => last_feedback[m].re <= last_feedback'[m].re]_vars

\* Every API call returns or throws, however many frames of other devices
\* keep arriving and whether or not the motor ever answers.
EveryCallReturns == pc # "idle" ~> pc = "idle"

----------------------------------------------------------------------------
\* What the exchanges promise while answers are in time (module MotorService).
\* The request is pending from the moment the frame is sent until transceive
\* returns or throws.

NoRequest == [m |-> Other, cmd |-> make_enable_frame]

NoReply == [m |-> Other, index |-> "none", enabled |-> FALSE, value |-> 0]

request == IF Waiting THEN [m |-> call.m, cmd |-> cmd] ELSE NoRequest

obeyed == Waiting /\ served[call.m] = sends

reply ==
    IF response = NoFrame THEN NoReply
    ELSE [m |-> response.src, index |-> response.index,
          enabled |-> response.enabled, value |-> response.value]

Service == INSTANCE MotorService

ServiceSpec == Service!Spec

============================================================================
