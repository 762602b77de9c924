-------------------------- MODULE BenchProgramsProofs --------------------------
(***************************************************************************)
(* Proofs about the example programs while answers are timely: targets     *)
(* reach the motor in the program's mode and under its limits only, and a  *)
(* run that succeeds leaves the motor stopped, in that mode, under those   *)
(* limits, and turning or pulling nowhere if it is a velocity or a current *)
(* program.                                                                *)
(***************************************************************************)
EXTENDS BenchPrograms, RobstrideMotorTimelyProofs

----------------------------------------------------------------------------
\* What the calls of the programs send.

Writes(c, index) == c.type = "WriteParam" /\ c.index = index

\* Every script of the call is one the class has.
Callable(c) ==
  \A m \in Motors : \A script \in c.scripts :
    [api |-> c.api, m |-> m, script |-> script] \in Calls

\* No command of the call is a target.
Harmless(c) == \A script \in c.scripts : \A s \in DOMAIN script : ~IsTarget(script[s])

\* The call leaves the parameter alone.
Keeps(c, index) ==
  \A script \in c.scripts : \A s \in DOMAIN script : ~Writes(script[s], index)

\* Command s of the call is its last write of the parameter, with value v.
LastSet(c, s, index, v) ==
  \A script \in c.scripts :
    /\ s \in DOMAIN script /\ script[s] = make_write_param_frame(index, v)
    /\ \A t \in DOMAIN script : t > s => ~Writes(script[t], index)

Silent(c) == \A index \in FloatParams : Keeps(c, index)

\* A call with a script of the class is a call the application can make.
LEMMA IsCall ==
  ASSUME NEW c, c.api \in Apis,
         \A script \in c.scripts :
           script \in Script(c.api) /\ script \in Seq(Command) /\ script # <<>>
  PROVE  Callable(c)
<1> SUFFICES ASSUME NEW m \in Motors, NEW script \in c.scripts
             PROVE  [api |-> c.api, m |-> m, script |-> script] \in Calls
  BY DEF Callable
<1> DEFINE scripts == Script(c.api)
           x == [api |-> c.api, m |-> m, script |-> script]
<1>1. x \in Call
  BY DEF Call
<1>2. script \in scripts
  OBVIOUS
<1> HIDE DEF scripts
<1> DEFINE Made(a, n) == {[api |-> a, m |-> n, script |-> s] : s \in Script(a)}
<1>3. x \in Made(c.api, m)
  BY <1>2 DEF scripts
<1> HIDE DEF x, Made
<1>4. x \in UNION {Made(a, n) : a \in Apis, n \in Motors}
  BY <1>3
<1> USE DEF Made
<1> QED
  BY <1>1, <1>4 DEF Calls, x

\* set_run_mode sends nothing that concerns a target or a float parameter.
LEMMA SetModeFacts ==
  ASSUME NEW mode \in Modes
  PROVE  /\ SetMode(mode).api = "set_run_mode"
         /\ SetMode(mode).scripts = {set_run_mode(mode)}
         /\ set_run_mode(mode)[2].value = mode
         /\ Callable(SetMode(mode)) /\ Harmless(SetMode(mode)) /\ Silent(SetMode(mode))
<1> DEFINE t == <<make_stop_frame(FALSE), make_write_param_frame("run_mode", mode),
                  make_read_param_frame("run_mode")>>
<1>1. set_run_mode(mode) = t
  BY Tuples DEF set_run_mode, disable, write_param, get_run_mode, read_param_uint8
<1>2. SetMode(mode).api = "set_run_mode" /\ SetMode(mode).scripts = {t}
  BY <1>1 DEF SetMode, Step
<1>3. mode \in Nat
  BY RobstrideMotorAssumption DEF RunMode
<1>4. t \in Seq(Command) /\ t # <<>>
  <2>1. /\ make_stop_frame(FALSE) \in Command
        /\ make_write_param_frame("run_mode", mode) \in Command
        /\ make_read_param_frame("run_mode") \in Command
    BY <1>3 DEF Command, CommType, ParamIndex, make_stop_frame,
                make_write_param_frame, make_read_param_frame
  <2>2. \A a, b, c \in Command : <<a, b, c>> \in Seq(Command) /\ <<a, b, c>> # <<>>
    OBVIOUS
  <2> QED
    BY <2>1, <2>2
<1>5. Callable(SetMode(mode))
  <2>1. set_run_mode(mode) \in Script("set_run_mode")
    BY DEF Script
  <2>2. t \in Script("set_run_mode")
    BY <1>1, <2>1
  <2> QED
    BY <1>2, <1>4, <2>2, IsCall, BenchProgramsAssumption
<1>6. \A s \in DOMAIN t :
        /\ ~IsTarget(t[s])
        /\ \A index \in FloatParams : ~Writes(t[s], index)
  <2>1. "run_mode" \notin FloatParams
    BY FramesAssumption
  <2>2. DOMAIN t = {1, 2, 3}
    OBVIOUS
  <2> QED
    BY <2>1, <2>2 DEF IsTarget, Writes, make_stop_frame, make_write_param_frame,
                      make_read_param_frame
<1>7. t[2].value = mode
  BY DEF make_write_param_frame
<1> HIDE DEF t
<1>8. Harmless(SetMode(mode)) /\ Silent(SetMode(mode))
  BY <1>2, <1>6 DEF Harmless, Silent, Keeps
<1> QED
  BY <1>1, <1>2, <1>5, <1>7, <1>8

\* Nor do the calls that zero, enable and stop the motor.
LEMMA SwitchFacts ==
  \A c \in {SetZero, Enable, Disable} : Callable(c) /\ Harmless(c) /\ Silent(c)
<1> USE DEF make_stop_frame, make_enable_frame, make_set_mechanical_zero_frame
<1>0. /\ make_stop_frame(FALSE) \in Command /\ make_enable_frame \in Command
      /\ make_set_mechanical_zero_frame \in Command
  BY DEF Command, CommType, ParamIndex
<1>1. Callable(SetZero) /\ Harmless(SetZero) /\ Silent(SetZero)
  <2> DEFINE t == <<make_stop_frame(FALSE), make_set_mechanical_zero_frame>>
  <2>1. set_mechanical_zero = t
    BY Tuples DEF set_mechanical_zero, disable
  <2>2. SetZero.api = "set_mechanical_zero" /\ SetZero.scripts = {t}
    BY <2>1 DEF SetZero, Step
  <2>3. t \in Script("set_mechanical_zero") /\ t \in Seq(Command) /\ t # <<>>
    BY <1>0, <2>1 DEF Script
  <2>4. \A s \in DOMAIN t :
          ~IsTarget(t[s]) /\ \A index \in FloatParams : ~Writes(t[s], index)
    <3>1. DOMAIN t = {1, 2}
      OBVIOUS
    <3> QED
      BY <3>1 DEF IsTarget, Writes
  <2> HIDE DEF t
  <2> QED
    BY <2>2, <2>3, <2>4, IsCall, BenchProgramsAssumption DEF Harmless, Silent, Keeps
<1>2. Callable(Enable) /\ Harmless(Enable) /\ Silent(Enable)
  <2>1. Enable.api = "enable" /\ Enable.scripts = {enable}
    BY DEF Enable, Step
  <2>2. enable \in Script("enable") /\ enable \in Seq(Command) /\ enable # <<>>
    BY <1>0 DEF Script, enable
  <2>3. \A s \in DOMAIN enable :
          ~IsTarget(enable[s]) /\ \A index \in FloatParams : ~Writes(enable[s], index)
    BY DEF enable, IsTarget, Writes
  <2> QED
    BY <2>1, <2>2, <2>3, IsCall, BenchProgramsAssumption DEF Harmless, Silent, Keeps
<1>3. Callable(Disable) /\ Harmless(Disable) /\ Silent(Disable)
  <2> DEFINE t == disable(FALSE)
  <2>1. Disable.api = "disable" /\ Disable.scripts = {t}
    BY DEF Disable, Step
  <2>2. t \in Script("disable")
    <3>1. t \in {disable(clear) : clear \in BOOLEAN}
      OBVIOUS
    <3>2. Script("disable") = {disable(clear) : clear \in BOOLEAN}
      BY DEF Script
    <3> QED
      BY <3>1, <3>2
  <2>3. t \in Seq(Command) /\ t # <<>>
    BY <1>0 DEF disable
  <2>4. \A s \in DOMAIN t :
          ~IsTarget(t[s]) /\ \A index \in FloatParams : ~Writes(t[s], index)
    BY DEF disable, IsTarget, Writes
  <2> HIDE DEF t
  <2> QED
    BY <2>1, <2>2, <2>3, <2>4, IsCall, BenchProgramsAssumption DEF Harmless, Silent, Keeps
<1> QED
  BY <1>1, <1>2, <1>3

\* Motion commands and reads write nothing.
LEMMA MoveFacts ==
  /\ Callable(Move) /\ Silent(Move)
  /\ \A i \in FloatParams : Callable(Read(i)) /\ Silent(Read(i))
<1>1. Callable(Move) /\ Silent(Move)
  <2>1. make_motion_control_frame \in Command
    BY DEF Command, CommType, ParamIndex, make_motion_control_frame
  <2>2. /\ Move.api = "send_motion_command"
        /\ Move.scripts = {<<make_motion_control_frame>>}
    BY DEF Move, Step, send_motion_command
  <2>3. /\ <<make_motion_control_frame>> \in Script("send_motion_command")
        /\ <<make_motion_control_frame>> \in Seq(Command)
        /\ <<make_motion_control_frame>> # <<>>
    BY <2>1 DEF Script, send_motion_command
  <2>4. Callable(Move)
    BY <2>2, <2>3, IsCall, BenchProgramsAssumption
  <2> QED
    BY <2>2, <2>4 DEF Silent, Keeps, Writes, make_motion_control_frame
<1>2. ASSUME NEW i \in FloatParams PROVE Callable(Read(i)) /\ Silent(Read(i))
  <2>1. make_read_param_frame(i) \in Command
    BY DEF Command, CommType, ParamIndex, make_read_param_frame
  <2>2. /\ Read(i).api = "read_param_float"
        /\ Read(i).scripts = {<<make_read_param_frame(i)>>}
    BY DEF Read, Step, read_param_float
  <2>3. /\ <<make_read_param_frame(i)>> \in Script("read_param_float")
        /\ <<make_read_param_frame(i)>> \in Seq(Command)
        /\ <<make_read_param_frame(i)>> # <<>>
    BY <2>1 DEF Script, read_param_float
  <2>4. Callable(Read(i))
    BY <2>2, <2>3, IsCall, BenchProgramsAssumption
  <2> QED
    BY <2>2, <2>4 DEF Silent, Keeps, Writes, make_read_param_frame
<1> QED
  BY <1>1, <1>2

\* What a write frame is.
LEMMA WriteFrame ==
  ASSUME NEW i \in FloatParams, NEW v \in Values
  PROVE  /\ make_write_param_frame(i, v) \in Command
         /\ \A j : Writes(make_write_param_frame(i, v), j) <=> j = i
         /\ i \notin {"spd_ref", "loc_ref", "iq_ref"}
              => ~IsTarget(make_write_param_frame(i, v))
<1>1. v \in Nat
  BY RobstrideMotorAssumption
<1> QED
  BY <1>1 DEF Command, CommType, ParamIndex, make_write_param_frame, Writes, IsTarget

\* A call that writes one parameter, with one of several values.
LEMMA OneWrite ==
  ASSUME NEW c, NEW i \in FloatParams, NEW vs \in SUBSET Values,
         c.api \in Apis, c.scripts = {write_param(i, v) : v \in vs},
         c.scripts \subseteq Script(c.api)
  PROVE  /\ Callable(c)
         /\ \A j \in FloatParams : j # i => Keeps(c, j)
         /\ i \notin {"spd_ref", "loc_ref", "iq_ref"} => Harmless(c)
         /\ \A v \in Values : vs = {v} => LastSet(c, 1, i, v)
<1>1. ASSUME NEW script \in c.scripts
      PROVE  \E v \in vs :
               script = <<make_write_param_frame(i, v)>>
  BY <1>1 DEF write_param
<1>2. ASSUME NEW script \in c.scripts PROVE script \in Seq(Command) /\ script # <<>>
  <2>1. PICK v \in vs : script = <<make_write_param_frame(i, v)>>
    BY <1>1, <1>2
  <2>2. make_write_param_frame(i, v) \in Command
    BY WriteFrame
  <2> QED
    BY <2>1, <2>2
<1>3. Callable(c)
  BY <1>2, IsCall
<1>4. ASSUME NEW script \in c.scripts, NEW s \in DOMAIN script
      PROVE  \E v \in vs : s = 1 /\ script[s] = make_write_param_frame(i, v)
  <2>1. PICK v \in vs : script = <<make_write_param_frame(i, v)>>
    BY <1>1
  <2> QED
    BY <2>1
<1>5. ASSUME NEW j \in FloatParams, j # i PROVE Keeps(c, j)
  BY <1>4, <1>5, WriteFrame DEF Keeps
<1>6. ASSUME i \notin {"spd_ref", "loc_ref", "iq_ref"} PROVE Harmless(c)
  BY <1>4, <1>6, WriteFrame DEF Harmless
<1>7. ASSUME NEW v \in Values, vs = {v} PROVE LastSet(c, 1, i, v)
  <2>1. c.scripts = {<<make_write_param_frame(i, v)>>}
    BY <1>7 DEF write_param
  <2> QED
    BY <2>1 DEF LastSet
<1> QED
  BY <1>3, <1>5, <1>6, <1>7

\* The calls that write one parameter.
LEMMA WriteFacts ==
  ASSUME NEW i \in FloatParams, NEW vs \in SUBSET Values
  PROVE  /\ Callable(Write(i, vs))
         /\ \A j \in FloatParams : j # i => Keeps(Write(i, vs), j)
         /\ i \notin {"spd_ref", "loc_ref", "iq_ref"} => Harmless(Write(i, vs))
         /\ \A v \in Values : vs = {v} => LastSet(Write(i, vs), 1, i, v)
<1>1. /\ Write(i, vs).api = "write_param"
      /\ Write(i, vs).scripts = {write_param(i, v) : v \in vs}
  BY DEF Write, Step
<1>2. Write(i, vs).scripts \subseteq Script("write_param")
  BY <1>1 DEF Script
<1> QED
  BY <1>1, <1>2, OneWrite, BenchProgramsAssumption

\* send_velocity_command writes the velocity target.
LEMMA TurnFacts ==
  ASSUME NEW vs \in SUBSET Values
  PROVE  /\ Callable(Turn(vs))
         /\ \A j \in FloatParams : j # "spd_ref" => Keeps(Turn(vs), j)
         /\ \A v \in Values : vs = {v} => LastSet(Turn(vs), 1, "spd_ref", v)
<1>1. /\ Turn(vs).api = "send_velocity_command"
      /\ Turn(vs).scripts = {write_param("spd_ref", v) : v \in vs}
  BY DEF Turn, Step, send_velocity_command
<1>2. Turn(vs).scripts \subseteq Script("send_velocity_command")
  BY <1>1 DEF Script, send_velocity_command
<1> QED
  BY <1>1, <1>2, OneWrite, BenchProgramsAssumption

\* configure_velocity_mode writes its two limits and nothing else.
LEMMA ConfigureFacts ==
  /\ Callable(Configure) /\ Harmless(Configure)
  /\ \A j \in FloatParams \ {"limit_cur", "acc_rad"} : Keeps(Configure, j)
  /\ LastSet(Configure, 1, "limit_cur", Limit)
  /\ LastSet(Configure, 2, "acc_rad", Limit)
<1> DEFINE a == make_write_param_frame("limit_cur", Limit)
           b == make_write_param_frame("acc_rad", Limit)
           t == <<a, b>>
<1>1. Configure.api = "configure_velocity_mode" /\ Configure.scripts = {t}
  BY Tuples DEF Configure, Step, configure_velocity_mode, write_param
<1>2. Limit \in Values /\ {"limit_cur", "acc_rad"} \subseteq FloatParams
      /\ "configure_velocity_mode" \in Apis
  BY BenchProgramsAssumption
<1>3. /\ a \in Command /\ ~IsTarget(a) /\ \A j : Writes(a, j) <=> j = "limit_cur"
      /\ b \in Command /\ ~IsTarget(b) /\ \A j : Writes(b, j) <=> j = "acc_rad"
  BY <1>2, WriteFrame
<1>4. t \in Script("configure_velocity_mode")
  <2>1. t = configure_velocity_mode(Limit, Limit)
    BY Tuples DEF configure_velocity_mode, write_param
  <2> QED
    BY <1>2, <2>1 DEF Script
<1> HIDE DEF a, b
<1>5. t \in Seq(Command) /\ t # <<>>
  BY <1>3
<1>6. DOMAIN t = {1, 2} /\ t[1] = a /\ t[2] = b
  OBVIOUS
<1> HIDE DEF t
<1>7. Callable(Configure)
  BY <1>1, <1>2, <1>4, <1>5, IsCall
<1>8. /\ Harmless(Configure)
      /\ \A j \in FloatParams \ {"limit_cur", "acc_rad"} : Keeps(Configure, j)
  BY <1>1, <1>3, <1>6 DEF Harmless, Keeps
<1>9. LastSet(Configure, 1, "limit_cur", Limit) /\ LastSet(Configure, 2, "acc_rad", Limit)
  BY <1>1, <1>3, <1>6 DEF LastSet, a, b
<1> QED
  BY <1>7, <1>8, <1>9

----------------------------------------------------------------------------
\* The programs.

\* After command s of call k the parameter has this value for the rest of the
\* program: nothing that can come later writes it.
Settled(k, s, index, v) ==
  /\ k \in 1 .. Len(calls) /\ s \in Nat \ {0} /\ index \in FloatParams
  /\ k <= Len(p.prologue) \/ k > loop_end
  /\ LastSet(calls[k], s, index, v)
  /\ \A l \in 1 .. Len(calls) : l > k => Keeps(calls[l], index)

\* What the proofs need to know of a program.
Disciplined ==
  /\ Len(p.prologue) \in Nat \ {0} /\ loop_end \in Nat /\ Len(calls) \in Nat
  /\ Len(p.prologue) < loop_end /\ loop_end < Len(calls)
  /\ DOMAIN calls = 1 .. Len(calls)
  /\ \A k \in 1 .. Len(calls) : Callable(calls[k])
  /\ calls[1].api = "set_run_mode" /\ calls[1].scripts = {set_run_mode(p.mode)}
  /\ set_run_mode(p.mode)[2].value = p.mode
  /\ \A k \in 2 .. Len(calls) : calls[k].api # "set_run_mode"
  /\ \A k \in 1 .. Len(p.prologue) : Harmless(calls[k])
  /\ calls[Len(calls)].api = "disable"
  /\ \A index \in p.limits :
       \E k \in 1 .. Len(p.prologue), s \in {1, 2} : Settled(k, s, index, Limit)
  /\ \A index \in p.zeroed :
       \E k \in 1 .. Len(calls), s \in {1} : Settled(k, s, index, 0)

\* The calls of a program are these three tuples, one after the other.
InARow(a, b, c) ==
  /\ DOMAIN calls = 1 .. Len(calls) /\ loop_end = Len(a) + Len(b)
  /\ Len(calls) = Len(a) + Len(b) + Len(c)
  /\ \A k \in 1 .. Len(a) : calls[k] = a[k]
  /\ \A k \in 1 .. Len(b) : calls[Len(a) + k] = b[k]
  /\ \A k \in 1 .. Len(c) : calls[Len(a) + Len(b) + k] = c[k]

LEMMA CallsInARow ==
  ASSUME NEW S, NEW a \in Seq(S), NEW b \in Seq(S), NEW c \in Seq(S),
         p.prologue = a, p.loop = b, p.epilogue = c
  PROVE  InARow(a, b, c)
<1>1. calls = a \o b \o c /\ loop_end = Len(a) + Len(b)
  BY DEF calls, loop_end
<1> QED
  BY <1>1 DEF InARow

\* main() of velocity, call by call.
LEMMA VelocityCalls ==
  ASSUME program = "velocity"
  PROVE  /\ DOMAIN calls = 1 .. Len(calls)
         /\ Len(p.prologue) = 3 /\ loop_end = 4 /\ Len(calls) = 6
         /\ calls[1] = SetMode(2) /\ calls[2] = Enable /\ calls[3] = Configure
         /\ calls[4] = Turn(Targets) /\ calls[5] = Turn({0})
         /\ calls[6] = Disable
         /\ p.mode = 2 /\ p.limits = {"limit_cur", "acc_rad"} /\ p.zeroed = {"spd_ref"}
<1> DEFINE a == <<SetMode(2), Enable, Configure>>
           b == <<Turn(Targets)>>
           c == <<Turn({0}), Disable>>
           S == {SetMode(2), Enable, Configure, Turn(Targets), Turn({0}), Disable}
<1>1. /\ p.prologue = a /\ p.loop = b /\ p.epilogue = c
      /\ p.mode = 2 /\ p.limits = {"limit_cur", "acc_rad"} /\ p.zeroed = {"spd_ref"}
  BY DEF p, Code, velocity, Program
<1>2. a \in Seq(S) /\ b \in Seq(S) /\ c \in Seq(S)
  OBVIOUS
<1>3. /\ Len(a) = 3 /\ Len(b) = 1 /\ Len(c) = 2
      /\ a[1] = SetMode(2) /\ a[2] = Enable /\ a[3] = Configure
      /\ b[1] = Turn(Targets) /\ c[1] = Turn({0}) /\ c[2] = Disable
  OBVIOUS
<1> HIDE DEF a, b, c, S
<1>4. InARow(a, b, c)
  BY <1>1, <1>2, CallsInARow
<1> QED
  BY <1>1, <1>3, <1>4 DEF InARow

\* main() of position, call by call.
LEMMA PositionCalls ==
  ASSUME program = "position"
  PROVE  /\ DOMAIN calls = 1 .. Len(calls)
         /\ Len(p.prologue) = 4 /\ loop_end = 5 /\ Len(calls) = 6
         /\ calls[1] = SetMode(5) /\ calls[2] = SetZero /\ calls[3] = Enable
         /\ calls[4] = Write("limit_spd", {Limit})
         /\ calls[5] = Write("loc_ref", Targets) /\ calls[6] = Disable
         /\ p.mode = 5 /\ p.limits = {"limit_spd"} /\ p.zeroed = {}
<1> DEFINE a == <<SetMode(5), SetZero, Enable, Write("limit_spd", {Limit})>>
           b == <<Write("loc_ref", Targets)>>
           c == <<Disable>>
           S == {SetMode(5), SetZero, Enable, Write("limit_spd", {Limit}),
                  Write("loc_ref", Targets), Disable}
<1>1. /\ p.prologue = a /\ p.loop = b /\ p.epilogue = c
      /\ p.mode = 5 /\ p.limits = {"limit_spd"} /\ p.zeroed = {}
  BY DEF p, Code, position, Program
<1>2. a \in Seq(S) /\ b \in Seq(S) /\ c \in Seq(S)
  OBVIOUS
<1>3. /\ Len(a) = 4 /\ Len(b) = 1 /\ Len(c) = 1
      /\ a[1] = SetMode(5) /\ a[2] = SetZero /\ a[3] = Enable
      /\ a[4] = Write("limit_spd", {Limit}) /\ b[1] = Write("loc_ref", Targets)
      /\ c[1] = Disable
  OBVIOUS
<1> HIDE DEF a, b, c, S
<1>4. InARow(a, b, c)
  BY <1>1, <1>2, CallsInARow
<1> QED
  BY <1>1, <1>3, <1>4 DEF InARow

\* main() of pp, call by call.
LEMMA PPCalls ==
  ASSUME program = "pp"
  PROVE  /\ DOMAIN calls = 1 .. Len(calls)
         /\ Len(p.prologue) = 5 /\ loop_end = 6 /\ Len(calls) = 7
         /\ calls[1] = SetMode(1) /\ calls[2] = SetZero /\ calls[3] = Enable
         /\ calls[4] = Write("vel_max", {Limit})
         /\ calls[5] = Write("acc_set", {Limit})
         /\ calls[6] = Write("loc_ref", Targets) /\ calls[7] = Disable
         /\ p.mode = 1 /\ p.limits = {"vel_max", "acc_set"} /\ p.zeroed = {}
<1> DEFINE a == <<SetMode(1), SetZero, Enable, Write("vel_max", {Limit}),
                  Write("acc_set", {Limit})>>
           b == <<Write("loc_ref", Targets)>>
           c == <<Disable>>
           S == {SetMode(1), SetZero, Enable, Write("vel_max", {Limit}),
                  Write("acc_set", {Limit}), Write("loc_ref", Targets), Disable}
<1>1. /\ p.prologue = a /\ p.loop = b /\ p.epilogue = c
      /\ p.mode = 1 /\ p.limits = {"vel_max", "acc_set"} /\ p.zeroed = {}
  BY DEF p, Code, pp, Program
<1>2. a \in Seq(S) /\ b \in Seq(S) /\ c \in Seq(S)
  OBVIOUS
<1>3. /\ Len(a) = 5 /\ Len(b) = 1 /\ Len(c) = 1
      /\ a[1] = SetMode(1) /\ a[2] = SetZero /\ a[3] = Enable
      /\ a[4] = Write("vel_max", {Limit}) /\ a[5] = Write("acc_set", {Limit})
      /\ b[1] = Write("loc_ref", Targets) /\ c[1] = Disable
  OBVIOUS
<1> HIDE DEF a, b, c, S
<1>4. InARow(a, b, c)
  BY <1>1, <1>2, CallsInARow
<1> QED
  BY <1>1, <1>3, <1>4 DEF InARow

\* main() of current, call by call.
LEMMA CurrentCalls ==
  ASSUME program = "current"
  PROVE  /\ DOMAIN calls = 1 .. Len(calls)
         /\ Len(p.prologue) = 2 /\ loop_end = 4 /\ Len(calls) = 6
         /\ calls[1] = SetMode(3) /\ calls[2] = Enable
         /\ calls[3] = Write("iq_ref", Targets)
         /\ calls[4] = Read("iq_filtered") /\ calls[5] = Write("iq_ref", {0})
         /\ calls[6] = Disable
         /\ p.mode = 3 /\ p.limits = {} /\ p.zeroed = {"iq_ref"}
<1> DEFINE a == <<SetMode(3), Enable>>
           b == <<Write("iq_ref", Targets), Read("iq_filtered")>>
           c == <<Write("iq_ref", {0}), Disable>>
           S == {SetMode(3), Enable, Write("iq_ref", Targets), Read("iq_filtered"),
                  Write("iq_ref", {0}), Disable}
<1>1. /\ p.prologue = a /\ p.loop = b /\ p.epilogue = c
      /\ p.mode = 3 /\ p.limits = {} /\ p.zeroed = {"iq_ref"}
  BY DEF p, Code, current, Program
<1>2. a \in Seq(S) /\ b \in Seq(S) /\ c \in Seq(S)
  OBVIOUS
<1>3. /\ Len(a) = 2 /\ Len(b) = 2 /\ Len(c) = 2
      /\ a[1] = SetMode(3) /\ a[2] = Enable /\ b[1] = Write("iq_ref", Targets)
      /\ b[2] = Read("iq_filtered") /\ c[1] = Write("iq_ref", {0})
      /\ c[2] = Disable
  OBVIOUS
<1> HIDE DEF a, b, c, S
<1>4. InARow(a, b, c)
  BY <1>1, <1>2, CallsInARow
<1> QED
  BY <1>1, <1>3, <1>4 DEF InARow

\* main() of operation, call by call.
LEMMA OperationCalls ==
  ASSUME program = "operation"
  PROVE  /\ DOMAIN calls = 1 .. Len(calls)
         /\ Len(p.prologue) = 3 /\ loop_end = 4 /\ Len(calls) = 5
         /\ calls[1] = SetMode(0) /\ calls[2] = SetZero /\ calls[3] = Enable
         /\ calls[4] = Move /\ calls[5] = Disable
         /\ p.mode = 0 /\ p.limits = {} /\ p.zeroed = {}
<1> DEFINE a == <<SetMode(0), SetZero, Enable>>
           b == <<Move>>
           c == <<Disable>>
           S == {SetMode(0), SetZero, Enable, Move, Disable}
<1>1. /\ p.prologue = a /\ p.loop = b /\ p.epilogue = c
      /\ p.mode = 0 /\ p.limits = {} /\ p.zeroed = {}
  BY DEF p, Code, operation, Program
<1>2. a \in Seq(S) /\ b \in Seq(S) /\ c \in Seq(S)
  OBVIOUS
<1>3. /\ Len(a) = 3 /\ Len(b) = 1 /\ Len(c) = 1
      /\ a[1] = SetMode(0) /\ a[2] = SetZero /\ a[3] = Enable /\ b[1] = Move
      /\ c[1] = Disable
  OBVIOUS
<1> HIDE DEF a, b, c, S
<1>4. InARow(a, b, c)
  BY <1>1, <1>2, CallsInARow
<1> QED
  BY <1>1, <1>3, <1>4 DEF InARow


\* What the values and parameters of the programs are.
LEMMA ProgramConstants ==
  /\ {0, 1, 2, 3, 5} \subseteq Modes
  /\ {0} \in SUBSET Values /\ {Limit} \in SUBSET Values /\ Targets \in SUBSET Values
  /\ 0 \in Values /\ Limit \in Values
  /\ {"spd_ref", "limit_cur", "acc_rad", "loc_ref", "limit_spd", "vel_max",
      "acc_set", "iq_ref", "iq_filtered"} \subseteq FloatParams
BY BenchProgramsAssumption

\* velocity is disciplined.
LEMMA VelocityDisciplined == ASSUME program = "velocity" PROVE Disciplined
<1>0. DOMAIN calls = 1 .. Len(calls)
      /\ Len(p.prologue) = 3 /\ loop_end = 4 /\ Len(calls) = 6
  BY VelocityCalls
<1>1. /\ 1 .. Len(calls) = {1, 2, 3, 4, 5, 6}
      /\ 2 .. Len(calls) = {2, 3, 4, 5, 6}
      /\ 1 .. Len(p.prologue) = {1, 2, 3}
  <2>1. 1 .. 6 = {1, 2, 3, 4, 5, 6} /\ 2 .. 6 = {2, 3, 4, 5, 6} /\ 1 .. 3 = {1, 2, 3}
    OBVIOUS
  <2> QED
    BY <1>0, <2>1
<1>2. \A k \in {1, 2, 3, 4, 5, 6} : Callable(calls[k])
  BY VelocityCalls, ProgramConstants, SetModeFacts, SwitchFacts, ConfigureFacts, TurnFacts
<1>3. /\ calls[1].api = "set_run_mode" /\ calls[1].scripts = {set_run_mode(p.mode)}
      /\ set_run_mode(p.mode)[2].value = p.mode
  BY VelocityCalls, ProgramConstants, SetModeFacts
<1>4. \A k \in {2, 3, 4, 5, 6} : calls[k].api # "set_run_mode"
  BY VelocityCalls DEF Step, Enable, Configure, Turn, Disable
<1>5. \A k \in {1, 2, 3} : Harmless(calls[k])
  BY VelocityCalls, ProgramConstants, SetModeFacts, SwitchFacts, ConfigureFacts
<1>6. calls[6].api = "disable"
  BY VelocityCalls DEF Disable, Step
<1>7. Settled(3, 1, "limit_cur", Limit)
  <2>1. LastSet(calls[3], 1, "limit_cur", Limit)
    BY VelocityCalls, ProgramConstants, ConfigureFacts
  <2>2. \A l \in {4, 5, 6} : Keeps(calls[l], "limit_cur")
    BY VelocityCalls, ProgramConstants, TurnFacts, SwitchFacts DEF Silent
  <2>3. \A l \in {1, 2, 3, 4, 5, 6} : l > 3 => l \in {4, 5, 6}
    OBVIOUS
  <2> QED
    BY <1>0, <1>1, <2>1, <2>2, <2>3, ProgramConstants DEF Settled
<1>8. Settled(3, 2, "acc_rad", Limit)
  <2>1. LastSet(calls[3], 2, "acc_rad", Limit)
    BY VelocityCalls, ProgramConstants, ConfigureFacts
  <2>2. \A l \in {4, 5, 6} : Keeps(calls[l], "acc_rad")
    BY VelocityCalls, ProgramConstants, TurnFacts, SwitchFacts DEF Silent
  <2>3. \A l \in {1, 2, 3, 4, 5, 6} : l > 3 => l \in {4, 5, 6}
    OBVIOUS
  <2> QED
    BY <1>0, <1>1, <2>1, <2>2, <2>3, ProgramConstants DEF Settled
<1>9. Settled(5, 1, "spd_ref", 0)
  <2>1. LastSet(calls[5], 1, "spd_ref", 0)
    BY VelocityCalls, ProgramConstants, TurnFacts
  <2>2. \A l \in {6} : Keeps(calls[l], "spd_ref")
    BY VelocityCalls, ProgramConstants, SwitchFacts DEF Silent
  <2>3. \A l \in {1, 2, 3, 4, 5, 6} : l > 5 => l \in {6}
    OBVIOUS
  <2> QED
    BY <1>0, <1>1, <2>1, <2>2, <2>3, ProgramConstants DEF Settled
<1>10. /\ \A index \in p.limits :
           \E k \in {1, 2, 3}, s \in {1, 2} : Settled(k, s, index, Limit)
      /\ \A index \in p.zeroed : \E k \in {1, 2, 3, 4, 5, 6}, s \in {1} : Settled(k, s, index, 0)
  BY <1>7, <1>8, <1>9, VelocityCalls
<1> QED
  BY <1>0, <1>1, <1>2, <1>3, <1>4, <1>5, <1>6, <1>10 DEF Disciplined

\* position is disciplined.
LEMMA PositionDisciplined == ASSUME program = "position" PROVE Disciplined
<1>0. DOMAIN calls = 1 .. Len(calls)
      /\ Len(p.prologue) = 4 /\ loop_end = 5 /\ Len(calls) = 6
  BY PositionCalls
<1>1. /\ 1 .. Len(calls) = {1, 2, 3, 4, 5, 6}
      /\ 2 .. Len(calls) = {2, 3, 4, 5, 6}
      /\ 1 .. Len(p.prologue) = {1, 2, 3, 4}
  <2>1. 1 .. 6 = {1, 2, 3, 4, 5, 6} /\ 2 .. 6 = {2, 3, 4, 5, 6} /\ 1 .. 4 = {1, 2, 3, 4}
    OBVIOUS
  <2> QED
    BY <1>0, <2>1
<1>2. \A k \in {1, 2, 3, 4, 5, 6} : Callable(calls[k])
  BY PositionCalls, ProgramConstants, SetModeFacts, SwitchFacts, WriteFacts
<1>3. /\ calls[1].api = "set_run_mode" /\ calls[1].scripts = {set_run_mode(p.mode)}
      /\ set_run_mode(p.mode)[2].value = p.mode
  BY PositionCalls, ProgramConstants, SetModeFacts
<1>4. \A k \in {2, 3, 4, 5, 6} : calls[k].api # "set_run_mode"
  BY PositionCalls DEF Step, SetZero, Enable, Write, Disable
<1>5. \A k \in {1, 2, 3, 4} : Harmless(calls[k])
  BY PositionCalls, ProgramConstants, SetModeFacts, SwitchFacts, WriteFacts
<1>6. calls[6].api = "disable"
  BY PositionCalls DEF Disable, Step
<1>7. Settled(4, 1, "limit_spd", Limit)
  <2>1. LastSet(calls[4], 1, "limit_spd", Limit)
    BY PositionCalls, ProgramConstants, WriteFacts
  <2>2. \A l \in {5, 6} : Keeps(calls[l], "limit_spd")
    BY PositionCalls, ProgramConstants, WriteFacts, SwitchFacts DEF Silent
  <2>3. \A l \in {1, 2, 3, 4, 5, 6} : l > 4 => l \in {5, 6}
    OBVIOUS
  <2> QED
    BY <1>0, <1>1, <2>1, <2>2, <2>3, ProgramConstants DEF Settled
<1>8. /\ \A index \in p.limits :
           \E k \in {1, 2, 3, 4}, s \in {1, 2} : Settled(k, s, index, Limit)
      /\ \A index \in p.zeroed : \E k \in {1, 2, 3, 4, 5, 6}, s \in {1} : Settled(k, s, index, 0)
  BY <1>7, PositionCalls
<1> QED
  BY <1>0, <1>1, <1>2, <1>3, <1>4, <1>5, <1>6, <1>8 DEF Disciplined

\* pp is disciplined.
LEMMA PPDisciplined == ASSUME program = "pp" PROVE Disciplined
<1>0. DOMAIN calls = 1 .. Len(calls)
      /\ Len(p.prologue) = 5 /\ loop_end = 6 /\ Len(calls) = 7
  BY PPCalls
<1>1. /\ 1 .. Len(calls) = {1, 2, 3, 4, 5, 6, 7}
      /\ 2 .. Len(calls) = {2, 3, 4, 5, 6, 7}
      /\ 1 .. Len(p.prologue) = {1, 2, 3, 4, 5}
  <2>1. 1 .. 7 = {1, 2, 3, 4, 5, 6, 7} /\ 2 .. 7 = {2, 3, 4, 5, 6, 7} /\ 1 .. 5 = {1, 2, 3, 4, 5}
    OBVIOUS
  <2> QED
    BY <1>0, <2>1
<1>2. \A k \in {1, 2, 3, 4, 5, 6, 7} : Callable(calls[k])
  BY PPCalls, ProgramConstants, SetModeFacts, SwitchFacts, WriteFacts
<1>3. /\ calls[1].api = "set_run_mode" /\ calls[1].scripts = {set_run_mode(p.mode)}
      /\ set_run_mode(p.mode)[2].value = p.mode
  BY PPCalls, ProgramConstants, SetModeFacts
<1>4. \A k \in {2, 3, 4, 5, 6, 7} : calls[k].api # "set_run_mode"
  BY PPCalls DEF Step, SetZero, Enable, Write, Disable
<1>5. \A k \in {1, 2, 3, 4, 5} : Harmless(calls[k])
  <2>1. Harmless(calls[1])
    <3>1. calls[1] = SetMode(1)
      BY PPCalls
    <3>2. Harmless(SetMode(1))
      BY ProgramConstants, PPCalls, SetModeFacts
    <3> QED
      BY <3>1, <3>2
  <2>2. Harmless(calls[2]) /\ Harmless(calls[3])
    BY PPCalls, SwitchFacts
  <2>3. Harmless(calls[4]) /\ Harmless(calls[5])
    BY PPCalls, ProgramConstants, WriteFacts
  <2> QED
    BY <2>1, <2>2, <2>3
<1>6. calls[7].api = "disable"
  BY PPCalls DEF Disable, Step
<1>7. Settled(4, 1, "vel_max", Limit)
  <2>1. LastSet(calls[4], 1, "vel_max", Limit)
    BY PPCalls, ProgramConstants, WriteFacts
  <2>2. \A l \in {5, 6, 7} : Keeps(calls[l], "vel_max")
    BY PPCalls, ProgramConstants, WriteFacts, SwitchFacts DEF Silent
  <2>3. \A l \in {1, 2, 3, 4, 5, 6, 7} : l > 4 => l \in {5, 6, 7}
    OBVIOUS
  <2> QED
    BY <1>0, <1>1, <2>1, <2>2, <2>3, ProgramConstants DEF Settled
<1>8. Settled(5, 1, "acc_set", Limit)
  <2>1. LastSet(calls[5], 1, "acc_set", Limit)
    BY PPCalls, ProgramConstants, WriteFacts
  <2>2. \A l \in {6, 7} : Keeps(calls[l], "acc_set")
    BY PPCalls, ProgramConstants, WriteFacts, SwitchFacts DEF Silent
  <2>3. \A l \in {1, 2, 3, 4, 5, 6, 7} : l > 5 => l \in {6, 7}
    OBVIOUS
  <2> QED
    BY <1>0, <1>1, <2>1, <2>2, <2>3, ProgramConstants DEF Settled
<1>9. /\ \A index \in p.limits :
           \E k \in {1, 2, 3, 4, 5}, s \in {1, 2} : Settled(k, s, index, Limit)
      /\ \A index \in p.zeroed : \E k \in {1, 2, 3, 4, 5, 6, 7}, s \in {1} : Settled(k, s, index, 0)
  BY <1>7, <1>8, PPCalls
<1> QED
  BY <1>0, <1>1, <1>2, <1>3, <1>4, <1>5, <1>6, <1>9 DEF Disciplined

\* current is disciplined.
LEMMA CurrentDisciplined == ASSUME program = "current" PROVE Disciplined
<1>0. DOMAIN calls = 1 .. Len(calls)
      /\ Len(p.prologue) = 2 /\ loop_end = 4 /\ Len(calls) = 6
  BY CurrentCalls
<1>1. /\ 1 .. Len(calls) = {1, 2, 3, 4, 5, 6}
      /\ 2 .. Len(calls) = {2, 3, 4, 5, 6}
      /\ 1 .. Len(p.prologue) = {1, 2}
  <2>1. 1 .. 6 = {1, 2, 3, 4, 5, 6} /\ 2 .. 6 = {2, 3, 4, 5, 6} /\ 1 .. 2 = {1, 2}
    OBVIOUS
  <2> QED
    BY <1>0, <2>1
<1>2. \A k \in {1, 2, 3, 4, 5, 6} : Callable(calls[k])
  BY CurrentCalls, ProgramConstants, SetModeFacts, SwitchFacts, WriteFacts, MoveFacts
<1>3. /\ calls[1].api = "set_run_mode" /\ calls[1].scripts = {set_run_mode(p.mode)}
      /\ set_run_mode(p.mode)[2].value = p.mode
  BY CurrentCalls, ProgramConstants, SetModeFacts
<1>4. \A k \in {2, 3, 4, 5, 6} : calls[k].api # "set_run_mode"
  BY CurrentCalls DEF Step, Enable, Write, Read, Disable
<1>5. \A k \in {1, 2} : Harmless(calls[k])
  BY CurrentCalls, ProgramConstants, SetModeFacts, SwitchFacts
<1>6. calls[6].api = "disable"
  BY CurrentCalls DEF Disable, Step
<1>7. Settled(5, 1, "iq_ref", 0)
  <2>1. LastSet(calls[5], 1, "iq_ref", 0)
    BY CurrentCalls, ProgramConstants, WriteFacts
  <2>2. \A l \in {6} : Keeps(calls[l], "iq_ref")
    BY CurrentCalls, ProgramConstants, SwitchFacts DEF Silent
  <2>3. \A l \in {1, 2, 3, 4, 5, 6} : l > 5 => l \in {6}
    OBVIOUS
  <2> QED
    BY <1>0, <1>1, <2>1, <2>2, <2>3, ProgramConstants DEF Settled
<1>8. /\ \A index \in p.limits :
           \E k \in {1, 2}, s \in {1, 2} : Settled(k, s, index, Limit)
      /\ \A index \in p.zeroed : \E k \in {1, 2, 3, 4, 5, 6}, s \in {1} : Settled(k, s, index, 0)
  BY <1>7, CurrentCalls
<1> QED
  BY <1>0, <1>1, <1>2, <1>3, <1>4, <1>5, <1>6, <1>8 DEF Disciplined

\* operation is disciplined.
LEMMA OperationDisciplined == ASSUME program = "operation" PROVE Disciplined
<1>0. DOMAIN calls = 1 .. Len(calls)
      /\ Len(p.prologue) = 3 /\ loop_end = 4 /\ Len(calls) = 5
  BY OperationCalls
<1>1. /\ 1 .. Len(calls) = {1, 2, 3, 4, 5}
      /\ 2 .. Len(calls) = {2, 3, 4, 5}
      /\ 1 .. Len(p.prologue) = {1, 2, 3}
  <2>1. 1 .. 5 = {1, 2, 3, 4, 5} /\ 2 .. 5 = {2, 3, 4, 5} /\ 1 .. 3 = {1, 2, 3}
    OBVIOUS
  <2> QED
    BY <1>0, <2>1
<1>2. \A k \in {1, 2, 3, 4, 5} : Callable(calls[k])
  BY OperationCalls, ProgramConstants, SetModeFacts, SwitchFacts, MoveFacts
<1>3. /\ calls[1].api = "set_run_mode" /\ calls[1].scripts = {set_run_mode(p.mode)}
      /\ set_run_mode(p.mode)[2].value = p.mode
  BY OperationCalls, ProgramConstants, SetModeFacts
<1>4. \A k \in {2, 3, 4, 5} : calls[k].api # "set_run_mode"
  BY OperationCalls DEF Step, SetZero, Enable, Move, Disable
<1>5. \A k \in {1, 2, 3} : Harmless(calls[k])
  BY OperationCalls, ProgramConstants, SetModeFacts, SwitchFacts
<1>6. calls[5].api = "disable"
  BY OperationCalls DEF Disable, Step
<1>7. /\ \A index \in p.limits :
           \E k \in {1, 2, 3}, s \in {1, 2} : Settled(k, s, index, Limit)
      /\ \A index \in p.zeroed : \E k \in {1, 2, 3, 4, 5}, s \in {1} : Settled(k, s, index, 0)
  BY OperationCalls
<1> QED
  BY <1>0, <1>1, <1>2, <1>3, <1>4, <1>5, <1>6, <1>7 DEF Disciplined

\* Every program is.
LEMMA ProgramsDisciplined == ASSUME program \in Programs PROVE Disciplined
BY BenchProgramsAssumption, VelocityDisciplined, PositionDisciplined, PPDisciplined,
   CurrentDisciplined, OperationDisciplined

\* How long a program is.
LEMMA ProgramSize ==
  ASSUME program \in Programs
  PROVE  /\ Len(p.prologue) \in Nat /\ Len(p.prologue) >= 1
         /\ Len(calls) \in Nat /\ Len(calls) > 1
<1>1. Disciplined
  BY ProgramsDisciplined
<1>2. /\ Len(p.prologue) \in Nat \ {0} /\ loop_end \in Nat /\ Len(calls) \in Nat
      /\ Len(p.prologue) < loop_end /\ loop_end < Len(calls)
  BY <1>1 DEF Disciplined
<1> QED
  BY <1>2

----------------------------------------------------------------------------
\* The invariant.

\* The motor has obeyed command s of call k of the program.
Applied(k, s) == at > k \/ (at = k /\ Obeyed(s))

\* The call in progress, or the one that returned last, is the program's.
InCall ==
  /\ at \in 0 .. Len(calls)
  /\ at = 0 => pc = "idle" /\ status = "none"
  /\ at > 0 => /\ call \in Calls /\ call.api = calls[at].api
               /\ call.script \in calls[at].scripts
               /\ pc = "idle" => status # "none"

\* The motor is in the program's mode once set_run_mode has returned.
ModeSet ==
  at > 1 \/ (at = 1 /\ status = "ok") => motor[call.m].run_mode = p.mode

\* What is written for good is in force from then on.
SettledHolds ==
  \A k, s, index, v :
    Settled(k, s, index, v) /\ Applied(k, s) => motor[call.m].params[index] = v

BenchInv ==
  /\ CallInv /\ program \in Programs
  /\ InCall /\ ModeSet /\ SettledHolds
  /\ ended = "success" => pc = "idle" /\ status = "ok" /\ at = Len(calls)

\* A program stays what it is.
LEMMA SameProgram ==
  ASSUME program' = program
  PROVE  /\ p' = p /\ calls' = calls /\ loop_end' = loop_end
         /\ \A k, s, index, v : Settled(k, s, index, v)' <=> Settled(k, s, index, v)
<1>1. p' = p
  BY DEF p
<1>2. calls' = calls /\ loop_end' = loop_end
  BY <1>1 DEF calls, loop_end
<1> QED
  BY <1>1, <1>2 DEF Settled

\* There is one motor.
LEMMA OneMotor == \A m, n \in Motors : m = n
BY BenchProgramsAssumption

\* Where a settled write is in the script of its call.
LEMMA SettledPlace ==
  ASSUME BenchInv, NEW k, NEW s, NEW index, NEW v, Settled(k, s, index, v), at = k
  PROVE  /\ call \in Calls /\ s \in 1 .. Len(call.script)
         /\ call.script[s] = make_write_param_frame(index, v)
         /\ \A t \in 1 .. Len(call.script) : t > s => ~Writes(call.script[t], index)
<1>1. /\ call \in Calls /\ call.script \in calls[k].scripts
      /\ LastSet(calls[k], s, index, v)
  BY DEF BenchInv, InCall, Settled
<1>2. DOMAIN call.script = 1 .. Len(call.script)
  BY <1>1, CallFacts
<1> QED
  BY <1>1, <1>2 DEF LastSet

\* Every step of a program is a step of the driver and its environment.
LEMMA StepNext ==
  ASSUME BenchInv, [MainNext]_mainVars
  PROVE  /\ [Next]_vars /\ UNCHANGED program
         /\ MakeCall =>
              \E c \in Calls, next \in Following \cap (1 .. Len(calls)) :
                /\ at' = next /\ Invoke(c) /\ c.api = calls[next].api
                /\ c.script \in calls[next].scripts
<1>1. CASE MakeCall
  <2>1. PICK next \in Following \cap DOMAIN calls, m \in Motors :
          /\ at' = next
          /\ \E script \in calls[next].scripts :
               Invoke([api |-> calls[next].api, m |-> m, script |-> script])
    BY <1>1 DEF MakeCall
  <2>2. PICK script \in calls[next].scripts :
          Invoke([api |-> calls[next].api, m |-> m, script |-> script])
    BY <2>1
  <2>3. next \in 1 .. Len(calls) /\ Callable(calls[next])
    BY ProgramsDisciplined DEF BenchInv, Disciplined
  <2> DEFINE c == [api |-> calls[next].api, m |-> m, script |-> script]
  <2>4. c \in Calls /\ c.api = calls[next].api /\ c.script \in calls[next].scripts
    BY <2>3 DEF Callable
  <2> HIDE DEF c
  <2>5. Invoke(c)
    BY <2>2 DEF c
  <2> QED
    BY <1>1, <2>1, <2>3, <2>4, <2>5 DEF MakeCall, Next
<1>2. CASE Library /\ ~MakeCall
  BY <1>2 DEF Library, Next
<1>3. CASE (Return \/ Catch \/ UNCHANGED mainVars) /\ ~MakeCall
  BY <1>3 DEF Return, Catch, mainVars
<1> QED
  BY <1>1, <1>2, <1>3 DEF MainNext

\* What the driver does inside a call: it obeys nothing.
LEMMA DriverKeeps ==
  ASSUME Timely, CallInv, Driver, NEW s \in 1 .. Len(call.script)
  PROVE  /\ UNCHANGED <<call, motor>> /\ pc # "idle"
         /\ Obeyed(s)' => Obeyed(s)
         /\ pc' = "idle" => status' # "none"
<1> USE DEF Obeyed, Waiting
<1>0. TypeOK /\ (pc # "idle" => status = "none") /\ s \in Nat
  BY DEF CallInv, TimelyInv
<1>1. CASE Send
  <2>1. /\ pc = "send" /\ pc' = "check"
        /\ UNCHANGED <<call, step, status, motor, served>>
    BY <1>1 DEF Send, motorVars
  <2>2. sends' # served[call.m]
    <3>1. call.m \in Motors /\ served[call.m] \in Nat /\ served[call.m] <= sends
          /\ sends \in Nat
      BY <1>0, <2>1, CmdType DEF CallInv, TimelyInv, TypeOK
    <3> QED
      BY <1>1, <3>1 DEF Send
  <2> QED
    BY <1>0, <2>1, <2>2
<1>2. CASE SendFails \/ ReceiveTimesOut \/ AcceptMalformed
  <2>1. /\ pc # "idle" /\ pc' = "idle" /\ status' \notin {"ok", "none"}
        /\ UNCHANGED <<motor, call>>
    BY <1>2 DEF SendFails, ReceiveTimesOut, AcceptMalformed, Accepted, Received,
                Raise, motorVars
  <2> QED
    BY <2>1
<1>3. CASE Check
  <2>1. pc = "check" /\ UNCHANGED <<call, step, sends, motor, served>>
    BY <1>3 DEF Check, motorVars
  <2>2. \/ pc' = "idle" /\ status' = "timeout"
        \/ pc' = "receive" /\ status' = status
    BY <1>3 DEF Check, Raise
  <2> QED
    BY <1>0, <2>1, <2>2
<1>4. CASE ReceiveFails
  BY <1>4 DEF ReceiveFails, Timely
<1>5. CASE Discard
  <2>1. /\ pc = "receive" /\ pc' = "check"
        /\ UNCHANGED <<call, step, status, sends, motor, served>>
    BY <1>5 DEF Discard, Received, motorVars
  <2> QED
    BY <1>0, <2>1
<1>6. CASE Overhear
  BY <1>6, TakeAnswer DEF Overhear, CallInv
<1>7. CASE AcceptAndGoOn
  <2>1. PICK f \in First(toHost) :
          /\ Received(f) /\ FromThisMotor(f) /\ pc' = "send" /\ step' = step + 1
          /\ UNCHANGED status
    BY <1>7 DEF AcceptAndGoOn, Accepted
  <2>2. pc = "receive" /\ UNCHANGED <<call, motor>> /\ served[call.m] = sends
    BY <2>1, TakeAnswer DEF Received, motorVars, CallInv
  <2>3. step \in Nat
    BY <1>0 DEF TypeOK
  <2> QED
    BY <1>0, <2>1, <2>2, <2>3
<1>8. CASE AcceptAndReturn
  <2>1. PICK f \in First(toHost) :
          /\ Received(f) /\ FromThisMotor(f) /\ step = Len(call.script)
          /\ status' = Verdict(f)
    BY <1>8 DEF AcceptAndReturn, Accepted
  <2>2. pc = "receive" /\ UNCHANGED <<call, motor>> /\ served[call.m] = sends
    BY <2>1, TakeAnswer DEF Received, motorVars, CallInv
  <2>3. s < step \/ s = step
    BY <1>0, <2>1, <2>2, CmdType
  <2> QED
    BY <1>0, <2>1, <2>2, <2>3 DEF Verdict
<1> QED
  BY <1>1, <1>2, <1>3, <1>4, <1>5, <1>6, <1>7, <1>8 DEF Driver

\* A motor that obeys the outstanding command keeps what is settled: only the
\* command itself, or one before it, can have settled it.
LEMMA ObeysBench ==
  ASSUME BenchInv, CallInv', Obeys, UNCHANGED <<program, at, ended>>
  PROVE  BenchInv'
<1>1. /\ call \in Calls /\ call.m \in Motors /\ cmd \in Command
      /\ step \in 1 .. Len(call.script) /\ cmd = call.script[step]
  BY ObeyedInOrder DEF BenchInv
<1>2. /\ Waiting /\ pc # "idle" /\ served[call.m] # sends /\ status = "none"
      /\ UNCHANGED <<pc, call, step, response, status, sends>>
  BY DEF Obeys, Waiting, BenchInv, CallInv, TimelyInv
<1>3. PICK t \in Outcomes(motor[call.m], cmd, Refusing) :
        motor' = [motor EXCEPT ![call.m] = t]
  BY DEF Obeys
<1>4. motor[call.m] \in MotorState /\ motor'[call'.m] = t
  BY <1>1, <1>2, <1>3 DEF BenchInv, CallInv, TimelyInv, TypeOK
<1>5. /\ t.run_mode # motor[call.m].run_mode
           => cmd.type = "WriteParam" /\ cmd.index = "run_mode"
      /\ \A i \in FloatParams :
           t.params[i] = IF cmd.type = "WriteParam" /\ cmd.index = i
                         THEN cmd.value ELSE motor[call.m].params[i]
  BY <1>1, <1>4, OutcomeEffects
<1>6. at \in 1 .. Len(calls) /\ Disciplined
  BY <1>2, ProgramsDisciplined DEF BenchInv, InCall, Disciplined
<1>7. /\ call.api = calls[at].api /\ call.script \in calls[at].scripts
  BY <1>6 DEF BenchInv, InCall
<1>8. InCall'
  BY <1>2, SameProgram DEF BenchInv, InCall
<1>9. ModeSet'
  <2> SUFFICES ASSUME at > 1 PROVE t.run_mode = p.mode
    BY <1>2, <1>4, SameProgram DEF ModeSet
  <2>1. call.api # "set_run_mode"
    BY <1>6, <1>7 DEF Disciplined
  <2>2. t.run_mode = motor[call.m].run_mode
    BY <1>1, <1>5, <2>1, DangerousCommands
  <2> QED
    BY <2>2 DEF BenchInv, ModeSet
<1>10. SettledHolds'
  <2> SUFFICES ASSUME NEW k, NEW s, NEW index, NEW v,
                      Settled(k, s, index, v), Applied(k, s)'
               PROVE  t.params[index] = v
    BY <1>4, SameProgram DEF SettledHolds
  <2>1. index \in FloatParams /\ k \in 1 .. Len(calls) /\ s \in Nat
    BY DEF Settled
  <2>2. CASE at = k /\ step = s
    <3>1. cmd = make_write_param_frame(index, v)
      BY <1>1, <2>2, SettledPlace
    <3> QED
      BY <1>5, <2>1, <3>1 DEF make_write_param_frame
  <2>3. CASE at = k /\ step # s
    <3>1. Obeyed(s) /\ step > s
      BY <1>1, <1>2, <2>1, <2>3 DEF Applied, Obeyed
    <3>2. ~Writes(cmd, index)
      BY <1>1, <2>3, <3>1, SettledPlace
    <3>3. motor[call.m].params[index] = v
      BY <2>3, <3>1 DEF BenchInv, SettledHolds, Applied
    <3> QED
      BY <1>5, <2>1, <3>2, <3>3 DEF Writes
  <2>4. CASE at # k
    <3>1. at > k
      BY <2>4 DEF Applied
    <3>2. Keeps(calls[at], index)
      BY <1>6, <3>1 DEF Settled
    <3>3. DOMAIN call.script = 1 .. Len(call.script)
      BY <1>1, CallFacts
    <3>4. ~Writes(cmd, index)
      BY <1>1, <1>7, <3>2, <3>3 DEF Keeps
    <3>5. motor[call.m].params[index] = v
      BY <3>1 DEF BenchInv, SettledHolds, Applied
    <3> QED
      BY <1>5, <2>1, <3>4, <3>5 DEF Writes
  <2> QED
    BY <2>2, <2>3, <2>4
<1> QED
  BY <1>2, <1>8, <1>9, <1>10 DEF BenchInv

\* A step that changes neither motors nor the place in the program, and obeys
\* nothing, keeps the invariant; set_run_mode may return by it.
LEMMA OtherBench ==
  ASSUME BenchInv, CallInv', UNCHANGED <<program, at, call, motor>>,
         \A s \in 1 .. Len(call.script) : Obeyed(s)' => Obeyed(s),
         at = 0 => UNCHANGED <<pc, status>>,
         at > 0 => (pc' = "idle" => status' # "none"),
         ended' = "success" => pc' = "idle" /\ status' = "ok" /\ at = Len(calls)
  PROVE  BenchInv'
<1>1. InCall'
  BY SameProgram DEF BenchInv, InCall
<1>2. ModeSet'
  <2>1. CASE at > 1
    BY <2>1, SameProgram DEF BenchInv, ModeSet
  <2>2. ASSUME at = 1, status' = "ok" PROVE motor[call.m].run_mode = p.mode
    <3>1. Disciplined
      BY ProgramsDisciplined DEF BenchInv
    <3>2. /\ call.api = "set_run_mode" /\ call.script = set_run_mode(p.mode)
          /\ set_run_mode(p.mode)[2].value = p.mode
      BY <2>2, <3>1 DEF BenchInv, InCall, Disciplined
    <3>3. motor'[call.m].run_mode = call.script[2].value
      BY <2>2, <3>2 DEF CallInv, ModeOnReturn
    <3> QED
      BY <3>2, <3>3
  <2> QED
    BY <2>1, <2>2, SameProgram DEF ModeSet
<1>3. SettledHolds'
  <2> SUFFICES ASSUME NEW k, NEW s, NEW index, NEW v,
                      Settled(k, s, index, v), Applied(k, s)'
               PROVE  motor[call.m].params[index] = v
    BY SameProgram DEF SettledHolds
  <2>1. Applied(k, s)
    BY SettledPlace DEF Applied
  <2> QED
    BY <2>1 DEF BenchInv, SettledHolds
<1> QED
  BY <1>1, <1>2, <1>3, SameProgram DEF BenchInv

\* The next call begins when the one before has returned.
LEMMA MakeCallBench ==
  ASSUME BenchInv, CallInv', [MainNext]_mainVars, MakeCall PROVE BenchInv'
<1>1. PICK c \in Calls, next \in Following \cap (1 .. Len(calls)) :
        /\ at' = next /\ Invoke(c) /\ c.api = calls[next].api
        /\ c.script \in calls[next].scripts
  BY StepNext
<1>2. /\ pc' = "send" /\ status' = "none" /\ call' = c /\ step' = 1
      /\ UNCHANGED <<program, motor, ended>>
  BY <1>1 DEF Invoke, MakeCall, motorVars
<1>3. /\ pc = "idle" /\ ended = "no" /\ status \in {"none", "ok"}
  BY DEF MakeCall, Going
<1>4. Disciplined /\ at \in 0 .. Len(calls) /\ (at > 0 => status = "ok" /\ call \in Calls)
  BY <1>3, ProgramsDisciplined DEF BenchInv, InCall
<1>5. InCall'
  BY <1>1, <1>2, SameProgram DEF InCall
<1>6. at > 0 => call.m = c.m
  BY <1>1, <1>4, OneMotor, CallFacts
<1>7. next > 1 => at > 0
  BY <1>1, <1>4 DEF Following, Disciplined
<1>8. ModeSet'
  <2> SUFFICES ASSUME next > 1 PROVE motor[c.m].run_mode = p.mode
    BY <1>1, <1>2, SameProgram DEF ModeSet
  <2>1. at > 1 \/ at = 1
    BY <1>4, <1>7
  <2> QED
    BY <1>4, <1>6, <1>7, <2>1 DEF BenchInv, ModeSet
<1>9. SettledHolds'
  <2> SUFFICES ASSUME NEW k, NEW s, NEW index, NEW v,
                      Settled(k, s, index, v), Applied(k, s)'
               PROVE  motor[c.m].params[index] = v
    BY <1>2, SameProgram DEF SettledHolds
  <2>1. /\ k \in 1 .. Len(calls) /\ s \in Nat \ {0}
        /\ k <= Len(p.prologue) \/ k > loop_end
    BY DEF Settled
  <2>2. ~Obeyed(s)'
    BY <1>2, <2>1 DEF Obeyed, Waiting
  <2>3. next > k
    BY <1>1, <2>2 DEF Applied
  <2>4. at >= k
    BY <1>1, <1>4, <2>1, <2>3 DEF Following, Disciplined
  <2>5. at > 0 /\ Applied(k, s)
    BY <1>4, <2>1, <2>4 DEF Applied, Obeyed
  <2> QED
    BY <1>6, <2>5 DEF BenchInv, SettledHolds
<1> QED
  BY <1>2, <1>3, <1>5, <1>8, <1>9 DEF BenchInv

\* Every step keeps the invariant.
LEMMA StepBench ==
  ASSUME Timely, BenchInv, [MainNext]_mainVars PROVE BenchInv'
<1>1. [Next]_vars /\ UNCHANGED program /\ CallInv /\ TimelyInv
  BY StepNext DEF BenchInv, CallInv
<1>2. CallInv'
  BY <1>1, StepCall
<1>3. /\ at > 0 => (pc = "idle" => status # "none")
      /\ at = 0 => pc = "idle" /\ status = "none"
      /\ ended = "success" => pc = "idle" /\ status = "ok" /\ at = Len(calls)
      /\ at \in 0 .. Len(calls) /\ Len(calls) \in Nat /\ Len(calls) > 0
  <2>1. Len(calls) \in Nat /\ Len(calls) > 0
    BY ProgramSize DEF BenchInv
  <2> QED
    BY <2>1 DEF BenchInv, InCall
<1>4. CASE MakeCall
  BY <1>2, <1>4, MakeCallBench
<1>5. CASE Return \/ Catch \/ UNCHANGED mainVars
  <2>1. UNCHANGED <<vars, program, at>>
    BY <1>5 DEF Return, Catch, mainVars
  <2>2. UNCHANGED <<pc, call, step, status, sends, served, motor>>
    BY <2>1 DEF vars
  <2>3. \A s : Obeyed(s)' => Obeyed(s)
    BY <2>2 DEF Obeyed, Waiting
  <2>4. ended' = "success" => pc = "idle" /\ status = "ok" /\ at = Len(calls)
    BY <1>3, <1>5 DEF Return, Catch, Going, mainVars
  <2> QED
    BY <1>2, <1>3, <2>1, <2>2, <2>3, <2>4, OtherBench
<1>6. CASE Library /\ Driver
  <2>1. UNCHANGED <<program, at, ended>>
    BY <1>6 DEF Library
  <2>2. pc # "idle"
    BY <1>6 DEF Driver, Send, SendFails, Check, ReceiveTimesOut, ReceiveFails,
                Discard, Overhear, AcceptMalformed, AcceptAndGoOn, AcceptAndReturn,
                Accepted, Received
  <2>3. at > 0 /\ ended # "success"
    BY <1>3, <2>2
  <2>4. \A s \in 1 .. Len(call.script) :
          /\ UNCHANGED <<call, motor>>
          /\ Obeyed(s)' => Obeyed(s)
          /\ pc' = "idle" => status' # "none"
    BY <1>1, <1>6, DriverKeeps
  <2>5. 1 \in 1 .. Len(call.script)
    BY <1>1, <2>2, CmdType DEF TimelyInv
  <2> QED
    BY <1>2, <2>1, <2>3, <2>4, <2>5, OtherBench
<1>7. CASE Library /\ (Tick \/ Foreign \/ \E m \in Motors : LoseRequest(m))
  <2>1. UNCHANGED <<program, at, ended>>
    BY <1>7 DEF Library
  <2>2. UNCHANGED <<pc, call, step, status, sends, served, motor>>
    BY <1>7 DEF Tick, Foreign, Unsolicited, LoseRequest, driverVars, motorVars
  <2>3. \A s : Obeyed(s)' => Obeyed(s)
    BY <2>2 DEF Obeyed, Waiting
  <2> QED
    BY <1>2, <1>3, <2>1, <2>2, <2>3, OtherBench
<1>8. CASE Library /\ \E m \in Motors : MotorAnswers(m) \/ LoseAnswer(m)
  <2>1. UNCHANGED <<program, at, ended>>
    BY <1>8 DEF Library
  <2>2. Obeys
    BY <1>1, <1>8, HandlesObeys DEF MotorAnswers, LoseAnswer
  <2> QED
    BY <1>2, <2>1, <2>2, ObeysBench
<1> QED
  BY <1>4, <1>5, <1>6, <1>7, <1>8 DEF MainNext, Library

\* The motor as the program finds it.
LEMMA InitBench == MainInit => BenchInv
<1> SUFFICES ASSUME MainInit PROVE BenchInv
  OBVIOUS
<1>1. PICK name \in Programs, on \in BOOLEAN, mode \in Modes, left \in Found :
        /\ program = name /\ at = 0 /\ ended = "no"
        /\ pc = "idle" /\ call = NoCall /\ step = 1 /\ expired = FALSE
        /\ response = NoFrame /\ status = "none" /\ sends = 0
        /\ last_feedback = [m \in Motors |-> NoFrame]
        /\ toMotor = [m \in Motors |-> <<>>] /\ toHost = <<>>
        /\ motor = [m \in Motors |-> [enabled |-> on, run_mode |-> mode,
                                      params |-> [index \in FloatParams |-> left]]]
        /\ served = [m \in Motors |-> 0]
  BY DEF MainInit
<1>2. TypeOK
  <2>1. motor \in [Motors -> MotorState]
    <3>1. mode \in Nat /\ left \in Nat
      BY BenchProgramsAssumption, RobstrideMotorAssumption DEF RunMode
    <3>2. [enabled |-> on, run_mode |-> mode,
           params |-> [index \in FloatParams |-> left]] \in MotorState
      BY <3>1 DEF MotorState
    <3> QED
      BY <1>1, <3>2
  <2>2. expired \in BOOLEAN
    BY <1>1, Zenon
  <2>3. /\ last_feedback \in [Motors -> Answer \cup {NoFrame}]
        /\ toMotor \in [Motors -> Seq(Request)] /\ toHost \in Seq(Answer)
        /\ served \in [Motors -> Nat]
    BY <1>1
  <2> QED
    BY <1>1, <2>1, <2>2, <2>3 DEF TypeOK, Status
<1>3. /\ toHost = <<>> /\ \A m \in Motors : toMotor[m] = <<>> /\ served[m] = 0
  BY <1>1
<1>4. TimelyInv
  <2>1. OneRequest /\ OneAnswer /\ NoAnswerToCome
    BY <1>1, <1>3 DEF OneRequest, OneAnswer, NoAnswerToCome, Waiting
  <2> QED
    BY <1>1, <1>2, <1>3, <2>1 DEF TimelyInv, FreshAnswer
<1>5. CallInv
  BY <1>1, <1>4 DEF CallInv, FirstCommandHolds, ModeOnReturn, ReadReturnsCurrent,
                    NoCall, Stopping
<1>6. Disciplined
  BY <1>1, ProgramsDisciplined
<1>7. InCall /\ ModeSet
  BY <1>1, <1>6 DEF InCall, ModeSet, Disciplined
<1>8. SettledHolds
  BY <1>1 DEF SettledHolds, Settled, Applied
<1> QED
  BY <1>1, <1>5, <1>7, <1>8 DEF BenchInv

----------------------------------------------------------------------------
\* A program that ends with success leaves its motor stopped, in the mode of
\* the program, under the limits it configured, and with a zero target if it
\* is a velocity or a current program, for every target, limit and state in
\* which it found the motor.
THEOREM LeavesMotorSafeTheorem == ASSUME Timely PROVE MainSpec => []LeavesMotorSafe
<1>1. ASSUME BenchInv PROVE LeavesMotorSafe
  <2> SUFFICES ASSUME ended = "success", NEW m \in Motors
               PROVE  /\ ~motor[m].enabled /\ motor[m].run_mode = p.mode
                      /\ \A index \in p.limits : motor[m].params[index] = Limit
                      /\ \A index \in p.zeroed : motor[m].params[index] = 0
    BY DEF LeavesMotorSafe
  <2>1. /\ pc = "idle" /\ status = "ok" /\ at = Len(calls) /\ Disciplined
        /\ Len(calls) \in Nat /\ Len(calls) > 1
    BY <1>1, ProgramsDisciplined DEF BenchInv, Disciplined
  <2>2. call \in Calls /\ call.api = "disable"
    BY <1>1, <2>1 DEF BenchInv, InCall, Disciplined
  <2>3. call.m = m
    BY <2>2, CallFacts, OneMotor
  <2>4. ~motor[m].enabled
    BY <1>1, <2>1, <2>2, <2>3 DEF BenchInv, CallInv, FirstCommandHolds, Obeyed, Stopping
  <2>5. motor[m].run_mode = p.mode
    BY <1>1, <2>1, <2>3 DEF BenchInv, ModeSet
  <2>6. ASSUME NEW index \in p.zeroed PROVE motor[m].params[index] = 0
    <3>1. PICK k \in 1 .. Len(calls) : Settled(k, 1, index, 0)
      BY <2>1 DEF Disciplined
    <3>2. Applied(k, 1)
      BY <2>1 DEF Applied, Obeyed
    <3> QED
      BY <1>1, <2>3, <3>1, <3>2 DEF BenchInv, SettledHolds
  <2>7. ASSUME NEW index \in p.limits PROVE motor[m].params[index] = Limit
    <3>1. PICK k \in 1 .. Len(p.prologue), s \in {1, 2} : Settled(k, s, index, Limit)
      BY <2>1 DEF Disciplined
    <3>2. Applied(k, s)
      BY <2>1 DEF Applied, Disciplined
    <3> QED
      BY <1>1, <2>3, <3>1, <3>2 DEF BenchInv, SettledHolds
  <2> QED
    BY <2>4, <2>5, <2>6, <2>7
<1>2. ASSUME Timely, BenchInv, [MainNext]_mainVars PROVE BenchInv'
  BY <1>2, StepBench
<1> QED
  BY <1>1, <1>2, InitBench, PTL DEF MainSpec

\* A target reaches the motor only in the mode this program has set and under
\* the limits of this run.
THEOREM TargetUnderLimitsTheorem == ASSUME Timely PROVE MainSpec => TargetUnderLimits
<1>1. ASSUME BenchInv, [MainNext]_mainVars, NEW m \in Motors,
             served'[m] # served[m], IsTarget(Head(toMotor[m]).cmd)
      PROVE  /\ motor[m].run_mode = p.mode
             /\ \A index \in p.limits : motor[m].params[index] = Limit
  <2>1. Obeys
    BY <1>1, StepNext, MotorStep DEF BenchInv, CallInv
  <2>2. /\ m = call.m /\ call \in Calls /\ cmd = call.script[step] /\ IsTarget(cmd)
        /\ step \in 1 .. Len(call.script)
    BY <1>1, <2>1, ObeyedInOrder DEF BenchInv
  <2>3. Waiting /\ pc # "idle"
    BY <2>1 DEF Obeys, Waiting
  <2>4. /\ Disciplined /\ at \in 1 .. Len(calls) /\ call.script \in calls[at].scripts
    BY <1>1, <2>3, ProgramsDisciplined DEF BenchInv, InCall
  <2>5. at > Len(p.prologue)
    <3>1. DOMAIN call.script = 1 .. Len(call.script)
      BY <2>2, CallFacts
    <3>2. ~Harmless(calls[at])
      BY <2>2, <2>4, <3>1 DEF Harmless
    <3> QED
      BY <2>4, <3>2 DEF Disciplined
  <2>6. motor[m].run_mode = p.mode
    <3>1. Len(p.prologue) \in Nat /\ Len(p.prologue) >= 1
      BY <1>1, ProgramSize DEF BenchInv
    <3>2. at > 1
      BY <2>4, <2>5, <3>1
    <3> QED
      BY <1>1, <2>2, <3>2 DEF BenchInv, ModeSet
  <2>7. ASSUME NEW index \in p.limits PROVE motor[m].params[index] = Limit
    <3>1. PICK k \in 1 .. Len(p.prologue), s \in {1, 2} : Settled(k, s, index, Limit)
      BY <2>4 DEF Disciplined
    <3>2. Applied(k, s)
      BY <2>4, <2>5 DEF Applied, Disciplined
    <3> QED
      BY <1>1, <2>2, <3>1, <3>2 DEF BenchInv, SettledHolds
  <2> QED
    BY <2>6, <2>7
<1>2. BenchInv /\ [MainNext]_mainVars
        => [\A m \in Motors :
              served'[m] # served[m] /\ IsTarget(Head(toMotor[m]).cmd)
                => /\ motor[m].run_mode = p.mode
                   /\ \A index \in p.limits : motor[m].params[index] = Limit]_mainVars
  BY <1>1
<1>3. BenchInv /\ [MainNext]_mainVars => BenchInv'
  BY StepBench
<1> QED
  BY <1>2, <1>3, InitBench, PTL DEF MainSpec, TargetUnderLimits

============================================================================
