------------------------ MODULE StubCanInterfaceProofs ------------------------
(***************************************************************************)
(* Proofs about StubCanInterface for every set of motors, every encoding   *)
(* range, and every set of commands, fault bits and temperatures a test    *)
(* uses: it keeps its types, and it implements MotorBench.                 *)
(***************************************************************************)
EXTENDS StubCanInterface, SequenceTheorems, TLAPS

----------------------------------------------------------------------------
\* Angles on a circle of length span.

LEMMA SpanIsPositive == span \in Nat \ {0} /\ span = 2 * Half
BY StubCanInterfaceAssumption DEF span

LEMMA HalfIsNatural == Half \in Nat \ {0}
BY StubCanInterfaceAssumption

LEMMA Division ==
  ASSUME NEW x \in Int, NEW n \in Nat \ {0}
  PROVE  x \div n \in Int /\ x % n \in 0 .. n - 1 /\ x = n * (x \div n) + (x % n)
OBVIOUS

\* Whole turns leave nothing over.
LEMMA WholeTurns ==
  ASSUME NEW k \in Int, NEW n \in Nat \ {0}
  PROVE  (k * n) % n = 0
<1> DEFINE q == (k * n) \div n
           r == (k * n) % n
<1>1. k * n \in Int
  OBVIOUS
<1>2. q \in Int /\ r \in 0 .. n - 1 /\ k * n = n * q + r
  BY <1>1, Division
<1> HIDE DEF q, r
<1>3. n * (k - q) = r
  BY <1>2
<1>4. CASE k - q >= 1
  <2>1. n * (k - q) >= n
    BY <1>2, <1>4
  <2> QED
    BY <1>2, <1>3, <2>1
<1>5. CASE k - q <= -1
  <2>1. n * (k - q) <= -n
    BY <1>2, <1>5
  <2> QED
    BY <1>2, <1>3, <2>1
<1>6. CASE k = q
  BY <1>2, <1>6
<1>7. r = 0
  BY <1>2, <1>3, <1>4, <1>5, <1>6
<1> QED
  BY <1>7 DEF r

\* What remainder leaves is half a turn at most, and whole turns away.
LEMMA RemainderFacts ==
  ASSUME NEW x \in Int
  PROVE  /\ remainder(x) \in -Half .. Half
         /\ \E k \in Int : x = remainder(x) + k * span
<1> DEFINE q == x \div span
           r == x % span
<1>1. span \in Nat \ {0} /\ span = 2 * Half /\ Half \in Nat
  BY SpanIsPositive, HalfIsNatural
<1>2. q \in Int /\ r \in 0 .. span - 1 /\ x = span * q + r
  BY <1>1, Division
<1>3. /\ remainder(x) \in {r, r - span}
      /\ remainder(x) = r => 2 * r <= span
      /\ remainder(x) = r - span => 2 * r >= span
  BY <1>1, <1>2 DEF remainder
<1> HIDE DEF q, r
<1>4. remainder(x) \in -Half .. Half
  BY <1>1, <1>2, <1>3
<1>5. x = r + q * span /\ x = (r - span) + (q + 1) * span
  BY <1>1, <1>2
<1> QED
  BY <1>2, <1>3, <1>4, <1>5

\* A frame reports the angle of its motor, modulo whole turns.
LEMMA ReportedAngle ==
  ASSUME NEW x \in Int
  PROVE  /\ clamp(remainder(x), Half) \in -Half .. Half
         /\ Bench!Congruent(x, clamp(remainder(x), Half))
<1> DEFINE r == remainder(x)
<1>1. r \in -Half .. Half /\ r \in Int
  BY RemainderFacts, HalfIsNatural
<1>2. PICK k \in Int : x = r + k * span
  BY RemainderFacts
<1> HIDE DEF r
<1>3. clamp(r, Half) = r
  BY <1>1, HalfIsNatural DEF clamp
<1>4. k * span \in Int
  BY SpanIsPositive
<1>5. x - r = k * span
  BY <1>1, <1>2, <1>4
<1>6. (x - r) % span = 0
  BY <1>5, WholeTurns, SpanIsPositive
<1> QED
  BY <1>1, <1>3, <1>6 DEF r, Bench!Congruent, Bench!span, span

\* The jump to a target ends at the target, modulo whole turns, half a turn
\* away at most.
LEMMA ShortestWay ==
  ASSUME NEW x \in Int, NEW target \in Int
  PROVE  /\ x + remainder(target - x) \in Int
         /\ x + remainder(target - x) \in
              {a \in x - Half .. x + Half : Bench!Congruent(a, target)}
<1> DEFINE r == remainder(target - x)
<1>1. target - x \in Int /\ Half \in Nat
  BY HalfIsNatural
<1>2. r \in -Half .. Half
  BY <1>1, RemainderFacts
<1>3. PICK k \in Int : target - x = r + k * span
  BY <1>1, RemainderFacts
<1> HIDE DEF r
<1>4. k * span \in Int /\ (-k) * span = -(k * span)
  BY SpanIsPositive
<1>5. (x + r) - target = (-k) * span
  BY <1>1, <1>2, <1>3, <1>4
<1>6. -k \in Int
  OBVIOUS
<1>7. ((x + r) - target) % span = 0
  BY <1>5, <1>6, WholeTurns, SpanIsPositive
<1>8. Bench!Congruent(x + r, target)
  BY <1>7 DEF Bench!Congruent, Bench!span, span
<1>9. x + r \in x - Half .. x + Half
  BY <1>1, <1>2
<1> QED
  BY <1>2, <1>8, <1>9 DEF r

----------------------------------------------------------------------------
\* The invariant.

\* A simulated motor that was brought up to date at some time until t.
UpTo(s, t) ==
  /\ s \in SimulatedMotor /\ s.fault_bits \in FaultField /\ s.last_update <= t
  /\ s.enabled => s.has_last_update

Responses == FeedbackFrame \cup ParamFrame

StubInv ==
  /\ now \in Nat /\ temperature_ \in Temperatures
  /\ motors_ \in [Motors -> SimulatedMotor]
  /\ \A m \in Motors : UpTo(motors_[m], now)
  /\ responses_ \in Seq(Responses)

LEMMA InvType == StubInv => TypeOK
BY DEF StubInv, TypeOK, UpTo, Responses

\* The motor a simulated one stands for at time t.
At(s, t) ==
  [enabled |-> s.enabled, run_mode |-> s.run_mode, params |-> s.params,
   fault |-> s.fault_bits,
   angle |-> IF s.has_last_update /\ Moving(s)
             THEN s.position + s.params["spd_ref"] * (t - s.last_update)
             ELSE s.position]

LEMMA TwoParams == {"spd_ref", "loc_ref"} \subseteq FloatParams
BY StubCanInterfaceAssumption

LEMMA MotorTypes ==
  ASSUME NEW s \in SimulatedMotor
  PROVE  /\ s.params \in [FloatParams -> Int] /\ s.params["spd_ref"] \in Int
         /\ s.position \in Int /\ s.last_update \in Nat /\ s.run_mode \in Nat
         /\ s.enabled \in BOOLEAN
<1>1. s.params \in [FloatParams -> Int]
  BY DEF SimulatedMotor
<1>2. s.params["spd_ref"] \in Int
  BY <1>1, TwoParams
<1> QED
  BY <1>1, <1>2 DEF SimulatedMotor

LEMMA SameNow ==
  ASSUME NEW s \in SimulatedMotor PROVE advance(s).position = At(s, now).angle
BY DEF advance, At, SimulatedMotor

LEMMA TurningIs == StubInv => turning = [m \in Motors |-> At(motors_[m], now)]
<1> SUFFICES ASSUME StubInv PROVE turning = [m \in Motors |-> At(motors_[m], now)]
  OBVIOUS
<1>1. ASSUME NEW m \in Motors PROVE Represented(motors_[m]) = At(motors_[m], now)
  <2>1. motors_[m] \in SimulatedMotor
    BY DEF StubInv
  <2> QED
    BY <2>1, SameNow DEF Represented, At
<1> QED
  BY <1>1 DEF turning

LEMMA TurningNext == (StubInv => turning = [m \in Motors |-> At(motors_[m], now)])'
BY TurningIs, PTL

\* A motor that is up to date.
Fresh(s) == UpTo(s, now) /\ s.last_update = now /\ s.has_last_update

\* advance changes what a motor remembers and nothing one can see.
LEMMA AdvanceFacts ==
  ASSUME now \in Nat, NEW s, UpTo(s, now)
  PROVE  /\ Fresh(advance(s)) /\ At(advance(s), now) = At(s, now)
         /\ advance(s).position = At(s, now).angle
<1> DEFINE a == advance(s)
           d == now - s.last_update
<1>1. s \in SimulatedMotor /\ s.last_update \in Nat /\ s.last_update <= now
  BY DEF UpTo, SimulatedMotor
<1>2. /\ a.enabled = s.enabled /\ a.run_mode = s.run_mode /\ a.params = s.params
      /\ a.fault_bits = s.fault_bits /\ a.last_update = now /\ a.has_last_update
  BY <1>1 DEF advance, SimulatedMotor
<1>3. a.position = At(s, now).angle
  BY <1>1, SameNow
<1>4. a.position \in Int
  <2>1. s.params["spd_ref"] \in Int /\ s.position \in Int
    BY <1>1, MotorTypes
  <2>2. s.params["spd_ref"] * d \in Int
    BY <1>1, <2>1
  <2> QED
    BY <1>3, <2>1, <2>2 DEF At
<1>5. a \in SimulatedMotor
  BY <1>1, <1>2, <1>4 DEF advance, SimulatedMotor
<1>6. Fresh(a)
  BY <1>1, <1>2, <1>5 DEF Fresh, UpTo
<1> HIDE DEF a
<1>7. At(a, now).angle = a.position
  <2>1. a.params["spd_ref"] \in Int /\ now - a.last_update = 0
    BY <1>2, <1>5, MotorTypes
  <2>2. a.params["spd_ref"] * (now - a.last_update) = 0
    BY <2>1
  <2> QED
    BY <1>4, <2>2 DEF At
<1>8. At(a, now) = At(s, now)
  BY <1>2, <1>3, <1>7 DEF At
<1> QED
  BY <1>3, <1>6, <1>8 DEF a

\* Of a motor that is up to date the position is the angle.
LEMMA FreshAngle ==
  ASSUME now \in Nat, NEW s, Fresh(s)
  PROVE  At(s, now).angle = s.position /\ s.position \in Int
<1>1. s.params["spd_ref"] \in Int /\ now - s.last_update = 0 /\ s.position \in Int
  BY MotorTypes DEF Fresh, UpTo
<1>2. s.params["spd_ref"] * (now - s.last_update) = 0
  BY <1>1
<1> QED
  BY <1>1, <1>2 DEF At

----------------------------------------------------------------------------
\* The queue.

LEMMA ReportedLength ==
  ASSUME StubInv
  PROVE  /\ reported \in Seq({parsed(g) : g \in Responses})
         /\ Len(reported) = Len(responses_)
         /\ \A i \in 1 .. Len(responses_) : reported[i] = parsed(responses_[i])
<1> DEFINE S == {parsed(g) : g \in Responses}
<1>1. responses_ \in Seq(Responses) /\ DOMAIN responses_ = 1 .. Len(responses_)
  BY DEF StubInv
<1>2. \A i \in 1 .. Len(responses_) : parsed(responses_[i]) \in S
  BY <1>1
<1> HIDE DEF S
<1>3. reported = [i \in 1 .. Len(responses_) |-> parsed(responses_[i])]
  BY <1>1 DEF reported
<1>4. reported \in Seq(S) /\ Len(reported) = Len(responses_)
  BY <1>1, <1>2, <1>3, IsASeq
<1> QED
  BY <1>3, <1>4 DEF S

\* A frame that is queued is an answer that is reported.
LEMMA ReportedAppend ==
  ASSUME StubInv, NEW f \in Responses, responses_' = Append(responses_, f)
  PROVE  responses_' \in Seq(Responses) /\ reported' = Append(reported, parsed(f))
<1> DEFINE S == {parsed(g) : g \in Responses}
           n == Len(responses_)
<1>1. responses_ \in Seq(Responses) /\ n \in Nat
  BY DEF StubInv
<1>2. /\ responses_' \in Seq(Responses) /\ DOMAIN responses_' = 1 .. n + 1
      /\ \A i \in 1 .. n : responses_'[i] = responses_[i]
      /\ responses_'[n + 1] = f
  BY <1>1
<1>3. reported' = [i \in 1 .. n + 1 |-> parsed(responses_'[i])]
  BY <1>2 DEF reported
<1>4. /\ reported \in Seq(S) /\ Len(reported) = n
      /\ \A i \in 1 .. n : reported[i] = parsed(responses_[i])
  BY ReportedLength
<1>5. parsed(f) \in S
  OBVIOUS
<1> HIDE DEF S, n
<1> DEFINE r == Append(reported, parsed(f))
<1>6. /\ r \in Seq(S) /\ Len(r) = n + 1
      /\ \A i \in 1 .. n : r[i] = reported[i]
      /\ r[n + 1] = parsed(f)
  BY <1>4, <1>5, AppendProperties
<1> HIDE DEF r
<1>7. r = [i \in 1 .. n + 1 |-> r[i]]
  BY <1>6
<1>8. \A i \in 1 .. n + 1 : r[i] = parsed(responses_'[i])
  BY <1>1, <1>2, <1>4, <1>6
<1>9. r = reported'
  BY <1>3, <1>7, <1>8
<1> QED
  BY <1>2, <1>9 DEF r

\* A frame that is received is an answer that is delivered.
LEMMA ReportedTail ==
  ASSUME StubInv, responses_ # <<>>, responses_' = Tail(responses_)
  PROVE  /\ responses_' \in Seq(Responses) /\ reported # <<>>
         /\ reported' = Tail(reported)
<1> DEFINE S == {parsed(g) : g \in Responses}
           n == Len(responses_)
<1>1. responses_ \in Seq(Responses) /\ n \in Nat \ {0}
  BY DEF StubInv
<1>2. /\ responses_' \in Seq(Responses) /\ DOMAIN responses_' = 1 .. n - 1
      /\ \A i \in 1 .. n - 1 : responses_'[i] = responses_[i + 1]
  BY <1>1
<1>3. reported' = [i \in 1 .. n - 1 |-> parsed(responses_'[i])]
  BY <1>2 DEF reported
<1>4. /\ reported \in Seq(S) /\ Len(reported) = n
      /\ \A i \in 1 .. n : reported[i] = parsed(responses_[i])
  BY ReportedLength
<1> HIDE DEF S, n
<1> DEFINE r == Tail(reported)
<1>5. reported # <<>>
  BY <1>1, <1>4
<1>6. /\ r \in Seq(S) /\ Len(r) = n - 1
      /\ \A i \in 1 .. n - 1 : r[i] = reported[i + 1]
  BY <1>4, <1>5, HeadTailProperties
<1> HIDE DEF r
<1>7. r = [i \in 1 .. n - 1 |-> r[i]]
  BY <1>6
<1>8. \A i \in 1 .. n - 1 : r[i] = parsed(responses_'[i])
  BY <1>1, <1>2, <1>4, <1>6
<1>9. r = reported'
  BY <1>3, <1>7, <1>8
<1> QED
  BY <1>2, <1>5, <1>9 DEF r


----------------------------------------------------------------------------
\* The commands.

\* Reads and writes name a parameter, a run mode is a byte, and only the stop
\* frame that clears faults carries a 1.
LEMMA CommandFacts ==
  ASSUME NEW m \in Motors, NEW cmd \in Instructions[m]
  PROVE  /\ cmd \in [type : CommType, index : ParamIndex, value : Int]
         /\ cmd.type \in {"ReadParam", "WriteParam"}
              => cmd.index \in FloatParams \cup {"run_mode"}
         /\ cmd.index = "run_mode" => cmd.value \in Nat
         /\ cmd.type \notin {"ReadParam", "WriteParam"} => cmd.index = "none"
         /\ cmd = Bench!make_stop_frame(TRUE) <=> cmd.type = "Stop" /\ cmd.value = 1
         /\ "run_mode" \notin FloatParams
<1>1. cmd \in [type : CommType, index : ParamIndex, value : Int]
  <2>1. Instructions \in
          [Motors -> SUBSET [type : CommType, index : ParamIndex, value : Int]]
    BY StubCanInterfaceAssumption
  <2> QED
    BY <2>1
<1>2. /\ cmd.index = "none" <=> cmd.type \notin {"ReadParam", "WriteParam"}
      /\ cmd.index = "run_mode" => cmd.value \in Byte
  BY StubCanInterfaceAssumption
<1>3. "run_mode" \notin FloatParams
  BY FramesAssumption
<1>4. cmd = Bench!make_stop_frame(TRUE) <=> cmd.type = "Stop" /\ cmd.value = 1
  BY <1>1, <1>2 DEF Bench!make_stop_frame
<1>5. cmd.index \in FloatParams \cup {"run_mode", "none"}
  BY <1>1 DEF ParamIndex
<1>6. cmd.index = "run_mode" => cmd.value \in Nat
  BY <1>2 DEF Byte
<1> QED
  BY <1>1, <1>2, <1>3, <1>4, <1>5, <1>6

\* The bench's motors, by their fields.
State(e, r, p, f, x) ==
  [enabled |-> e, run_mode |-> r, params |-> p, fault |-> f, angle |-> x]

WithEnabled(s, e) == [s EXCEPT !.enabled = e]
WithMode(s, r) == [s EXCEPT !.run_mode = r]
WithParam(s, i, v) == [s EXCEPT !.params[i] = v]
With(s, f, x) == [s EXCEPT !.angle = x, !.fault = f]

LEMMA SetsEnabled ==
  ASSUME NEW e, NEW r, NEW p, NEW f, NEW x, NEW new
  PROVE  WithEnabled(State(e, r, p, f, x), new) = State(new, r, p, f, x)
BY DEF WithEnabled, State

LEMMA SetsMode ==
  ASSUME NEW e, NEW r, NEW p, NEW f, NEW x, NEW new
  PROVE  WithMode(State(e, r, p, f, x), new) = State(e, new, p, f, x)
BY DEF WithMode, State

LEMMA SetsParam ==
  ASSUME NEW e, NEW r, NEW p, NEW f, NEW x, NEW i, NEW new
  PROVE  WithParam(State(e, r, p, f, x), i, new) = State(e, r, [p EXCEPT ![i] = new], f, x)
BY DEF WithParam, State

LEMMA SetsRest ==
  ASSUME NEW e, NEW r, NEW p, NEW f, NEW x, NEW fault, NEW angle
  PROVE  With(State(e, r, p, f, x), fault, angle) = State(e, r, p, fault, angle)
<1> DEFINE s == State(e, r, p, f, x)
           t == [s EXCEPT !.angle = angle]
<1>1. t = State(e, r, p, f, angle)
  BY DEF State
<1>2. With(s, fault, angle) = [t EXCEPT !.fault = fault]
  BY DEF With, State
<1> HIDE DEF t
<1>3. [t EXCEPT !.fault = fault] = State(e, r, p, fault, angle)
  BY <1>1 DEF State
<1> QED
  BY <1>2, <1>3

\* What a motor that is up to date stands for.
LEMMA FreshAt ==
  ASSUME now \in Nat, NEW s, Fresh(s)
  PROVE  At(s, now) = State(s.enabled, s.run_mode, s.params, s.fault_bits, s.position)
BY FreshAngle DEF At, State

\* The bench obeys as Frames does, one case at a time.
LEMMA ObeyCases ==
  ASSUME NEW s, NEW cmd
  PROVE  /\ cmd.type = "Enable" => Bench!Obey(s, cmd) = WithEnabled(s, TRUE)
         /\ cmd.type = "Stop" => Bench!Obey(s, cmd) = WithEnabled(s, FALSE)
         /\ cmd.type \notin {"Enable", "Stop", "WriteParam"} => Bench!Obey(s, cmd) = s
         /\ cmd.type = "WriteParam" /\ cmd.index = "run_mode"
              => Bench!Obey(s, cmd) = WithMode(s, cmd.value)
         /\ cmd.type = "WriteParam" /\ cmd.index \in FloatParams
              => Bench!Obey(s, cmd) = WithParam(s, cmd.index, cmd.value)
<1>1. CASE cmd.type = "Enable"
  BY <1>1 DEF Bench!Obey, WithEnabled
<1>2. CASE cmd.type = "Stop"
  BY <1>2 DEF Bench!Obey, WithEnabled
<1>3. CASE cmd.type \notin {"Enable", "Stop", "WriteParam"}
  BY <1>3 DEF Bench!Obey
<1>4. "run_mode" \notin FloatParams
  BY FramesAssumption
<1>5. CASE cmd.type = "WriteParam" /\ cmd.index = "run_mode"
  BY <1>4, <1>5 DEF Bench!Obey, WithMode
<1>6. CASE cmd.type = "WriteParam" /\ cmd.index \in FloatParams
  BY <1>4, <1>6 DEF Bench!Obey, WithParam
<1> QED
  BY <1>1, <1>2, <1>3, <1>5, <1>6

\* b is a motor that obeys cmd in the state of a, with an angle and fault bits
\* the command allows.
Obeys(a, cmd, b) ==
  /\ Bench!Obey(At(a, now), cmd) =
       State(b.enabled, b.run_mode, b.params, a.fault_bits, a.position)
  /\ b.position \in Bench!Angles(At(a, now), cmd)
  /\ b.fault_bits = IF cmd = Bench!make_stop_frame(TRUE) THEN 0 ELSE a.fault_bits

LEMMA Reacts ==
  ASSUME now \in Nat, NEW a, Fresh(a), NEW b, Fresh(b), NEW cmd, Obeys(a, cmd, b)
  PROVE  At(b, now) \in Bench!Reactions(At(a, now), cmd)
<1> DEFINE c == At(a, now)
           o == Bench!Obey(c, cmd)
<1>1. o = State(b.enabled, b.run_mode, b.params, a.fault_bits, a.position)
  BY DEF Obeys
<1>2. At(b, now) = With(o, b.fault_bits, b.position)
  <2>1. At(b, now) = State(b.enabled, b.run_mode, b.params, b.fault_bits, b.position)
    BY FreshAt
  <2>2. With(State(b.enabled, b.run_mode, b.params, a.fault_bits, a.position),
             b.fault_bits, b.position)
          = State(b.enabled, b.run_mode, b.params, b.fault_bits, b.position)
    BY SetsRest
  <2> QED
    BY <1>1, <2>1, <2>2
<1>3. o.fault = a.fault_bits
  BY <1>1 DEF State
<1>4. /\ b.position \in Bench!Angles(c, cmd)
      /\ b.fault_bits = IF cmd = Bench!make_stop_frame(TRUE) THEN 0 ELSE o.fault
  BY <1>3 DEF Obeys
<1> HIDE DEF o
<1>5. With(o, b.fault_bits, b.position)
        \in {[o EXCEPT !.angle = x,
                       !.fault = IF cmd = Bench!make_stop_frame(TRUE) THEN 0 ELSE @]
               : x \in Bench!Angles(c, cmd)}
  BY <1>4 DEF With
<1> QED
  BY <1>2, <1>5 DEF Bench!Reactions, o

\* A command that is no jump leaves the angle alone.
LEMMA AngleStays ==
  ASSUME now \in Nat, NEW a, Fresh(a), NEW cmd, cmd.type # "SetMechanicalZero",
         cmd.type = "WriteParam" => cmd.index # "loc_ref"
  PROVE  a.position \in Bench!Angles(At(a, now), cmd)
BY FreshAngle DEF Bench!Angles


LEMMA EnableObeys ==
  ASSUME now \in Nat, NEW a, Fresh(a), NEW m \in Motors, NEW cmd \in Instructions[m],
         cmd.type = "Enable"
  PROVE  Fresh(Enabled(a)) /\ Obeys(a, cmd, Enabled(a))
<1> DEFINE b == Enabled(a)
<1>1. a \in SimulatedMotor
  BY DEF Fresh, UpTo
<1>2. /\ b.enabled = TRUE /\ b.run_mode = a.run_mode /\ b.params = a.params
      /\ b.position = a.position /\ b.last_update = a.last_update
      /\ b.has_last_update = a.has_last_update /\ b.fault_bits = a.fault_bits
      /\ b \in SimulatedMotor
  BY <1>1 DEF Enabled, SimulatedMotor
<1> HIDE DEF b
<1>3. Fresh(b)
  BY <1>1, <1>2 DEF Fresh, UpTo
<1>4. Bench!Obey(At(a, now), cmd) =
        State(b.enabled, b.run_mode, b.params, a.fault_bits, a.position)
  <2>1. At(a, now) = State(a.enabled, a.run_mode, a.params, a.fault_bits, a.position)
    BY FreshAt
  <2>2. Bench!Obey(At(a, now), cmd) = WithEnabled(At(a, now), b.enabled)
    BY <1>2, ObeyCases
  <2>3. WithEnabled(State(a.enabled, a.run_mode, a.params, a.fault_bits, a.position),
                    b.enabled)
          = State(b.enabled, a.run_mode, a.params, a.fault_bits, a.position)
    BY SetsEnabled
  <2> QED
    BY <1>2, <2>1, <2>2, <2>3
<1>5. cmd # Bench!make_stop_frame(TRUE)
  BY CommandFacts
<1>6. Obeys(a, cmd, b)
  BY <1>2, <1>4, <1>5, AngleStays DEF Obeys
<1> QED
  BY <1>3, <1>6 DEF b

LEMMA StopObeys ==
  ASSUME now \in Nat, NEW a, Fresh(a), NEW m \in Motors, NEW cmd \in Instructions[m],
         cmd.type = "Stop"
  PROVE  Fresh(Stopped(a, cmd)) /\ Obeys(a, cmd, Stopped(a, cmd))
<1> DEFINE b == Stopped(a, cmd)
<1>1. a \in SimulatedMotor /\ a.fault_bits \in FaultField /\ 0 \in FaultField
  BY DEF Fresh, UpTo, FaultField
<1>2. /\ b.enabled = FALSE /\ b.run_mode = a.run_mode /\ b.params = a.params
      /\ b.position = a.position /\ b.last_update = a.last_update
      /\ b.has_last_update = a.has_last_update
      /\ b.fault_bits = (IF cmd.value = 1 THEN 0 ELSE a.fault_bits)
      /\ b \in SimulatedMotor
  BY <1>1 DEF Stopped, SimulatedMotor
<1> HIDE DEF b
<1>3. Fresh(b)
  BY <1>1, <1>2 DEF Fresh, UpTo
<1>4. Bench!Obey(At(a, now), cmd) =
        State(b.enabled, b.run_mode, b.params, a.fault_bits, a.position)
  <2>1. At(a, now) = State(a.enabled, a.run_mode, a.params, a.fault_bits, a.position)
    BY FreshAt
  <2>2. Bench!Obey(At(a, now), cmd) = WithEnabled(At(a, now), b.enabled)
    BY <1>2, ObeyCases
  <2>3. WithEnabled(State(a.enabled, a.run_mode, a.params, a.fault_bits, a.position),
                    b.enabled)
          = State(b.enabled, a.run_mode, a.params, a.fault_bits, a.position)
    BY SetsEnabled
  <2> QED
    BY <1>2, <2>1, <2>2, <2>3
<1>5. b.fault_bits = IF cmd = Bench!make_stop_frame(TRUE) THEN 0 ELSE a.fault_bits
  BY <1>2, CommandFacts
<1>6. Obeys(a, cmd, b)
  BY <1>2, <1>4, <1>5, AngleStays DEF Obeys
<1> QED
  BY <1>3, <1>6 DEF b

LEMMA ZeroObeys ==
  ASSUME now \in Nat, NEW a, Fresh(a), NEW m \in Motors, NEW cmd \in Instructions[m],
         cmd.type = "SetMechanicalZero"
  PROVE  /\ Fresh([a EXCEPT !.position = 0])
         /\ Obeys(a, cmd, [a EXCEPT !.position = 0])
<1> DEFINE b == [a EXCEPT !.position = 0]
<1>1. a \in SimulatedMotor
  BY DEF Fresh, UpTo
<1>2. /\ b.enabled = a.enabled /\ b.run_mode = a.run_mode /\ b.params = a.params
      /\ b.position = 0 /\ b.last_update = a.last_update
      /\ b.has_last_update = a.has_last_update /\ b.fault_bits = a.fault_bits
      /\ b \in SimulatedMotor
  BY <1>1 DEF SimulatedMotor
<1> HIDE DEF b
<1>3. Fresh(b)
  BY <1>1, <1>2 DEF Fresh, UpTo
<1>4. Bench!Obey(At(a, now), cmd) =
        State(b.enabled, b.run_mode, b.params, a.fault_bits, a.position)
  BY <1>2, FreshAt, ObeyCases
<1>5. cmd # Bench!make_stop_frame(TRUE)
  BY CommandFacts
<1>6. b.position \in Bench!Angles(At(a, now), cmd)
  BY <1>2 DEF Bench!Angles
<1>7. Obeys(a, cmd, b)
  BY <1>2, <1>4, <1>5, <1>6 DEF Obeys
<1> QED
  BY <1>3, <1>7 DEF b

LEMMA MotionObeys ==
  ASSUME now \in Nat, NEW a, Fresh(a), NEW m \in Motors, NEW cmd \in Instructions[m],
         cmd.type = "MotionControl"
  PROVE  Obeys(a, cmd, a)
<1>1. cmd # Bench!make_stop_frame(TRUE)
  BY CommandFacts
<1> QED
  BY <1>1, AngleStays, FreshAt, ObeyCases DEF Obeys


LEMMA ModeObeys ==
  ASSUME now \in Nat, NEW a, Fresh(a), NEW m \in Motors, NEW cmd \in Instructions[m],
         cmd.type = "WriteParam", cmd.index = "run_mode"
  PROVE  Fresh(Written(a, cmd)) /\ Obeys(a, cmd, Written(a, cmd))
<1> DEFINE b == [a EXCEPT !.run_mode = cmd.value]
<1>1. a \in SimulatedMotor /\ cmd.value \in Nat
  BY CommandFacts DEF Fresh, UpTo
<1>2. Written(a, cmd) = b
  BY DEF Written, Jumped
<1>3. /\ b.enabled = a.enabled /\ b.run_mode = cmd.value /\ b.params = a.params
      /\ b.position = a.position /\ b.last_update = a.last_update
      /\ b.has_last_update = a.has_last_update /\ b.fault_bits = a.fault_bits
      /\ b \in SimulatedMotor
  BY <1>1 DEF SimulatedMotor
<1> HIDE DEF b
<1>4. Fresh(b)
  BY <1>1, <1>3 DEF Fresh, UpTo
<1>5. Bench!Obey(At(a, now), cmd) =
        State(b.enabled, b.run_mode, b.params, a.fault_bits, a.position)
  <2>1. At(a, now) = State(a.enabled, a.run_mode, a.params, a.fault_bits, a.position)
    BY FreshAt
  <2>2. Bench!Obey(At(a, now), cmd) = WithMode(At(a, now), cmd.value)
    BY ObeyCases
  <2> QED
    BY <1>3, <2>1, <2>2, SetsMode
<1>6. cmd # Bench!make_stop_frame(TRUE)
  BY CommandFacts
<1>7. Obeys(a, cmd, b)
  BY <1>3, <1>5, <1>6, AngleStays DEF Obeys
<1> QED
  BY <1>2, <1>4, <1>7

\* A motor that jumps to its target goes the shortest way.
LEMMA ParamObeys ==
  ASSUME now \in Nat, NEW a, Fresh(a), NEW m \in Motors, NEW cmd \in Instructions[m],
         cmd.type = "WriteParam", cmd.index \in FloatParams
  PROVE  Fresh(Written(a, cmd)) /\ Obeys(a, cmd, Written(a, cmd))
<1> DEFINE w == [a EXCEPT !.params[cmd.index] = cmd.value]
           jumps == cmd.index = "loc_ref" /\ a.enabled /\ a.run_mode = PositionCsp
           b == Written(a, cmd)
           p == [a.params EXCEPT ![cmd.index] = cmd.value]
<1>1. a \in SimulatedMotor /\ cmd.value \in Int /\ cmd.index # "run_mode"
  BY CommandFacts DEF Fresh, UpTo
<1>2. a.params \in [FloatParams -> Int] /\ a.position \in Int
      /\ p \in [FloatParams -> Int]
  BY <1>1, MotorTypes
<1>3. /\ w.enabled = a.enabled /\ w.run_mode = a.run_mode /\ w.params = p
      /\ w.position = a.position /\ w.last_update = a.last_update
      /\ w.has_last_update = a.has_last_update /\ w.fault_bits = a.fault_bits
      /\ w \in SimulatedMotor
  BY <1>1, <1>2 DEF SimulatedMotor
<1>4. b = Jumped(w, cmd)
  BY <1>1 DEF Written
<1> HIDE DEF w, b, p
<1> DEFINE x == a.position + remainder(cmd.value - a.position)
<1>5. x \in Int
  BY <1>1, <1>2, ShortestWay
<1> HIDE DEF x
<1>6. b = IF jumps THEN [w EXCEPT !.position = x] ELSE w
  BY <1>3, <1>4 DEF Jumped, x
<1>7. /\ b.enabled = a.enabled /\ b.run_mode = a.run_mode /\ b.params = p
      /\ b.last_update = a.last_update
      /\ b.has_last_update = a.has_last_update /\ b.fault_bits = a.fault_bits
      /\ b \in SimulatedMotor
  <2>1. CASE jumps
    <3>1. b = [w EXCEPT !.position = x]
      BY <1>6, <2>1
    <3> QED
      BY <1>3, <1>5, <3>1 DEF SimulatedMotor
  <2>2. CASE ~jumps
    BY <1>3, <1>6, <2>2
  <2> QED
    BY <2>1, <2>2
<1>8. Fresh(b)
  BY <1>1, <1>7 DEF Fresh, UpTo
<1>9. Bench!Obey(At(a, now), cmd) =
        State(b.enabled, b.run_mode, b.params, a.fault_bits, a.position)
  <2>1. At(a, now) = State(a.enabled, a.run_mode, a.params, a.fault_bits, a.position)
    BY FreshAt
  <2>2. Bench!Obey(At(a, now), cmd) = WithParam(At(a, now), cmd.index, cmd.value)
    BY ObeyCases
  <2> QED
    BY <1>7, <2>1, <2>2, SetsParam DEF p
<1>10. cmd # Bench!make_stop_frame(TRUE)
  BY CommandFacts
<1>11. b.position \in Bench!Angles(At(a, now), cmd)
  <2>1. At(a, now).angle = a.position /\ At(a, now).enabled = a.enabled
        /\ At(a, now).run_mode = a.run_mode
    BY FreshAngle DEF At
  <2>2. CASE jumps
    <3>1. b.position = x
      BY <1>3, <1>6, <2>2 DEF SimulatedMotor
    <3>2. x \in {y \in a.position - Half .. a.position + Half :
                   Bench!Congruent(y, cmd.value)}
      BY <1>1, <1>2, ShortestWay DEF x
    <3> QED
      BY <2>1, <2>2, <3>1, <3>2 DEF Bench!Angles, Bench!PositionCsp, PositionCsp
  <2>3. CASE ~jumps
    <3>1. b.position = a.position
      BY <1>3, <1>6, <2>3
    <3> QED
      BY <2>1, <2>3, <3>1 DEF Bench!Angles, Bench!PositionCsp, PositionCsp
  <2> QED
    BY <2>2, <2>3
<1>12. Obeys(a, cmd, b)
  BY <1>7, <1>9, <1>10, <1>11 DEF Obeys
<1> QED
  BY <1>8, <1>12 DEF b


----------------------------------------------------------------------------
\* The answers.

Feedback(m, s) ==
  make_feedback_frame(m, s, IF Moving(s) THEN s.params["spd_ref"] ELSE 0)

\* What fits its field is not cut.
LEMMA FieldsKeep ==
  /\ \A f \in FaultField : f % 64 = f
  /\ \A t \in Temperatures : t % 65536 = t /\ t \in TemperatureField
<1>1. \A f \in FaultField : f % 64 = f
  BY DEF FaultField
<1>2. ASSUME NEW t \in TemperatureField PROVE t % 65536 = t
  <2>1. t \in Nat /\ t < 65536
    BY DEF TemperatureField
  <2>2. \A n \in Nat : t < n => t % n = t
    BY <2>1
  <2> QED
    BY <2>1, <2>2
<1>3. Temperatures \subseteq TemperatureField
  BY StubCanInterfaceAssumption
<1> QED
  BY <1>1, <1>2, <1>3

\* A feedback frame is an answer of the bench, with the state it reports.
LEMMA FeedbackAnswers ==
  ASSUME StubInv, NEW m \in Motors, NEW s, Fresh(s), NEW cmd, cmd.type # "ReadParam"
  PROVE  /\ Feedback(m, s) \in Responses
         /\ parsed(Feedback(m, s)) \in Bench!Answers(m, At(s, now), cmd)
<1> DEFINE v == IF Moving(s) THEN s.params["spd_ref"] ELSE 0
           w == clamp(remainder(s.position), Half)
           u == clamp(v, Fastest)
           f == [source |-> m, type |-> "Feedback", enabled |-> s.enabled,
                 fault |-> s.fault_bits, position |-> w, velocity |-> u,
                 temp_u |-> temperature_]
<1>1. /\ s \in SimulatedMotor /\ s.fault_bits \in FaultField
      /\ now \in Nat /\ temperature_ \in Temperatures
  BY DEF Fresh, UpTo, StubInv
<1>2. Feedback(m, s) = f
  BY <1>1, FieldsKeep DEF Feedback, make_feedback_frame
<1>3. s.enabled \in BOOLEAN /\ s.params["spd_ref"] \in Int /\ s.position \in Int
  BY <1>1, MotorTypes
<1>4. w \in -Half .. Half /\ Bench!Congruent(s.position, w)
  BY <1>3, ReportedAngle
<1>5. v \in Int
  BY <1>3
<1>6. Fastest \in Nat
  BY StubCanInterfaceAssumption
<1> HIDE DEF v, w
<1>7. u \in -Fastest .. Fastest
  BY <1>5, <1>6 DEF clamp
<1>8. u = Bench!Saturated(v)
  BY DEF clamp, Bench!Saturated
<1> HIDE DEF u
<1>9. f \in FeedbackFrame
  BY <1>1, <1>3, <1>4, <1>7, FieldsKeep DEF FeedbackFrame
<1>10. parsed(f) = [source |-> m, type |-> "Feedback", enabled |-> s.enabled,
                    fault |-> s.fault_bits, position |-> w, velocity |-> u,
                    temperature |-> temperature_]
  BY DEF parsed
<1>11. At(s, now) = State(s.enabled, s.run_mode, s.params, s.fault_bits, s.position)
  BY <1>1, FreshAt
<1> DEFINE c == At(s, now)
<1>12. c.enabled = s.enabled /\ c.fault = s.fault_bits /\ c.angle = s.position
       /\ c.run_mode = s.run_mode /\ c.params = s.params
  BY <1>11 DEF State
<1>13. Bench!Turning(c) <=> Moving(s)
  BY <1>12 DEF Bench!Turning, Moving, Bench!Velocity, Velocity
<1> HIDE DEF c, f
<1>14. u = IF Bench!Turning(c) THEN Bench!Saturated(c.params["spd_ref"]) ELSE 0
  <2>1. CASE Moving(s)
    BY <1>8, <1>12, <1>13, <2>1 DEF v
  <2>2. CASE ~Moving(s)
    BY <1>6, <1>8, <1>13, <2>2 DEF v, Bench!Saturated
  <2> QED
    BY <2>1, <2>2
<1>15. w \in {x \in -Half .. Half : Bench!Congruent(c.angle, x)}
  BY <1>4, <1>12
<1>16. parsed(f) \in Bench!Answers(m, c, cmd)
  BY <1>10, <1>12, <1>14, <1>15 DEF Bench!Answers, Bench!AnswerType
<1> QED
  BY <1>2, <1>9, <1>16 DEF Responses, c


----------------------------------------------------------------------------
\* The steps.

\* A motor whose state changes alone.
LEMMA OneMotor ==
  ASSUME StubInv, StubInv', NEW m \in Motors, NEW s,
         now' = now, motors_' = [motors_ EXCEPT ![m] = s]
  PROVE  turning' = [turning EXCEPT ![m] = At(s, now)]
<1>1. turning = [n \in Motors |-> At(motors_[n], now)]
  BY TurningIs
<1>2. turning' = [n \in Motors |-> At(motors_'[n], now')]
  BY TurningNext
<1>3. \A n \in Motors : motors_'[n] = IF n = m THEN s ELSE motors_[n]
  BY DEF StubInv
<1>4. turning' = [n \in Motors |-> At(IF n = m THEN s ELSE motors_[n], now)]
  BY <1>2, <1>3
<1> QED
  BY <1>1, <1>4

\* A command that changes the motor is answered with the state it changed to.
LEMMA BecomesImplements ==
  ASSUME StubInv, NEW m \in Motors, NEW cmd \in Instructions[m],
         cmd.type \in Bench!Known \ {"ReadParam"},
         NEW b, Fresh(b), Obeys(advance(motors_[m]), cmd, b), Becomes(m, b)
  PROVE  StubInv' /\ Bench!Instruct(m, cmd)
<1> DEFINE a == advance(motors_[m])
           f == Feedback(m, b)
<1>1. now \in Nat /\ UpTo(motors_[m], now)
  BY DEF StubInv
<1>2. Fresh(a) /\ At(a, now) = At(motors_[m], now)
  BY <1>1, AdvanceFacts
<1>3. /\ now' = now /\ temperature_' = temperature_
      /\ motors_' = [motors_ EXCEPT ![m] = b]
      /\ responses_' = Append(responses_, f)
  BY DEF Becomes, queue_feedback, Feedback
<1>4. f \in Responses /\ parsed(f) \in Bench!Answers(m, At(b, now), cmd)
  BY FeedbackAnswers
<1>5. responses_' \in Seq(Responses) /\ reported' = Append(reported, parsed(f))
  BY <1>3, <1>4, ReportedAppend
<1>6. At(b, now) \in Bench!Reactions(At(a, now), cmd)
  BY <1>1, <1>2, Reacts
<1>7. turning[m] = At(a, now)
  BY <1>2, TurningIs
<1> HIDE DEF a, f
<1>8. StubInv'
  <2>1. b \in SimulatedMotor /\ UpTo(b, now)
    BY DEF Fresh, UpTo
  <2>2. motors_' \in [Motors -> SimulatedMotor]
        /\ \A n \in Motors : motors_'[n] = IF n = m THEN b ELSE motors_[n]
    BY <1>3, <2>1 DEF StubInv
  <2>3. \A n \in Motors : UpTo(motors_'[n], now)
    BY <2>1, <2>2 DEF StubInv
  <2> QED
    BY <1>3, <1>5, <2>2, <2>3 DEF StubInv
<1>9. turning' = [turning EXCEPT ![m] = At(b, now)]
  BY <1>3, <1>8, OneMotor
<1> QED
  BY <1>3, <1>4, <1>5, <1>6, <1>7, <1>8, <1>9 DEF Bench!Instruct

\* A read changes no motor and is answered with the value.
LEMMA ReadImplements ==
  ASSUME StubInv, NEW m \in Motors, NEW cmd \in Instructions[m], SendReadParam(m, cmd)
  PROVE  StubInv' /\ Bench!Instruct(m, cmd)
<1> DEFINE s == motors_[m]
           c == At(s, now)
           v == IF cmd.index = "run_mode" THEN s.run_mode ELSE s.params[cmd.index]
           f == [source |-> m, type |-> "ReadParam", index |-> cmd.index, value |-> v]
<1>1. /\ cmd.type = "ReadParam" /\ UNCHANGED <<now, motors_, temperature_>>
      /\ responses_' = Append(responses_, f)
  BY DEF SendReadParam, make_param_response_frame
<1>2. cmd.index \in FloatParams \cup {"run_mode"} /\ "run_mode" \notin FloatParams
      /\ cmd.index \in ParamIndex
  BY <1>1, CommandFacts
<1>3. s \in SimulatedMotor
  BY DEF StubInv
<1>4. s.params \in [FloatParams -> Int] /\ s.run_mode \in Int
  BY <1>3, MotorTypes
<1>5. v \in Int
  BY <1>2, <1>4
<1> HIDE DEF v
<1>6. f \in Responses
  BY <1>2, <1>5 DEF Responses, ParamFrame
<1>7. parsed(f) = f
  BY DEF parsed
<1>8. c.run_mode = s.run_mode /\ c.params = s.params
  BY DEF At
<1>9. v = Bench!AnswerValue(c, cmd)
  BY <1>1, <1>2, <1>8 DEF v, Bench!AnswerValue, Bench!ParamValue
<1>10. parsed(f) \in Bench!Answers(m, c, cmd)
  BY <1>1, <1>7, <1>9 DEF Bench!Answers, Bench!AnswerType
<1> HIDE DEF f
<1>11. responses_' \in Seq(Responses) /\ reported' = Append(reported, parsed(f))
  BY <1>1, <1>6, ReportedAppend
<1>12. StubInv'
  BY <1>1, <1>11 DEF StubInv
<1>13. c \in Bench!Reactions(c, cmd)
  <2>1. c = State(c.enabled, c.run_mode, c.params, c.fault, c.angle)
    BY DEF At, State
  <2> HIDE DEF c
  <2>2. With(c, c.fault, c.angle) = c
    BY <2>1, SetsRest
  <2>3. Bench!Obey(c, cmd) = c
    BY <1>1, ObeyCases
  <2>4. c.angle \in Bench!Angles(c, cmd)
    BY <1>1 DEF Bench!Angles
  <2>5. cmd # Bench!make_stop_frame(TRUE)
    BY <1>1, CommandFacts
  <2> QED
    BY <2>2, <2>3, <2>4, <2>5 DEF With, Bench!Reactions
<1>14. turning[m] = c /\ turning' = [turning EXCEPT ![m] = c]
  <2>1. motors_' = [motors_ EXCEPT ![m] = s]
    BY <1>1 DEF StubInv
  <2>2. turning[m] = c
    BY TurningIs
  <2> HIDE DEF s
  <2> QED
    BY <1>1, <1>12, <2>1, <2>2, OneMotor
<1> HIDE DEF c
<1>15. cmd.type \in Bench!Known
  BY <1>1 DEF Bench!Known
<1> QED
  BY <1>1, <1>10, <1>11, <1>12, <1>13, <1>14, <1>15 DEF Bench!Instruct


BenchStep == [Bench!Next]_(Bench!vars)

\* send is a command to a motor of the bench, or nothing.
LEMMA SendImplements ==
  ASSUME StubInv, NEW m \in Motors, NEW cmd \in Instructions[m], send(m, cmd)
  PROVE  StubInv' /\ BenchStep
<1> DEFINE a == advance(motors_[m])
<1>1. now \in Nat /\ UpTo(motors_[m], now)
  BY DEF StubInv
<1>2. Fresh(a)
  BY <1>1, AdvanceFacts
<1> SUFFICES StubInv' /\ (Bench!Instruct(m, cmd) \/ UNCHANGED vars)
  <2>1. ASSUME UNCHANGED vars PROVE UNCHANGED Bench!vars
    <3>1. reported' = reported
      BY <2>1 DEF vars, reported
    <3>2. turning' = turning
      BY <2>1 DEF vars, turning, Represented, advance, Moving
    <3> QED
      BY <2>1, <3>1, <3>2 DEF vars, Bench!vars
  <2> QED
    BY <2>1 DEF BenchStep, Bench!Next
<1>3. CASE SendEnable(m, cmd)
  <2>1. cmd.type = "Enable" /\ Becomes(m, Enabled(a))
    BY <1>3 DEF SendEnable
  <2> QED
    BY <1>1, <1>2, <2>1, EnableObeys, BecomesImplements DEF Bench!Known
<1>4. CASE SendStop(m, cmd)
  <2>1. cmd.type = "Stop" /\ Becomes(m, Stopped(a, cmd))
    BY <1>4 DEF SendStop
  <2> QED
    BY <1>1, <1>2, <2>1, StopObeys, BecomesImplements DEF Bench!Known
<1>5. CASE SendSetMechanicalZero(m, cmd)
  <2>1. cmd.type = "SetMechanicalZero" /\ Becomes(m, [a EXCEPT !.position = 0])
    BY <1>5 DEF SendSetMechanicalZero
  <2> QED
    BY <1>1, <1>2, <2>1, ZeroObeys, BecomesImplements DEF Bench!Known
<1>6. CASE SendMotionControl(m, cmd)
  <2>1. cmd.type = "MotionControl" /\ Becomes(m, a)
    BY <1>6 DEF SendMotionControl
  <2> QED
    BY <1>1, <1>2, <2>1, MotionObeys, BecomesImplements DEF Bench!Known
<1>7. CASE SendReadParam(m, cmd)
  BY <1>7, ReadImplements
<1>8. CASE SendWriteParam(m, cmd)
  <2>1. cmd.type = "WriteParam" /\ Becomes(m, Written(a, cmd))
    BY <1>8 DEF SendWriteParam
  <2>2. cmd.index \in FloatParams \/ cmd.index = "run_mode"
    BY <2>1, CommandFacts
  <2>3. Fresh(Written(a, cmd)) /\ Obeys(a, cmd, Written(a, cmd))
    BY <1>1, <1>2, <2>1, <2>2, ModeObeys, ParamObeys
  <2> QED
    BY <2>1, <2>3, BecomesImplements DEF Bench!Known
<1>9. CASE SendUnsupported(m, cmd)
  BY <1>9 DEF SendUnsupported, vars, StubInv, UpTo
<1> QED
  BY <1>3, <1>4, <1>5, <1>6, <1>7, <1>8, <1>9 DEF send

LEMMA OneMore ==
  ASSUME NEW v \in Int, NEW d \in Int
  PROVE  v * (d + 1) = v * d + v /\ v * d \in Int
OBVIOUS

\* While time passes the motors that turn, turn.
LEMMA TickImplements ==
  ASSUME StubInv, Tick PROVE StubInv' /\ Bench!Pass
<1>1. /\ now \in Nat /\ now' = now + 1 /\ motors_' = motors_
      /\ responses_' = responses_ /\ temperature_' = temperature_
  BY DEF Tick, StubInv
<1>2. StubInv'
  <2>1. ASSUME NEW m \in Motors PROVE UpTo(motors_[m], now + 1)
    <3>1. UpTo(motors_[m], now) /\ motors_[m].last_update \in Nat
      BY MotorTypes DEF StubInv
    <3> QED
      BY <1>1, <3>1 DEF UpTo
  <2> QED
    BY <1>1, <2>1 DEF StubInv
<1>3. turning = [m \in Motors |-> At(motors_[m], now)]
  BY TurningIs
<1>4. turning' = [m \in Motors |-> At(motors_[m], now + 1)]
  BY <1>1, <1>2, TurningNext
<1>5. ASSUME NEW m \in Motors
      PROVE  At(motors_[m], now + 1) =
               [turning[m] EXCEPT !.angle =
                  IF Bench!Turning(turning[m])
                  THEN @ + turning[m].params["spd_ref"] ELSE @]
  <2> DEFINE s == motors_[m]
             v == s.params["spd_ref"]
             d == now - s.last_update
             c == turning[m]
  <2>1. UpTo(s, now) /\ s \in SimulatedMotor
    BY DEF StubInv
  <2>2. v \in Int /\ s.position \in Int /\ s.last_update \in Nat
    BY <2>1, MotorTypes
  <2>3. d \in Int /\ (now + 1) - s.last_update = d + 1
    BY <1>1, <2>2
  <2>4. v * (d + 1) = v * d + v /\ v * d \in Int
    BY <2>2, <2>3, OneMore
  <2>5. Moving(s) => s.has_last_update
    BY <2>1 DEF UpTo, Moving
  <2>6. c = At(s, now)
    BY <1>3
  <2>7. Bench!Turning(c) <=> Moving(s)
    BY <2>6 DEF At, Bench!Turning, Moving, Bench!Velocity, Velocity
  <2>8. c = State(s.enabled, s.run_mode, s.params, s.fault_bits, c.angle)
        /\ c.params = s.params
    BY <2>6 DEF At, State
  <2>9. At(s, now + 1).angle = IF Bench!Turning(c) THEN c.angle + v ELSE c.angle
    <3>1. CASE Moving(s)
      BY <2>2, <2>3, <2>4, <2>5, <2>6, <2>7, <3>1 DEF At
    <3>2. CASE ~Moving(s)
      BY <2>6, <2>7, <3>2 DEF At
    <3> QED
      BY <3>1, <3>2
  <2>10. At(s, now + 1) = State(s.enabled, s.run_mode, s.params, s.fault_bits,
                                At(s, now + 1).angle)
    BY DEF At, State
  <2> HIDE DEF c, s
  <2> DEFINE x == IF Bench!Turning(c) THEN c.angle + v ELSE c.angle
  <2>11. [c EXCEPT !.angle = x] =
           State(s.enabled, s.run_mode, s.params, s.fault_bits, x)
    <3> HIDE DEF x, v
    <3> QED
      BY <2>8 DEF State
  <2>12. At(s, now + 1) = [c EXCEPT !.angle = x]
    BY <2>9, <2>10, <2>11
  <2> QED
    BY <2>8, <2>12 DEF c, s
<1>6. turning' = [m \in Motors |->
                    [turning[m] EXCEPT !.angle =
                       IF Bench!Turning(turning[m])
                       THEN @ + turning[m].params["spd_ref"] ELSE @]]
  BY <1>4, <1>5
<1>7. reported' = reported
  BY <1>1 DEF reported
<1> QED
  BY <1>1, <1>2, <1>6, <1>7 DEF Bench!Pass


\* A frame received, a fault injected and a temperature set are what they are
\* on the bench.
LEMMA ReceiveImplements ==
  ASSUME StubInv, receive PROVE StubInv' /\ Bench!Deliver
<1>1. /\ responses_' \in Seq(Responses) /\ reported # <<>>
      /\ reported' = Tail(reported)
      /\ UNCHANGED <<now, motors_, temperature_>>
  BY ReportedTail DEF receive
<1>2. StubInv'
  BY <1>1 DEF StubInv
<1>3. turning' = turning
  BY <1>1, <1>2, TurningIs, TurningNext
<1> QED
  BY <1>1, <1>2, <1>3 DEF Bench!Deliver

LEMMA FaultImplements ==
  ASSUME StubInv, NEW m \in Motors, NEW bits \in FaultBits, set_fault_bits(m, bits)
  PROVE  StubInv' /\ Bench!InjectFault(m, bits)
<1> DEFINE s == motors_[m]
           b == [s EXCEPT !.fault_bits = bits]
<1>1. /\ motors_' = [motors_ EXCEPT ![m] = b]
      /\ UNCHANGED <<now, responses_, temperature_>>
  BY DEF set_fault_bits
<1>2. bits \in FaultField
  BY StubCanInterfaceAssumption
<1>3. bits \in Nat
  BY <1>2 DEF FaultField
<1>4. s \in SimulatedMotor /\ UpTo(s, now)
  BY DEF StubInv
<1>5. b \in SimulatedMotor /\ UpTo(b, now)
  BY <1>2, <1>3, <1>4 DEF SimulatedMotor, UpTo
<1>6. At(b, now) = [At(s, now) EXCEPT !.fault = bits]
  BY <1>4 DEF At, Moving, SimulatedMotor
<1> HIDE DEF b
<1>7. StubInv'
  <2>1. motors_' \in [Motors -> SimulatedMotor]
        /\ \A n \in Motors : motors_'[n] = IF n = m THEN b ELSE motors_[n]
    BY <1>1, <1>5 DEF StubInv
  <2>2. \A n \in Motors : UpTo(motors_'[n], now)
    BY <1>5, <2>1 DEF StubInv
  <2> QED
    BY <1>1, <2>1, <2>2 DEF StubInv
<1>8. turning' = [turning EXCEPT ![m] = At(b, now)]
  BY <1>1, <1>7, OneMotor
<1>9. turning[m] = At(s, now)
  BY TurningIs
<1>10. turning' = [turning EXCEPT ![m].fault = bits]
  BY <1>6, <1>8, <1>9
<1>11. reported' = reported
  BY <1>1 DEF reported
<1> QED
  BY <1>1, <1>7, <1>10, <1>11 DEF Bench!InjectFault

LEMMA TemperatureImplements ==
  ASSUME StubInv, NEW t \in Temperatures, set_temperature(t)
  PROVE  StubInv' /\ Bench!SetTemperature(t)
<1>1. temperature_' = t /\ UNCHANGED <<now, motors_, responses_>>
  BY DEF set_temperature
<1>2. StubInv'
  BY <1>1 DEF StubInv
<1>3. turning' = turning
  BY <1>1, <1>2, TurningIs, TurningNext
<1>4. reported' = reported
  BY <1>1 DEF reported
<1> QED
  BY <1>1, <1>2, <1>3, <1>4 DEF Bench!SetTemperature

LEMMA StepImplementsBench == StubInv /\ [Next]_vars => StubInv' /\ BenchStep
<1> SUFFICES ASSUME StubInv, [Next]_vars PROVE StubInv' /\ BenchStep
  OBVIOUS
<1>1. ASSUME NEW m \in Motors, NEW cmd \in Instructions[m], send(m, cmd)
      PROVE  StubInv' /\ BenchStep
  BY <1>1, SendImplements
<1>2. CASE receive
  BY <1>2, ReceiveImplements DEF BenchStep, Bench!Next
<1>3. ASSUME NEW m \in Motors, NEW bits \in FaultBits, set_fault_bits(m, bits)
      PROVE  StubInv' /\ BenchStep
  BY <1>3, FaultImplements DEF BenchStep, Bench!Next
<1>4. ASSUME NEW t \in Temperatures, set_temperature(t) PROVE StubInv' /\ BenchStep
  BY <1>4, TemperatureImplements DEF BenchStep, Bench!Next
<1>5. CASE Tick
  BY <1>5, TickImplements DEF BenchStep, Bench!Next
<1>6. CASE UNCHANGED vars
  <2>1. StubInv'
    BY <1>6 DEF vars, StubInv
  <2>2. turning' = turning
    BY <1>6, <2>1, TurningIs, TurningNext DEF vars
  <2>3. reported' = reported
    BY <1>6 DEF vars, reported
  <2> QED
    BY <1>6, <2>1, <2>2, <2>3 DEF vars, BenchStep, Bench!vars
<1> QED
  BY <1>1, <1>2, <1>3, <1>4, <1>5, <1>6 DEF Next

LEMMA InitImplementsBench == Init => StubInv /\ Bench!Init
<1> SUFFICES ASSUME Init PROVE StubInv /\ Bench!Init
  OBVIOUS
<1> DEFINE s == [enabled |-> FALSE, run_mode |-> 0, position |-> 0, fault_bits |-> 0,
                 params |-> [p \in FloatParams |-> 0], last_update |-> 0,
                 has_last_update |-> FALSE]
<1>1. s \in SimulatedMotor
  BY DEF SimulatedMotor
<1>2. UpTo(s, 0)
  BY <1>1 DEF UpTo, FaultField
<1>3. At(s, 0) = [enabled |-> FALSE, run_mode |-> 0, angle |-> 0, fault |-> 0,
                  params |-> [p \in FloatParams |-> 0]]
  BY DEF At
<1>4. now = 0 /\ temperature_ = 300 /\ responses_ = <<>>
      /\ motors_ = [m \in Motors |-> s]
  BY DEF Init
<1> HIDE DEF s
<1>5. StubInv
  <2>1. temperature_ \in Temperatures
    BY <1>4, StubCanInterfaceAssumption
  <2>2. responses_ \in Seq(Responses)
    BY <1>4
  <2> QED
    BY <1>1, <1>2, <1>4, <2>1, <2>2 DEF StubInv
<1>6. turning = [m \in Motors |-> At(s, 0)]
  BY <1>4, <1>5, TurningIs
<1>7. reported = <<>>
  BY <1>4, <1>5, ReportedLength
<1> QED
  BY <1>3, <1>4, <1>5, <1>6, <1>7 DEF Bench!Init

----------------------------------------------------------------------------
\* The theorems.

\* Every simulated motor keeps its type, is never dated ahead of the clock,
\* and knows its last update while it is enabled; what is queued fits the
\* fields of its frame.
THEOREM StubTypeTheorem == Spec => []TypeOK
<1>1. Init => StubInv
  BY InitImplementsBench
<1>2. StubInv /\ [Next]_vars => StubInv'
  BY StepImplementsBench
<1>3. StubInv => TypeOK
  BY InvType
<1> QED
  BY <1>1, <1>2, <1>3, PTL DEF Spec

\* The simulation implements motors that turn all the time: for any commands,
\* pauses, faults and temperatures a test may use, no motion is lost or added
\* by bringing positions up to date late, a target is reached by the shortest
\* way, and each command is answered once, in order, with the state right
\* after it.
THEOREM StubBenchTheorem == Spec => BenchSpec
<1>1. Init => StubInv /\ Bench!Init
  BY InitImplementsBench
<1>2. StubInv /\ [Next]_vars => StubInv'
  BY StepImplementsBench
<1>3. StubInv /\ [Next]_vars => [Bench!Next]_(Bench!vars)
  BY StepImplementsBench DEF BenchStep
<1> QED
  BY <1>1, <1>2, <1>3, PTL DEF Spec, BenchSpec, Bench!Spec


============================================================================
