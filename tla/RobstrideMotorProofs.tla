------------------------- MODULE RobstrideMotorProofs -------------------------
(***************************************************************************)
(* Proofs about RobstrideMotor, for any number of motors, any set of calls *)
(* and any length of a behaviour.                                          *)
(***************************************************************************)
EXTENDS RobstrideMotor, TLAPS

USE RobstrideMotorAssumption, NoFrameAssumption

----------------------------------------------------------------------------
\* Facts about queues and frames.

\* The oldest element of a queue, and what is left without it.
LEMMA FirstOf ==
  ASSUME NEW S, NEW q \in Seq(S), NEW f \in First(q)
  PROVE  /\ q # <<>> /\ f = q[1] /\ f = Head(q) /\ f \in S
         /\ Tail(q) \in Seq(S)
         /\ Len(Tail(q)) = Len(q) - 1
         /\ \A i \in DOMAIN Tail(q) : i + 1 \in DOMAIN q /\ Tail(q)[i] = q[i + 1]
<1>1. 1 \in DOMAIN q /\ f = q[1]
  BY DEF First
<1>2. q # <<>> /\ f = Head(q) /\ f \in S
  BY <1>1
<1> QED
  BY <1>1, <1>2

\* Adding an element to a queue leaves the others where they are.
LEMMA AppendTo ==
  ASSUME NEW S, NEW q \in Seq(S), NEW e \in S
  PROVE  /\ Append(q, e) \in Seq(S)
         /\ Len(Append(q, e)) = Len(q) + 1
         /\ Append(q, e)[Len(q) + 1] = e
         /\ \A i \in DOMAIN q : Append(q, e)[i] = q[i]
         /\ \A i \in DOMAIN Append(q, e) : i \in DOMAIN q \/ i = Len(q) + 1
OBVIOUS

\* A command leaves a motor in a state a motor can be in.
LEMMA OutcomesType ==
  ASSUME NEW s \in MotorState, NEW c \in Command, NEW refusing,
         NEW t \in Outcomes(s, c, refusing)
  PROVE  t \in MotorState
<1>1. c.index \in ParamIndex /\ c.value \in Nat
  BY DEF Command
<1>2. Obey(s, c) \in MotorState
  <2>1. CASE c.type = "Enable"
    BY <2>1 DEF Obey, MotorState
  <2>2. CASE c.type = "Stop"
    BY <2>2 DEF Obey, MotorState
  <2>3. CASE c.type = "WriteParam" /\ c.index = "run_mode"
    BY <2>3, <1>1 DEF Obey, MotorState
  <2>4. CASE c.type = "WriteParam" /\ c.index # "run_mode" /\ c.index \in FloatParams
    BY <2>4, <1>1 DEF Obey, MotorState
  <2>5. CASE /\ c.type \notin {"Enable", "Stop"}
             /\ ~(c.type = "WriteParam" /\ c.index = "run_mode")
             /\ ~(c.type = "WriteParam" /\ c.index \in FloatParams)
    BY <2>5 DEF Obey
  <2> QED
    BY <2>1, <2>2, <2>3, <2>4, <2>5
<1> QED
  BY <1>2 DEF Outcomes

\* The frame a motor answers a request with is a frame.
LEMMA AnswerToType ==
  ASSUME NEW m \in Motors, NEW s \in MotorState, NEW r \in Request,
         NEW whole \in BOOLEAN
  PROVE  AnswerTo(m, s, r, whole) \in Answer
<1>1. r.id \in Nat /\ r.cmd \in Command
  BY DEF Request
<1>2. r.cmd.index \in ParamIndex
  BY <1>1 DEF Command
<1>3. AnswerType(r.cmd) \in CommType
  BY DEF AnswerType, CommType
<1>4. ParamValue(s, r.cmd.index) \in Nat
  BY DEF ParamValue, MotorState
<1>5. AnswerValue(s, r.cmd) \in Nat
  BY <1>4 DEF AnswerValue
<1>6. s.enabled \in BOOLEAN
  BY DEF MotorState
<1> QED
  BY <1>1, <1>2, <1>3, <1>5, <1>6 DEF AnswerTo, Answer

----------------------------------------------------------------------------
\* Type correctness.

\* Inside a call there is a motor, and a command of the script to exchange.
LEMMA CmdType ==
  ASSUME TypeOK, pc # "idle"
  PROVE  /\ call.m \in Motors /\ call.script \in Seq(Command)
         /\ step \in 1 .. Len(call.script)
         /\ cmd \in Command
BY DEF TypeOK, Call, cmd

\* The initial state is well typed.
LEMMA InitType == Init => TypeOK
<1> SUFFICES ASSUME Init PROVE TypeOK
  OBVIOUS
<1>1. expired \in BOOLEAN
  BY Zenon DEF Init
<1>2. motor \in [Motors -> MotorState]
  <2>1. [enabled |-> FALSE, run_mode |-> 0,
         params |-> [p \in FloatParams |-> 0]] \in MotorState
    BY DEF MotorState
  <2> QED
    BY <2>1 DEF Init
<1>3. /\ last_feedback \in [Motors -> Answer \cup {NoFrame}]
      /\ toMotor \in [Motors -> Seq(Request)] /\ toHost \in Seq(Answer)
      /\ served \in [Motors -> Nat]
  BY DEF Init
<1>4. /\ pc = "idle" /\ call = NoCall /\ step = 1
      /\ response = NoFrame /\ status = "none" /\ sends = 0
  BY DEF Init
<1> QED
  BY <1>1, <1>2, <1>3, <1>4 DEF TypeOK, Status

\* What taking a frame from the queue leaves well typed.
LEMMA ReceivedType ==
  ASSUME TypeOK, NEW f \in First(toHost), Received(f)
  PROVE  /\ f \in Answer /\ toHost' \in Seq(Answer)
         /\ call.m \in Motors
         /\ f \in Answer \cup {NoFrame}
<1>1. f \in Answer /\ Tail(toHost) \in Seq(Answer)
  BY FirstOf DEF TypeOK
<1> QED
  BY <1>1, CmdType DEF Received

\* Caching a frame keeps the caches well typed.
LEMMA CacheType ==
  ASSUME TypeOK, NEW f \in Answer, Cache(f)
  PROVE  last_feedback' \in [Motors -> Answer \cup {NoFrame}]
<1>1. CASE parse_feedback(f) = NoFrame
  BY <1>1 DEF Cache, TypeOK
<1>2. CASE parse_feedback(f) # NoFrame
  <2>1. parse_feedback(f) \in Answer
    BY <1>2 DEF parse_feedback
  <2> QED
    BY <1>2, <2>1 DEF Cache, TypeOK
<1> QED
  BY <1>1, <1>2

\* The driver's own steps keep the types.
LEMMA DriverType == ASSUME TypeOK, Driver PROVE TypeOK'
<1>1. CASE Send
  <2>1. pc = "send" /\ cmd \in Command /\ call.m \in Motors
    BY <1>1, CmdType DEF Send
  <2>2. [id |-> sends + 1, cmd |-> cmd] \in Request
    BY <2>1 DEF Request, TypeOK
  <2>3. toMotor' \in [Motors -> Seq(Request)]
    BY <1>1, <2>1, <2>2 DEF Send, TypeOK
  <2>4. expired' \in BOOLEAN
    BY <1>1, Zenon DEF Send
  <2> QED
    BY <1>1, <2>1, <2>3, <2>4 DEF Send, TypeOK, motorVars
<1>2. CASE SendFails
  BY <1>2 DEF SendFails, Raise, TypeOK, Status, busVars, motorVars
<1>3. CASE Check
  BY <1>3 DEF Check, Raise, TypeOK, Status, busVars, motorVars
<1>4. CASE ReceiveTimesOut
  BY <1>4 DEF ReceiveTimesOut, Raise, TypeOK, Status, busVars, motorVars
<1>5. CASE ReceiveFails
  BY <1>5 DEF ReceiveFails, Raise, TypeOK, Status, busVars, motorVars
<1>6. CASE Discard
  <2>1. PICK f \in First(toHost) :
          /\ Received(f) /\ pc' = "check"
          /\ UNCHANGED <<step, response, status, last_feedback>>
    BY <1>6 DEF Discard
  <2> QED
    BY <2>1, ReceivedType DEF Received, TypeOK, motorVars
<1>7. CASE Overhear
  <2>1. PICK f \in First(toHost) :
          /\ Received(f) /\ pc' = "check" /\ Cache(f)
          /\ UNCHANGED <<step, response, status>>
    BY <1>7 DEF Overhear
  <2>2. last_feedback' \in [Motors -> Answer \cup {NoFrame}]
    BY <2>1, ReceivedType, CacheType
  <2> QED
    BY <2>1, <2>2, ReceivedType DEF Received, TypeOK, motorVars
<1>8. CASE AcceptMalformed
  <2>1. PICK f \in First(toHost) :
          /\ Received(f) /\ Cache(f) /\ Raise("malformed")
          /\ UNCHANGED <<step, response>>
    BY <1>8 DEF AcceptMalformed, Accepted
  <2>2. last_feedback' \in [Motors -> Answer \cup {NoFrame}]
    BY <2>1, ReceivedType, CacheType
  <2> QED
    BY <2>1, <2>2, ReceivedType DEF Received, Raise, TypeOK, Status, motorVars
<1>9. CASE AcceptAndGoOn
  <2>1. PICK f \in First(toHost) :
          /\ Received(f) /\ Cache(f) /\ step < Len(call.script)
          /\ response' = f /\ step' = step + 1 /\ pc' = "send"
          /\ UNCHANGED status
    BY <1>9 DEF AcceptAndGoOn, Accepted
  <2>2. last_feedback' \in [Motors -> Answer \cup {NoFrame}]
    BY <2>1, ReceivedType, CacheType
  <2>3. call' \in Call /\ step' <= Len(call'.script) /\ step' \in Nat \ {0}
    BY <2>1, CmdType DEF Received, TypeOK
  <2> QED
    BY <2>1, <2>2, <2>3, ReceivedType DEF Received, TypeOK, motorVars
<1>10. CASE AcceptAndReturn
  <2>1. PICK f \in First(toHost) :
          /\ Received(f) /\ Cache(f)
          /\ response' = f /\ pc' = "idle" /\ status' = Verdict(f)
          /\ UNCHANGED step
    BY <1>10 DEF AcceptAndReturn, Accepted
  <2>2. last_feedback' \in [Motors -> Answer \cup {NoFrame}]
    BY <2>1, ReceivedType, CacheType
  <2>3. status' \in Status
    BY <2>1 DEF Verdict, Status
  <2> QED
    BY <2>1, <2>2, <2>3, ReceivedType DEF Received, TypeOK, motorVars
<1> QED
  BY <1>1, <1>2, <1>3, <1>4, <1>5, <1>6, <1>7, <1>8, <1>9, <1>10 DEF Driver

\* So do the motors.
LEMMA MotorType ==
  ASSUME TypeOK, NEW m \in Motors,
         NEW r \in First(toMotor[m]), NEW s \in Outcomes(motor[m], r.cmd, Refusing),
         Handles(m, r, s), toHost' \in Seq(Answer)
  PROVE  TypeOK'
<1>1. r \in Request /\ Tail(toMotor[m]) \in Seq(Request)
  BY FirstOf DEF TypeOK
<1>2. s \in MotorState
  BY <1>1, OutcomesType DEF TypeOK, Request
<1>3. toMotor' \in [Motors -> Seq(Request)]
  BY <1>1 DEF Handles, TypeOK
<1>4. motor' \in [Motors -> MotorState] /\ served' \in [Motors -> Nat]
  BY <1>1, <1>2 DEF Handles, TypeOK, Request
<1> QED
  BY <1>3, <1>4 DEF Handles, driverVars, TypeOK

\* Another host's command leaves its motor in a state it can be in, and
\* queues a frame as new as the motor.
LEMMA RivalEffect ==
  ASSUME TypeOK, NEW m \in Motors, Rival(m)
  PROVE  /\ motor' \in [Motors -> MotorState]
         /\ UNCHANGED <<driverVars, toMotor, served>>
         /\ \E a \in Answer :
              a.src = m /\ a.re = served[m] /\ toHost' = Append(toHost, a)
<1>1. PICK c \in {make_enable_frame, make_stop_frame(FALSE),
                  make_read_param_frame("run_mode")} :
        /\ motor' = [motor EXCEPT ![m] = Obey(@, c)]
        /\ toHost' = Append(toHost, AnswerTo(m, Obey(motor[m], c),
                                             [id |-> served[m], cmd |-> c], TRUE))
  BY DEF Rival
<1>2. c \in Command
  BY DEF Command, CommType, ParamIndex, make_enable_frame, make_stop_frame,
         make_read_param_frame
<1> DEFINE s == Obey(motor[m], c)
           r == [id |-> served[m], cmd |-> c]
<1>3. s \in MotorState
  <2>1. s \in Outcomes(motor[m], c, FALSE)
    BY DEF Outcomes
  <2> HIDE DEF s
  <2> QED
    BY <1>2, <2>1, OutcomesType DEF TypeOK
<1>4. r \in Request /\ r.id = served[m]
  BY <1>2 DEF Request, TypeOK
<1>5. motor' \in [Motors -> MotorState]
  BY <1>1, <1>3 DEF TypeOK
<1> HIDE DEF s, r
<1>6. /\ AnswerTo(m, s, r, TRUE) \in Answer
      /\ AnswerTo(m, s, r, TRUE).src = m /\ AnswerTo(m, s, r, TRUE).re = served[m]
  BY <1>3, <1>4, AnswerToType DEF AnswerTo
<1>7. toHost' = Append(toHost, AnswerTo(m, s, r, TRUE))
  BY <1>1 DEF s, r
<1> QED
  BY <1>5, <1>6, <1>7 DEF Rival

\* And so does every step.
LEMMA StepType == ASSUME TypeOK, [Next]_vars PROVE TypeOK'
<1>1. ASSUME NEW c \in Calls, Invoke(c) PROVE TypeOK'
  <2>1. c \in Call
    BY DEF Calls
  <2> QED
    BY <1>1, <2>1 DEF Invoke, Call, TypeOK, Status, busVars, motorVars
<1>2. CASE Driver
  BY <1>2, DriverType
<1>3. CASE Tick
  BY <1>3 DEF Tick, TypeOK, busVars, motorVars
<1>4. ASSUME NEW m \in Motors, MotorAnswers(m) PROVE TypeOK'
  <2>1. PICK r \in First(toMotor[m]) : \E s \in Outcomes(motor[m], r.cmd, Refusing) :
          \E whole \in BOOLEAN :
            /\ Handles(m, r, s)
            /\ toHost' = Append(toHost, AnswerTo(m, s, r, whole))
    BY <1>4 DEF MotorAnswers
  <2>2. PICK s \in Outcomes(motor[m], r.cmd, Refusing), whole \in BOOLEAN :
            /\ Handles(m, r, s)
            /\ toHost' = Append(toHost, AnswerTo(m, s, r, whole))
    BY <2>1
  <2>3. r \in Request
    BY FirstOf DEF TypeOK
  <2>4. s \in MotorState
    BY <2>3, OutcomesType DEF TypeOK, Request
  <2>5. toHost' \in Seq(Answer)
    BY <2>2, <2>3, <2>4, AnswerToType, AppendTo DEF TypeOK
  <2> QED
    BY <2>2, <2>5, MotorType
<1>5. ASSUME NEW m \in Motors, LoseAnswer(m) PROVE TypeOK'
  <2>1. PICK r \in First(toMotor[m]) : \E s \in Outcomes(motor[m], r.cmd, Refusing) :
          Handles(m, r, s) /\ UNCHANGED toHost
    BY <1>5 DEF LoseAnswer
  <2> QED
    BY <2>1, MotorType DEF TypeOK
<1>6. ASSUME NEW m \in Motors, LoseRequest(m) PROVE TypeOK'
  BY <1>6 DEF LoseRequest, TypeOK, driverVars, motorVars
<1>7. ASSUME NEW m \in Motors, Report(m) PROVE TypeOK'
  <2>1. PICK type \in {"Feedback", "FaultFeedback"} :
          Unsolicited(m, type, served[m], motor[m].enabled)
    BY <1>7 DEF Report
  <2>2. served[m] \in Nat /\ motor[m].enabled \in BOOLEAN
    BY DEF TypeOK, MotorState
  <2>3. [src |-> m, type |-> type, whole |-> TRUE, re |-> served[m],
         enabled |-> motor[m].enabled, index |-> "none", value |-> 0] \in Answer
    BY <2>2 DEF Answer, CommType, ParamIndex
  <2> QED
    BY <2>1, <2>3, AppendTo DEF Unsolicited, TypeOK, driverVars, motorVars
<1>8. CASE Foreign
  <2>1. PICK type \in {"Feedback", "ReadParam"} : Unsolicited(Other, type, 0, TRUE)
    BY <1>8 DEF Foreign
  <2>2. [src |-> Other, type |-> type, whole |-> TRUE, re |-> 0,
         enabled |-> TRUE, index |-> "none", value |-> 0] \in Answer
    BY DEF Answer, CommType, ParamIndex
  <2> QED
    BY <2>1, <2>2, AppendTo DEF Unsolicited, TypeOK, driverVars, motorVars
<1>9. CASE Restart
  <2>1. expired' \in BOOLEAN
    BY <1>9, Zenon DEF Restart
  <2> QED
    BY <1>9, <2>1 DEF Restart, TypeOK, Status, motorVars
<1>10. ASSUME NEW m \in Motors, Rival(m) PROVE TypeOK'
  <2>1. PICK a \in Answer : toHost' = Append(toHost, a)
    BY <1>10, RivalEffect
  <2>2. toHost' \in Seq(Answer)
    BY <2>1, AppendTo DEF TypeOK
  <2> QED
    BY <1>10, <2>2, RivalEffect DEF TypeOK, driverVars
<1>11. CASE UNCHANGED vars
  BY <1>11 DEF vars, TypeOK
<1> QED
  BY <1>1, <1>2, <1>3, <1>4, <1>5, <1>6, <1>7, <1>8, <1>9, <1>10, <1>11 DEF Next

\* Every variable stays in its domain, and transceive is only ever entered
\* with a command of the call's script.
THEOREM TypeTheorem == Spec => []TypeOK
BY InitType, StepType, PTL DEF Spec

----------------------------------------------------------------------------
\* The cache of last_feedback() never regresses.
\*
\* Everything about one motor is in the order of its commands: what it has
\* reported, then what is on its way to the host, then what it has obeyed,
\* then what is on its way to it.

RequestsInOrder(m) ==
    /\ served[m] <= sends
    /\ \A i \in DOMAIN toMotor[m] :
         served[m] <= toMotor[m][i].id /\ toMotor[m][i].id <= sends
    /\ \A i, j \in DOMAIN toMotor[m] : i < j => toMotor[m][i].id <= toMotor[m][j].id

AnswersInOrder(m) ==
    /\ \A i \in DOMAIN toHost : toHost[i].src = m => toHost[i].re <= served[m]
    /\ \A i, j \in DOMAIN toHost :
         i < j /\ toHost[i].src = m /\ toHost[j].src = m
           => toHost[i].re <= toHost[j].re

CacheInOrder(m) ==
    last_feedback[m] # NoFrame =>
      /\ last_feedback[m].re <= served[m]
      /\ \A i \in DOMAIN toHost :
           toHost[i].src = m => last_feedback[m].re <= toHost[i].re

CacheInv ==
    TypeOK /\ \A m \in Motors : RequestsInOrder(m) /\ AnswersInOrder(m) /\ CacheInOrder(m)

NoRegress(m) ==
    last_feedback[m] # NoFrame /\ last_feedback'[m] # NoFrame
      => last_feedback[m].re <= last_feedback'[m].re

\* Nothing has been sent: everything is in order.
LEMMA InitCache == Init => CacheInv
BY InitType DEF Init, CacheInv, RequestsInOrder, AnswersInOrder, CacheInOrder

\* Taking the oldest frame leaves the rest of the queue in order, and the
\* frame taken is not older than the cache nor newer than the rest.
LEMMA ReceiveInOrder ==
  ASSUME CacheInv, NEW f \in First(toHost), Received(f), NEW m \in Motors
  PROVE  /\ RequestsInOrder(m)' /\ AnswersInOrder(m)'
         /\ f \in Answer
         /\ f.src = m =>
              /\ f.re <= served[m]
              /\ \A i \in DOMAIN toHost' : toHost'[i].src = m => f.re <= toHost'[i].re
         /\ last_feedback[m] # NoFrame =>
              /\ last_feedback[m].re <= served'[m]
              /\ f.src = m => last_feedback[m].re <= f.re
              /\ \A i \in DOMAIN toHost' :
                   toHost'[i].src = m => last_feedback[m].re <= toHost'[i].re
<1>1. toHost \in Seq(Answer) /\ toHost' = Tail(toHost)
  BY DEF CacheInv, TypeOK, Received
<1>2. /\ 1 \in DOMAIN toHost /\ f = toHost[1] /\ f \in Answer
      /\ \A i \in DOMAIN toHost' :
           i + 1 \in DOMAIN toHost /\ toHost'[i] = toHost[i + 1] /\ 1 < i + 1
  BY <1>1, FirstOf DEF First
<1>3. RequestsInOrder(m) /\ AnswersInOrder(m) /\ CacheInOrder(m)
  BY DEF CacheInv
<1>4. UNCHANGED <<sends, toMotor, served>>
  BY DEF Received, motorVars
<1>5. RequestsInOrder(m)'
  BY <1>3, <1>4 DEF RequestsInOrder
<1>6. AnswersInOrder(m)'
  <2>1. \A i, j \in DOMAIN toHost' : i < j => i + 1 < j + 1
    BY <1>1
  <2> QED
    BY <1>2, <1>3, <1>4, <2>1 DEF AnswersInOrder
<1> QED
  BY <1>2, <1>3, <1>4, <1>5, <1>6 DEF AnswersInOrder, CacheInOrder

\* A frame put at the end of the queue that is as new as its sender keeps
\* the queue and the cache in order.
LEMMA DeliverInOrder ==
  ASSUME CacheInv, NEW m \in Motors, NEW a \in Answer,
         toHost' = Append(toHost, a),
         UNCHANGED last_feedback,
         served[m] <= served'[m], served[m] \in Nat, served'[m] \in Nat,
         a.src = m => a.re = served'[m]
  PROVE  AnswersInOrder(m)' /\ CacheInOrder(m)'
<1>1. toHost \in Seq(Answer)
  BY DEF CacheInv, TypeOK
<1>2. /\ \A i \in DOMAIN toHost : toHost'[i] = toHost[i] /\ i < Len(toHost) + 1
      /\ \A i \in DOMAIN toHost' : i \in DOMAIN toHost \/ i = Len(toHost) + 1
      /\ toHost'[Len(toHost) + 1] = a
  BY <1>1, AppendTo
<1>3. AnswersInOrder(m) /\ CacheInOrder(m)
  BY DEF CacheInv
<1>4. \A i \in DOMAIN toHost : toHost[i].re \in Nat
  <2>1. \A i \in DOMAIN toHost : toHost[i] \in Answer
    BY <1>1
  <2> QED
    BY <2>1 DEF Answer
<1>5. \A i \in DOMAIN toHost' : toHost'[i].src = m => toHost'[i].re <= served'[m]
  BY <1>2, <1>3, <1>4 DEF AnswersInOrder
<1>6. ASSUME NEW i \in DOMAIN toHost', NEW j \in DOMAIN toHost',
             i < j, toHost'[i].src = m, toHost'[j].src = m
      PROVE  toHost'[i].re <= toHost'[j].re
  <2>1. i \in DOMAIN toHost
    <3>1. i \in Nat /\ j \in Nat /\ j <= Len(toHost) + 1
      BY <1>1
    <3> QED
      BY <1>2, <1>6, <3>1
  <2>2. CASE j \in DOMAIN toHost
    BY <1>2, <1>3, <1>6, <2>1, <2>2 DEF AnswersInOrder
  <2>3. CASE j = Len(toHost) + 1
    BY <1>2, <1>5, <1>6, <2>3
  <2> QED
    BY <1>2, <2>2, <2>3
<1>7. CacheInOrder(m)'
  <2>1. last_feedback[m] # NoFrame => last_feedback[m].re \in Nat
    BY DEF CacheInv, TypeOK, Answer
  <2> QED
    BY <1>2, <1>3, <2>1 DEF CacheInOrder
<1> QED
  BY <1>5, <1>6, <1>7 DEF AnswersInOrder

InOrder(m) == RequestsInOrder(m) /\ AnswersInOrder(m) /\ CacheInOrder(m)

\* A frame received from this motor goes into the cache, from the oldest end
\* of the queue; any other frame is dropped.
LEMMA ReceiveCache ==
  ASSUME CacheInv, NEW f \in First(toHost), Received(f),
         \/ UNCHANGED last_feedback
         \/ FromThisMotor(f) /\ Cache(f),
         NEW m \in Motors
  PROVE  InOrder(m)' /\ NoRegress(m)
<1>1. TypeOK /\ last_feedback \in [Motors -> Answer \cup {NoFrame}]
  BY DEF CacheInv, TypeOK
<1>2. RequestsInOrder(m)' /\ AnswersInOrder(m)'
  BY ReceiveInOrder
<1>3. UNCHANGED served /\ f \in Answer
  BY ReceiveInOrder DEF Received, motorVars
<1>4. CASE last_feedback'[m] = last_feedback[m]
  <2>1. CacheInOrder(m)'
    BY <1>4, ReceiveInOrder DEF CacheInOrder
  <2>2. NoRegress(m)
    <3>1. last_feedback[m] # NoFrame => last_feedback[m].re \in Nat
      BY <1>1 DEF Answer
    <3> QED
      BY <1>4, <3>1 DEF NoRegress
  <2> QED
    BY <1>2, <2>1, <2>2 DEF InOrder
<1>5. CASE last_feedback'[m] # last_feedback[m]
  <2>1. last_feedback'[m] = f /\ f.src = m
    <3>1. FromThisMotor(f) /\ Cache(f) /\ parse_feedback(f) # NoFrame
      BY <1>5 DEF Cache
    <3>2. parse_feedback(f) = f
      BY <3>1 DEF parse_feedback
    <3> QED
      BY <1>1, <1>5, <3>1, <3>2 DEF Cache, FromThisMotor
  <2> QED
    BY <1>2, <1>3, <2>1, ReceiveInOrder DEF InOrder, CacheInOrder, NoRegress
<1> QED
  BY <1>4, <1>5

\* A motor that takes its oldest command, obeyed or not, stays in order.
LEMMA ServeInOrder ==
  ASSUME CacheInv, NEW m \in Motors, NEW r \in First(toMotor[m]),
         toMotor' = [toMotor EXCEPT ![m] = Tail(@)], UNCHANGED sends,
         \/ UNCHANGED served
         \/ served' = [served EXCEPT ![m] = r.id],
         NEW n \in Motors
  PROVE  /\ RequestsInOrder(n)'
         /\ served[n] <= served'[n] /\ served[n] \in Nat /\ served'[n] \in Nat
         /\ n # m => served'[n] = served[n]
<1>1. /\ toMotor \in [Motors -> Seq(Request)] /\ served \in [Motors -> Nat]
      /\ RequestsInOrder(m) /\ RequestsInOrder(n)
  BY DEF CacheInv, TypeOK
<1>2. toMotor[m] \in Seq(Request)
  BY <1>1
<1>3. /\ r = toMotor[m][1] /\ 1 \in DOMAIN toMotor[m] /\ r.id \in Nat
      /\ \A i \in DOMAIN Tail(toMotor[m]) :
           i + 1 \in DOMAIN toMotor[m] /\ Tail(toMotor[m])[i] = toMotor[m][i + 1]
      /\ Tail(toMotor[m]) \in Seq(Request)
  <2>1. r \in Request /\ r = toMotor[m][1] /\ 1 \in DOMAIN toMotor[m]
    BY <1>2, FirstOf DEF First
  <2>2. r.id \in Nat
    BY <2>1 DEF Request
  <2> QED
    BY <1>2, <2>1, <2>2, FirstOf
<1>4. CASE n # m
  BY <1>1, <1>4 DEF RequestsInOrder
<1>5. CASE n = m
  <2>1. toMotor'[m] = Tail(toMotor[m])
    BY <1>1
  <2>2. \A i \in DOMAIN toMotor[m] : 1 < i => r.id <= toMotor[m][i].id
    BY <1>1, <1>3 DEF RequestsInOrder
  <2>3. /\ served[m] <= r.id /\ r.id <= sends
        /\ served'[m] \in {served[m], r.id}
    BY <1>1, <1>3 DEF RequestsInOrder
  <2>4. \A i \in DOMAIN toMotor'[m] :
           /\ i + 1 \in DOMAIN toMotor[m] /\ 1 < i + 1
           /\ toMotor'[m][i] = toMotor[m][i + 1]
    <3>1. \A i \in DOMAIN Tail(toMotor[m]) : 1 < i + 1
      BY <1>3
    <3> QED
      BY <1>3, <2>1, <3>1
  <2>5. \A i \in DOMAIN toMotor'[m] : served'[m] <= toMotor'[m][i].id
    BY <1>1, <2>2, <2>3, <2>4 DEF RequestsInOrder
  <2>6. \A i, j \in DOMAIN toMotor'[m] : i < j => i + 1 < j + 1
    BY <1>2, <2>1
  <2>7. /\ \A i \in DOMAIN toMotor'[m] : toMotor'[m][i].id <= sends'
        /\ \A i, j \in DOMAIN toMotor'[m] :
             i < j => toMotor'[m][i].id <= toMotor'[m][j].id
    BY <1>1, <2>4, <2>6 DEF RequestsInOrder
  <2>8. served'[m] <= sends'
    BY <1>1, <2>3 DEF RequestsInOrder
  <2> QED
    BY <1>1, <1>3, <1>5, <2>3, <2>5, <2>7, <2>8 DEF RequestsInOrder
<1> QED
  BY <1>4, <1>5

\* Where the driver sends a command, its number is the highest so far.
LEMMA SendInOrder ==
  ASSUME CacheInv, Send, NEW m \in Motors
  PROVE  InOrder(m)'
<1>1. /\ toMotor \in [Motors -> Seq(Request)] /\ sends \in Nat
      /\ RequestsInOrder(m) /\ AnswersInOrder(m) /\ CacheInOrder(m)
      /\ call.m \in Motors /\ cmd \in Command /\ served[m] \in Nat
  BY CmdType DEF CacheInv, TypeOK, Send
<1>2. UNCHANGED <<toHost, served, last_feedback>> /\ sends' = sends + 1
  BY DEF Send, motorVars
<1>3. AnswersInOrder(m)' /\ CacheInOrder(m)'
  BY <1>1, <1>2 DEF AnswersInOrder, CacheInOrder
<1> DEFINE q == toMotor[m]
           r == [id |-> sends + 1, cmd |-> cmd]
<1>4. q \in Seq(Request) /\ r \in Request /\ r.id = sends + 1
  <2>1. q \in Seq(Request) /\ r.id = sends + 1
    BY <1>1
  <2>2. r \in Request
    BY <1>1 DEF Request
  <2> QED
    BY <2>1, <2>2
<1>5. \A i \in DOMAIN q : q[i].id \in Nat
  <2>1. \A i \in DOMAIN q : q[i] \in Request
    BY <1>4
  <2> QED
    BY <2>1 DEF Request
<1>6. CASE m = call.m
  <2>1. toMotor'[m] = Append(q, r)
    BY <1>1, <1>6 DEF Send
  <2> HIDE DEF q, r
  <2>2. /\ \A i \in DOMAIN q : toMotor'[m][i] = q[i] /\ i < Len(q) + 1
        /\ \A i \in DOMAIN toMotor'[m] : i \in DOMAIN q \/ i = Len(q) + 1
        /\ toMotor'[m][Len(q) + 1] = r
    BY <1>4, <2>1, AppendTo
  <2>3. \A i \in DOMAIN q : served[m] <= q[i].id /\ q[i].id <= sends
    BY <1>1 DEF RequestsInOrder, q
  <2>4. \A i \in DOMAIN toMotor'[m] :
           served'[m] <= toMotor'[m][i].id /\ toMotor'[m][i].id <= sends'
    <3>1. /\ served'[m] = served[m] /\ served[m] \in Nat /\ sends \in Nat
          /\ served[m] <= sends /\ sends' = sends + 1
      BY <1>1, <1>2 DEF RequestsInOrder
    <3>2. ASSUME NEW i \in DOMAIN q
          PROVE  /\ served[m] <= toMotor'[m][i].id
                 /\ toMotor'[m][i].id <= sends + 1
      <4>1. toMotor'[m][i] = q[i] /\ q[i].id \in Nat /\ served[m] <= q[i].id
            /\ q[i].id <= sends
        BY <1>5, <2>2, <2>3
      <4> QED
        BY <3>1, <4>1
    <3>3. toMotor'[m][Len(q) + 1].id = sends + 1
      BY <1>4, <2>2
    <3> QED
      BY <2>2, <3>1, <3>2, <3>3
  <2>5. ASSUME NEW i \in DOMAIN toMotor'[m], NEW j \in DOMAIN toMotor'[m], i < j
        PROVE  toMotor'[m][i].id <= toMotor'[m][j].id
    <3>1. i \in DOMAIN q
      <4>1. i \in Nat /\ j \in Nat /\ j <= Len(q) + 1
        BY <1>4, <2>1, AppendTo
      <4> QED
        BY <2>2, <2>5, <4>1
    <3>2. CASE j \in DOMAIN q
      BY <1>1, <2>2, <2>5, <3>1, <3>2 DEF RequestsInOrder, q
    <3>3. CASE j = Len(q) + 1
      BY <1>2, <1>4, <2>2, <2>4, <3>3
    <3> QED
      BY <2>2, <3>2, <3>3
  <2>6. served'[m] <= sends'
    BY <1>1, <1>2 DEF RequestsInOrder
  <2> QED
    BY <1>3, <2>4, <2>5, <2>6 DEF InOrder, RequestsInOrder
<1>7. CASE m # call.m
  <2>1. toMotor'[m] = q
    BY <1>1, <1>7 DEF Send
  <2>2. RequestsInOrder(m)'
    BY <1>1, <1>2, <1>5, <2>1 DEF RequestsInOrder
  <2> QED
    BY <1>3, <2>2 DEF InOrder
<1> QED
  BY <1>6, <1>7

\* A motor handles its oldest command; what it queues, if anything, is a
\* frame of its own that carries the number of that command.
LEMMA HandleCache ==
  ASSUME CacheInv, NEW m \in Motors, NEW r \in First(toMotor[m]),
         NEW s \in Outcomes(motor[m], r.cmd, Refusing), Handles(m, r, s),
         \/ UNCHANGED toHost
         \/ \E whole \in BOOLEAN : toHost' = Append(toHost, AnswerTo(m, s, r, whole)),
         NEW n \in Motors
  PROVE  InOrder(n)' /\ NoRegress(n)
<1>1. UNCHANGED <<last_feedback, sends>>
  BY DEF Handles, driverVars
<1>2. /\ RequestsInOrder(n)'
      /\ served[n] <= served'[n] /\ served[n] \in Nat /\ served'[n] \in Nat
      /\ n # m => served'[n] = served[n]
  BY <1>1, ServeInOrder DEF Handles
<1>3. r \in Request /\ s \in MotorState /\ served'[m] = r.id
  <2>1. r \in Request
    BY FirstOf DEF CacheInv, TypeOK
  <2>2. s \in MotorState
    BY <2>1, OutcomesType DEF CacheInv, TypeOK, Request
  <2> QED
    BY <2>1, <2>2 DEF Handles, CacheInv, TypeOK
<1>4. CASE UNCHANGED toHost
  <2>1. AnswersInOrder(n)' /\ CacheInOrder(n)'
    <3>1. toHost \in Seq(Answer) /\ AnswersInOrder(n) /\ CacheInOrder(n)
      BY DEF CacheInv, TypeOK
    <3>2. \A i \in DOMAIN toHost : toHost[i] \in Answer
      BY <3>1
    <3>3. \A i \in DOMAIN toHost : toHost[i].re \in Nat
      BY <3>2 DEF Answer
    <3>4. last_feedback[n] # NoFrame => last_feedback[n].re \in Nat
      BY DEF CacheInv, TypeOK, Answer
    <3> QED
      BY <1>1, <1>2, <1>4, <3>1, <3>3, <3>4 DEF AnswersInOrder, CacheInOrder
  <2> QED
    BY <1>1, <1>2, <2>1 DEF InOrder, NoRegress, CacheInv, TypeOK, Answer
<1>5. CASE \E whole \in BOOLEAN : toHost' = Append(toHost, AnswerTo(m, s, r, whole))
  <2>1. PICK whole \in BOOLEAN : toHost' = Append(toHost, AnswerTo(m, s, r, whole))
    BY <1>5
  <2>2. AnswerTo(m, s, r, whole) \in Answer
    BY <1>3, AnswerToType
  <2>3. AnswerTo(m, s, r, whole).src = n => AnswerTo(m, s, r, whole).re = served'[n]
    BY <1>3 DEF AnswerTo
  <2>4. AnswersInOrder(n)' /\ CacheInOrder(n)'
    BY <1>1, <1>2, <2>1, <2>2, <2>3, DeliverInOrder
  <2> QED
    BY <1>1, <1>2, <2>4 DEF InOrder, NoRegress, CacheInv, TypeOK, Answer
<1> QED
  BY <1>4, <1>5

\* A frame nobody asked for is as new as its sender.
LEMMA UnsolicitedCache ==
  ASSUME CacheInv, NEW a \in Answer, toHost' = Append(toHost, a),
         UNCHANGED <<driverVars, toMotor, served>>,
         \A m \in Motors : a.src = m => a.re = served[m],
         NEW n \in Motors
  PROVE  InOrder(n)' /\ NoRegress(n)
<1>1. UNCHANGED <<last_feedback, sends, toMotor, served>>
  BY DEF driverVars
<1>2. served[n] \in Nat /\ RequestsInOrder(n)
  BY DEF CacheInv, TypeOK
<1>3. AnswersInOrder(n)' /\ CacheInOrder(n)'
  <2>1. a.src = n => a.re = served'[n]
    BY <1>1
  <2> QED
    BY <1>1, <1>2, <2>1, DeliverInOrder
<1>4. RequestsInOrder(n)'
  BY <1>1, <1>2 DEF RequestsInOrder
<1>5. NoRegress(n)
  BY <1>1 DEF NoRegress, CacheInv, TypeOK, Answer
<1> QED
  BY <1>3, <1>4, <1>5 DEF InOrder

\* Steps that touch neither a queue, nor a cache, nor a motor.
LEMMA IdleCache ==
  ASSUME CacheInv, UNCHANGED <<sends, toMotor, toHost, served, last_feedback>>,
         NEW n \in Motors
  PROVE  InOrder(n)' /\ NoRegress(n)
BY DEF CacheInv, TypeOK, Answer, InOrder, NoRegress, RequestsInOrder,
       AnswersInOrder, CacheInOrder

\* Every step keeps every motor in order, and no cache regresses.
LEMMA StepCache ==
  ASSUME CacheInv, [Next]_vars
  PROVE  CacheInv' /\ \A n \in Motors : NoRegress(n)
<1> SUFFICES ASSUME NEW n \in Motors PROVE InOrder(n)' /\ NoRegress(n)
  BY StepType DEF CacheInv, InOrder
<1>1. ASSUME NEW c \in Calls, Invoke(c) PROVE InOrder(n)' /\ NoRegress(n)
  BY <1>1, IdleCache DEF Invoke, busVars, motorVars
<1>2. CASE Send
  <2>1. NoRegress(n)
    BY <1>2 DEF Send, NoRegress, CacheInv, TypeOK, Answer
  <2> QED
    BY <1>2, <2>1, SendInOrder
<1>3. CASE SendFails \/ Check \/ ReceiveTimesOut \/ ReceiveFails \/ Tick
  BY <1>3, IdleCache DEF SendFails, Check, ReceiveTimesOut, ReceiveFails, Tick,
                         busVars, motorVars
<1>4. CASE Discard \/ Overhear
  <2>1. PICK f \in First(toHost) :
          /\ Received(f)
          /\ UNCHANGED last_feedback \/ (FromThisMotor(f) /\ Cache(f))
    BY <1>4 DEF Discard, Overhear
  <2> QED
    BY <2>1, ReceiveCache
<1>5. CASE AcceptMalformed \/ AcceptAndGoOn \/ AcceptAndReturn
  <2>1. PICK f \in First(toHost) : Accepted(f)
    BY <1>5 DEF AcceptMalformed, AcceptAndGoOn, AcceptAndReturn
  <2> QED
    BY <2>1, ReceiveCache DEF Accepted
<1>6. ASSUME NEW m \in Motors, MotorAnswers(m) PROVE InOrder(n)' /\ NoRegress(n)
  <2>1. PICK r \in First(toMotor[m]) : \E s \in Outcomes(motor[m], r.cmd, Refusing) :
          \E whole \in BOOLEAN :
            /\ Handles(m, r, s)
            /\ toHost' = Append(toHost, AnswerTo(m, s, r, whole))
    BY <1>6 DEF MotorAnswers
  <2> QED
    BY <2>1, HandleCache
<1>7. ASSUME NEW m \in Motors, LoseAnswer(m) PROVE InOrder(n)' /\ NoRegress(n)
  BY <1>7, HandleCache DEF LoseAnswer
<1>8. ASSUME NEW m \in Motors, LoseRequest(m) PROVE InOrder(n)' /\ NoRegress(n)
  <2>1. \E r \in First(toMotor[m]) : TRUE
    <3>1. toMotor[m] \in Seq(Request) /\ toMotor[m] # <<>>
      BY <1>8 DEF LoseRequest, CacheInv, TypeOK
    <3>2. 1 \in DOMAIN toMotor[m]
      BY <3>1
    <3> QED
      BY <3>2 DEF First
  <2>2. /\ toMotor' = [toMotor EXCEPT ![m] = Tail(@)]
        /\ UNCHANGED <<sends, toHost, served, last_feedback>>
    BY <1>8 DEF LoseRequest, driverVars, motorVars
  <2>3. RequestsInOrder(n)'
    BY <2>1, <2>2, ServeInOrder
  <2>4. AnswersInOrder(n)' /\ CacheInOrder(n)'
    BY <2>2 DEF CacheInv, AnswersInOrder, CacheInOrder
  <2>5. NoRegress(n)
    BY <2>2 DEF NoRegress, CacheInv, TypeOK, Answer
  <2> QED
    BY <2>3, <2>4, <2>5 DEF InOrder
<1>9. ASSUME NEW m \in Motors, Report(m) PROVE InOrder(n)' /\ NoRegress(n)
  <2>1. PICK type \in {"Feedback", "FaultFeedback"} :
          Unsolicited(m, type, served[m], motor[m].enabled)
    BY <1>9 DEF Report
  <2>2. served[m] \in Nat /\ motor[m].enabled \in BOOLEAN
    BY DEF CacheInv, TypeOK, MotorState
  <2> DEFINE a == [src |-> m, type |-> type, whole |-> TRUE, re |-> served[m],
                   enabled |-> motor[m].enabled, index |-> "none", value |-> 0]
  <2>3. a \in Answer /\ a.src = m /\ a.re = served[m]
    BY <2>2 DEF Answer, CommType, ParamIndex
  <2>4. toHost' = Append(toHost, a) /\ UNCHANGED <<driverVars, toMotor, served>>
    BY <2>1 DEF Unsolicited, motorVars
  <2> HIDE DEF a
  <2> QED
    BY <2>3, <2>4, UnsolicitedCache
<1>10. CASE Foreign
  <2>1. PICK type \in {"Feedback", "ReadParam"} : Unsolicited(Other, type, 0, TRUE)
    BY <1>10 DEF Foreign
  <2> DEFINE a == [src |-> Other, type |-> type, whole |-> TRUE, re |-> 0,
                   enabled |-> TRUE, index |-> "none", value |-> 0]
  <2>2. a \in Answer /\ a.src \notin Motors
    BY DEF Answer, CommType, ParamIndex
  <2>3. toHost' = Append(toHost, a) /\ UNCHANGED <<driverVars, toMotor, served>>
    BY <2>1 DEF Unsolicited, motorVars
  <2> HIDE DEF a
  <2> QED
    BY <2>2, <2>3, UnsolicitedCache
<1>11. CASE Restart
  <2>1. /\ toHost' = <<>> /\ last_feedback' = [m \in Motors |-> NoFrame]
        /\ UNCHANGED <<sends, toMotor, served>>
    BY <1>11 DEF Restart, motorVars
  <2> QED
    BY <2>1 DEF CacheInv, InOrder, NoRegress, RequestsInOrder, AnswersInOrder,
                CacheInOrder
<1>12. ASSUME NEW m \in Motors, Rival(m) PROVE InOrder(n)' /\ NoRegress(n)
  <2>1. TypeOK
    BY DEF CacheInv
  <2>2. PICK a \in Answer :
          a.src = m /\ a.re = served[m] /\ toHost' = Append(toHost, a)
    BY <1>12, <2>1, RivalEffect
  <2>3. UNCHANGED <<driverVars, toMotor, served>>
    BY <1>12 DEF Rival
  <2> QED
    BY <2>2, <2>3, UnsolicitedCache
<1>13. CASE UNCHANGED vars
  BY <1>13, IdleCache DEF vars
<1> QED
  BY <1>1, <1>2, <1>3, <1>4, <1>5, <1>6, <1>7, <1>8, <1>9, <1>10, <1>11, <1>12,
     <1>13 DEF Next, Driver

\* Whatever the bus loses, delays or adds, and whatever calls are made,
\* last_feedback() never goes back to an older state of its motor.
THEOREM CacheNeverRegressesTheorem == Spec => CacheNeverRegresses
<1>1. CacheInv /\ [Next]_vars
        => CacheInv' /\ [\A m \in Motors :
             last_feedback[m] # NoFrame /\ last_feedback'[m] # NoFrame
               => last_feedback[m].re <= last_feedback'[m].re]_vars
  BY StepCache DEF NoRegress
<1> QED
  BY <1>1, InitCache, PTL DEF Spec, CacheNeverRegresses

============================================================================
