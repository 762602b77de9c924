---------------------- MODULE RobstrideMotorTimelyProofs ----------------------
(***************************************************************************)
(* Proofs about RobstrideMotor while answers are timely: an answer comes   *)
(* before the deadline or never, motors do not report unasked, and         *)
(* CanInterface::receive does not throw.  Then at most one frame of the    *)
(* host's own traffic is in flight, and it is the one transceive waits     *)
(* for; a call that returns returns its answer, and the driver, the bus    *)
(* and the motors implement MotorService.  Of calls of several exchanges   *)
(* follows what their order protects the motor from.                       *)
(***************************************************************************)
EXTENDS RobstrideMotorProofs

\* The faults under which an answer never outlives its call.
Timely == Faults \cap {"late", "report", "rival", "receiveFails"} = {}

----------------------------------------------------------------------------
\* The invariant.

\* Frames of the motors this host drives, in its queue.
NoOwnAnswer == \A i \in DOMAIN toHost : toHost[i].src \notin Motors

NothingInFlight == NoOwnAnswer /\ \A m \in Motors : toMotor[m] = <<>>

Outstanding == [id |-> sends, cmd |-> cmd]

\* A command on its way is the outstanding one, not obeyed yet, and there is
\* no answer.
OneRequest ==
  \A m \in Motors : toMotor[m] # <<>> =>
    /\ Waiting /\ m = call.m
    /\ toMotor[m] = <<Outstanding>> /\ served[m] # sends
    /\ NoOwnAnswer

\* A frame of a motor answers the outstanding command, with the state the
\* motor is still in; there is no other.
OneAnswer ==
  \A i \in DOMAIN toHost : toHost[i].src \in Motors =>
    /\ Waiting /\ served[call.m] = sends
    /\ toHost[i] = AnswerTo(call.m, motor[call.m], Outstanding, toHost[i].whole)
    /\ \A j \in DOMAIN toHost : toHost[j].src \in Motors => j = i

\* When the deadline has passed the motor will not answer any more.
NoAnswerToCome == expired /\ Waiting => Quiet(call.m)

TimelyInv ==
  /\ TypeOK
  /\ OneRequest /\ OneAnswer /\ NoAnswerToCome
  /\ \A m \in Motors : served[m] <= sends
  /\ pc # "idle" => status = "none"
  /\ FreshAnswer

----------------------------------------------------------------------------
\* What the invariant says of the places of the driver.

\* Outside an exchange nothing is in flight.
LEMMA StillOutside == ASSUME TimelyInv, ~Waiting PROVE NothingInFlight
BY DEF TimelyInv, OneRequest, OneAnswer, NothingInFlight, NoOwnAnswer

\* Nor after the deadline.
LEMMA StillLate == ASSUME TimelyInv, Waiting, expired PROVE NothingInFlight
<1>1. Quiet(call.m)
  BY DEF TimelyInv, NoAnswerToCome
<1>2. NoOwnAnswer
  <2> SUFFICES ASSUME NEW i \in DOMAIN toHost, toHost[i].src \in Motors PROVE FALSE
    BY DEF NoOwnAnswer
  <2>1. toHost[i] = AnswerTo(call.m, motor[call.m], Outstanding, toHost[i].whole)
    BY DEF TimelyInv, OneAnswer
  <2>2. toHost[i].src = call.m
    BY <2>1 DEF AnswerTo
  <2> QED
    BY <1>1, <2>2 DEF Quiet
<1>3. ASSUME NEW m \in Motors PROVE toMotor[m] = <<>>
  BY <1>1 DEF TimelyInv, OneRequest, Quiet
<1> QED
  BY <1>2, <1>3 DEF NothingInFlight

\* A motor that has a command has the outstanding one, and nothing else is
\* in flight.
LEMMA RequestAtMotor ==
  ASSUME TimelyInv, NEW m \in Motors, NEW r \in First(toMotor[m])
  PROVE  /\ Waiting /\ m = call.m /\ r = Outstanding
         /\ Tail(toMotor[m]) = <<>> /\ served[m] # sends
         /\ NoOwnAnswer
         /\ \A n \in Motors : n # m => toMotor[n] = <<>>
<1>1. toMotor[m] # <<>> /\ r = toMotor[m][1]
  BY DEF First
<1>2. Waiting /\ m = call.m /\ toMotor[m] = <<Outstanding>>
      /\ served[m] # sends /\ NoOwnAnswer
  BY <1>1 DEF TimelyInv, OneRequest
<1>3. r = Outstanding /\ Tail(toMotor[m]) = <<>>
  BY <1>1, <1>2
<1> QED
  BY <1>2, <1>3 DEF TimelyInv, OneRequest

\* A frame of this motor is the answer, and taking it leaves nothing.
LEMMA TakeAnswer ==
  ASSUME TimelyInv, NEW f \in First(toHost), Received(f), FromThisMotor(f)
  PROVE  /\ f = AnswerTo(call.m, motor[call.m], Outstanding, f.whole)
         /\ f.type = expected_type
         /\ served[call.m] = sends
         /\ f \in Answer
         /\ NothingInFlight'
<1>1. /\ toHost \in Seq(Answer) /\ f = toHost[1] /\ 1 \in DOMAIN toHost
      /\ toHost' = Tail(toHost) /\ f \in Answer
      /\ \A i \in DOMAIN toHost' : i \in Nat /\ i + 1 \in DOMAIN toHost
                                    /\ toHost'[i] = toHost[i + 1]
  <2>1. toHost \in Seq(Answer)
    BY DEF TimelyInv, TypeOK
  <2>2. /\ f = toHost[1] /\ f \in Answer /\ toHost # <<>>
        /\ Tail(toHost) \in Seq(Answer)
        /\ \A i \in DOMAIN Tail(toHost) :
             i + 1 \in DOMAIN toHost /\ Tail(toHost)[i] = toHost[i + 1]
    BY <2>1, FirstOf
  <2> QED
    BY <2>1, <2>2 DEF Received
<1>2. call.m \in Motors
  BY CmdType DEF TimelyInv, Received
<1>3. f.src \in Motors
  BY <1>2 DEF FromThisMotor
<1>4. /\ f = AnswerTo(call.m, motor[call.m], Outstanding, f.whole)
      /\ served[call.m] = sends
      /\ \A j \in DOMAIN toHost : toHost[j].src \in Motors => j = 1
  BY <1>1, <1>3 DEF TimelyInv, OneAnswer
<1>5. NoOwnAnswer'
  <2> SUFFICES ASSUME NEW i \in DOMAIN toHost', toHost'[i].src \in Motors PROVE FALSE
    BY DEF NoOwnAnswer
  <2>1. i + 1 = 1 /\ i \in Nat /\ i # 0
    BY <1>1, <1>4
  <2> QED
    BY <2>1
<1>6. \A m \in Motors : toMotor[m] = <<>>
  BY <1>1, <1>3 DEF TimelyInv, OneRequest, NoOwnAnswer
<1>7. f.type = expected_type
  BY <1>4 DEF AnswerTo, Outstanding, expected_type
<1> QED
  BY <1>1, <1>4, <1>5, <1>6, <1>7 DEF NothingInFlight, Received

\* Where nothing is in flight there is nothing to say of it.
LEMMA StillIsFine ==
  ASSUME TypeOK', NothingInFlight'
  PROVE  OneRequest' /\ OneAnswer' /\ NoAnswerToCome'
<1>1. OneRequest' /\ OneAnswer'
  BY DEF NothingInFlight, NoOwnAnswer, OneRequest, OneAnswer
<1>2. Waiting' => call'.m \in Motors
  BY DEF TypeOK, Waiting, Call
<1>3. NoAnswerToCome'
  BY <1>2 DEF NothingInFlight, NoOwnAnswer, NoAnswerToCome, Quiet
<1> QED
  BY <1>1, <1>3

----------------------------------------------------------------------------
\* The steps.

\* What a step has to show besides its types.
InFlight == OneRequest /\ OneAnswer /\ NoAnswerToCome

Bookkeeping ==
  /\ \A m \in Motors : served[m] <= sends
  /\ pc # "idle" => status = "none"
  /\ FreshAnswer

\* Sending puts the one command in flight.
LEMMA SendTimely == ASSUME TimelyInv, TypeOK', Send PROVE InFlight' /\ Bookkeeping'
<1>1. NothingInFlight
  BY StillOutside DEF Send, Waiting
<1>2. call.m \in Motors /\ pc = "send" /\ sends \in Nat
  BY CmdType DEF Send, TimelyInv, TypeOK
<1>3. /\ Waiting' /\ call' = call /\ sends' = sends + 1 /\ step' = step
      /\ expired' = FALSE /\ status' = status /\ toHost' = toHost
      /\ served' = served /\ response' = response
      /\ toMotor' = [toMotor EXCEPT ![call.m] =
                       Append(@, [id |-> sends + 1, cmd |-> cmd])]
  BY DEF Send, Waiting, motorVars
<1>4. NoOwnAnswer'
  BY <1>1, <1>3 DEF NothingInFlight, NoOwnAnswer
<1>5. \A m \in Motors : served[m] \in Nat /\ served[m] <= sends
  BY DEF TimelyInv, TypeOK
<1>6. OneRequest'
  <2> SUFFICES ASSUME NEW m \in Motors, toMotor'[m] # <<>>
               PROVE  /\ m = call'.m /\ toMotor'[m] = <<Outstanding'>>
                      /\ served'[m] # sends'
    BY <1>3, <1>4 DEF OneRequest
  <2>1. toMotor \in [Motors -> Seq(Request)]
    BY DEF TimelyInv, TypeOK
  <2>2. m = call.m
    BY <1>1, <1>3, <2>1 DEF NothingInFlight
  <2>3. toMotor'[m] = Append(<<>>, [id |-> sends + 1, cmd |-> cmd])
    BY <1>1, <1>3, <2>1, <2>2 DEF NothingInFlight
  <2>4. cmd' = cmd
    BY <1>3 DEF cmd
  <2>5. toMotor'[m] = <<Outstanding'>>
    BY <1>3, <2>3, <2>4 DEF Outstanding
  <2>6. served'[m] # sends'
    BY <1>2, <1>3, <1>5
  <2> QED
    BY <1>3, <2>2, <2>5, <2>6
<1>7. OneAnswer' /\ NoAnswerToCome'
  BY <1>3, <1>4 DEF OneAnswer, NoOwnAnswer, NoAnswerToCome
<1>8. \A m \in Motors : served'[m] <= sends'
  BY <1>2, <1>3, <1>5
<1>9. status' = "none"
  BY <1>2, <1>3 DEF TimelyInv
<1>10. FreshAnswer'
  BY <1>9 DEF FreshAnswer
<1> QED
  BY <1>6, <1>7, <1>8, <1>9, <1>10 DEF InFlight, Bookkeeping

\* So do the other steps of the driver.
LEMMA DriverTimely ==
  ASSUME Timely, TimelyInv, TypeOK', Driver PROVE InFlight' /\ Bookkeeping'
<1>1. CASE Send
  BY <1>1, SendTimely
<1>2. CASE SendFails
  <2>1. ~Waiting /\ ~Waiting'
    BY <1>2 DEF SendFails, Raise, Waiting
  <2>2. NothingInFlight'
    BY <1>2, <2>1, StillOutside DEF SendFails, busVars, NothingInFlight, NoOwnAnswer
  <2>3. Bookkeeping'
    BY <1>2 DEF SendFails, Raise, busVars, motorVars, Bookkeeping, TimelyInv, FreshAnswer
  <2> QED
    BY <2>2, <2>3, StillIsFine DEF InFlight
<1>3. CASE Check
  <2>1. Waiting /\ UNCHANGED <<call, step, expired, response, sends, toMotor,
                              toHost, motor, served>>
    BY <1>3 DEF Check, Waiting, busVars, motorVars
  <2>2. CASE expired /\ Raise("timeout")
    <3>1. NothingInFlight'
      BY <2>1, <2>2, StillLate DEF NothingInFlight, NoOwnAnswer
    <3>2. Bookkeeping'
      BY <2>1, <2>2 DEF Raise, Bookkeeping, TimelyInv, FreshAnswer
    <3> QED
      BY <3>1, <3>2, StillIsFine DEF InFlight
  <2>3. CASE pc' = "receive" /\ UNCHANGED status
    <3>1. Waiting' /\ cmd' = cmd
      BY <2>1, <2>3 DEF Waiting, cmd
    <3>2. OneRequest' /\ OneAnswer' /\ NoAnswerToCome'
      BY <2>1, <3>1 DEF TimelyInv, OneRequest, OneAnswer, NoAnswerToCome,
                        NoOwnAnswer, Outstanding, AnswerTo, AnswerType, Quiet
    <3>3. pc # "idle"
      BY <2>1 DEF Waiting
    <3>4. Bookkeeping'
      BY <2>1, <2>3, <3>3 DEF Bookkeeping, TimelyInv, FreshAnswer
    <3> QED
      BY <3>2, <3>4 DEF InFlight
  <2> QED
    BY <1>3, <2>2, <2>3 DEF Check, DeadlinePassed
<1>4. CASE ReceiveTimesOut
  <2>1. Waiting /\ expired /\ Raise("timeout")
        /\ UNCHANGED <<call, response, sends, toMotor, toHost, served>>
    BY <1>4 DEF ReceiveTimesOut, Waiting, busVars, motorVars
  <2>2. NothingInFlight'
    BY <2>1, StillLate DEF NothingInFlight, NoOwnAnswer
  <2>3. Bookkeeping'
    BY <2>1 DEF Raise, Bookkeeping, TimelyInv, FreshAnswer
  <2> QED
    BY <2>2, <2>3, StillIsFine DEF InFlight
<1>5. CASE ReceiveFails
  BY <1>5 DEF ReceiveFails, Timely
<1>6. CASE Discard
  <2>1. PICK f \in First(toHost) :
          /\ Received(f) /\ ~FromThisMotor(f) /\ pc' = "check"
          /\ UNCHANGED <<step, response, status, last_feedback>>
    BY <1>6 DEF Discard
  <2>2. /\ pc = "receive" /\ toHost' = Tail(toHost)
        /\ UNCHANGED <<call, expired, sends, toMotor, motor, served>>
    BY <2>1 DEF Received, motorVars
  <2>3. toHost \in Seq(Answer)
    BY DEF TimelyInv, TypeOK
  <2>4. \A i \in DOMAIN toHost' : i \in Nat /\ i + 1 \in DOMAIN toHost
                                  /\ toHost'[i] = toHost[i + 1]
    BY <2>1, <2>2, <2>3, FirstOf
  <2>5. Waiting /\ Waiting' /\ cmd' = cmd
    BY <2>1, <2>2 DEF Waiting, cmd
  <2>6. NoOwnAnswer => NoOwnAnswer'
    BY <2>4 DEF NoOwnAnswer
  <2>7. OneRequest'
    BY <2>2, <2>5, <2>6 DEF TimelyInv, OneRequest, Outstanding
  <2>8. OneAnswer'
    <3> SUFFICES ASSUME NEW i \in DOMAIN toHost', toHost'[i].src \in Motors
                 PROVE  /\ served'[call'.m] = sends'
                        /\ toHost'[i] = AnswerTo(call'.m, motor'[call'.m],
                                                 Outstanding', toHost'[i].whole)
                        /\ \A j \in DOMAIN toHost' : toHost'[j].src \in Motors => j = i
      BY <2>5 DEF OneAnswer, AnswerTo, AnswerType, AnswerValue, ParamValue
    <3>1. i + 1 \in DOMAIN toHost /\ toHost'[i] = toHost[i + 1] /\ i \in Nat
      BY <2>4
    <3>2. /\ served[call.m] = sends
          /\ toHost[i + 1] = AnswerTo(call.m, motor[call.m], Outstanding,
                                       toHost[i + 1].whole)
          /\ \A j \in DOMAIN toHost : toHost[j].src \in Motors => j = i + 1
      BY <3>1 DEF TimelyInv, OneAnswer
    <3>3. ASSUME NEW j \in DOMAIN toHost', toHost'[j].src \in Motors PROVE j = i
      <4>1. j + 1 \in DOMAIN toHost /\ toHost'[j] = toHost[j + 1] /\ j \in Nat
        BY <2>4
      <4>2. j + 1 = i + 1
        BY <3>2, <3>3, <4>1
      <4> QED
        BY <3>1, <4>1, <4>2
    <3>4. Outstanding' = Outstanding
      BY <2>2, <2>5 DEF Outstanding
    <3> QED
      BY <2>2, <3>1, <3>2, <3>3, <3>4
  <2>9. NoAnswerToCome'
    <3> SUFFICES ASSUME expired PROVE Quiet(call.m)'
      BY <2>2 DEF NoAnswerToCome
    <3>1. Quiet(call.m)
      BY <2>5 DEF TimelyInv, NoAnswerToCome
    <3> QED
      BY <2>2, <2>4, <3>1 DEF Quiet
  <2>10. Bookkeeping'
    BY <2>1, <2>2 DEF Bookkeeping, TimelyInv, FreshAnswer
  <2> QED
    BY <2>7, <2>8, <2>9, <2>10 DEF InFlight
<1>7. CASE Overhear
  BY <1>7, TakeAnswer DEF Overhear
<1>8. CASE AcceptMalformed
  <2>1. PICK f \in First(toHost) :
          Received(f) /\ FromThisMotor(f) /\ Raise("malformed") /\ UNCHANGED response
    BY <1>8 DEF AcceptMalformed, Accepted
  <2>2. NothingInFlight'
    BY <2>1, TakeAnswer
  <2>3. Bookkeeping'
    BY <2>1 DEF Received, Raise, motorVars, Bookkeeping, TimelyInv, FreshAnswer
  <2> QED
    BY <2>2, <2>3, StillIsFine DEF InFlight
<1>9. CASE AcceptAndGoOn
  <2>1. PICK f \in First(toHost) :
          /\ Received(f) /\ FromThisMotor(f) /\ pc' = "send" /\ UNCHANGED status
    BY <1>9 DEF AcceptAndGoOn, Accepted
  <2>2. NothingInFlight'
    BY <2>1, TakeAnswer
  <2>3. status' = "none"
    BY <2>1 DEF Received, TimelyInv
  <2>4. Bookkeeping'
    BY <2>1, <2>3 DEF Received, motorVars, Bookkeeping, TimelyInv, FreshAnswer
  <2> QED
    BY <2>2, <2>4, StillIsFine DEF InFlight
<1>10. CASE AcceptAndReturn
  <2>1. PICK f \in First(toHost) :
          /\ Received(f) /\ FromThisMotor(f) /\ response' = f /\ pc' = "idle"
    BY <1>10 DEF AcceptAndReturn, Accepted
  <2>2. NothingInFlight' /\ f = AnswerTo(call.m, motor[call.m], Outstanding, f.whole)
    BY <2>1, TakeAnswer
  <2>3. f.src = call.m /\ f.re = sends
    BY <2>2 DEF AnswerTo, Outstanding
  <2>4. Bookkeeping'
    BY <2>1, <2>3 DEF Received, motorVars, Bookkeeping, TimelyInv, FreshAnswer
  <2> QED
    BY <2>2, <2>4, StillIsFine DEF InFlight
<1> QED
  BY <1>1, <1>2, <1>3, <1>4, <1>5, <1>6, <1>7, <1>8, <1>9, <1>10 DEF Driver

\* A motor that takes the outstanding command and is not heard of leaves
\* nothing in flight; one that answers leaves the one answer.
LEMMA MotorTimely ==
  ASSUME TimelyInv, TypeOK', NEW m \in Motors,
         MotorAnswers(m) \/ LoseAnswer(m) \/ LoseRequest(m)
  PROVE  InFlight' /\ Bookkeeping'
<1>1. PICK r \in First(toMotor[m]) : TRUE
  <2>1. CASE LoseRequest(m)
    <3>1. toMotor[m] \in Seq(Request) /\ toMotor[m] # <<>>
      BY <2>1 DEF LoseRequest, TimelyInv, TypeOK
    <3>2. toMotor[m][1] \in First(toMotor[m])
      BY <3>1 DEF First
    <3> QED
      BY <3>2
  <2> QED
    BY <2>1, Zenon DEF MotorAnswers, LoseAnswer
<1>2. /\ Waiting /\ m = call.m /\ r = Outstanding
      /\ Tail(toMotor[m]) = <<>> /\ served[m] # sends /\ NoOwnAnswer
      /\ \A n \in Motors : n # m => toMotor[n] = <<>>
  BY <1>1, RequestAtMotor
<1>3. \A x \in First(toMotor[m]) : x = Outstanding
  BY RequestAtMotor
<1>4. /\ UNCHANGED driverVars
      /\ toMotor' = [toMotor EXCEPT ![m] = Tail(@)]
  BY DEF MotorAnswers, LoseAnswer, LoseRequest, Handles
<1>5. /\ UNCHANGED <<pc, call, step, expired, response, status, sends>>
      /\ cmd' = cmd /\ Outstanding' = Outstanding /\ (Waiting <=> Waiting')
  BY <1>4 DEF driverVars, cmd, Outstanding, Waiting
<1>6. \A n \in Motors : toMotor'[n] = <<>>
  BY <1>2, <1>4 DEF TimelyInv, TypeOK
<1>7. served' = [served EXCEPT ![m] = sends] \/ served' = served
  <2>1. \A x \in First(toMotor[m]) : x.id = sends
    BY <1>3 DEF Outstanding
  <2>2. \/ \E x \in First(toMotor[m]) : served' = [served EXCEPT ![m] = x.id]
        \/ served' = served
    BY DEF MotorAnswers, LoseAnswer, LoseRequest, Handles, motorVars
  <2> QED
    BY <2>1, <2>2
<1>8. Bookkeeping'
  <2>1. sends \in Nat /\ served \in [Motors -> Nat]
    BY DEF TimelyInv, TypeOK
  <2>2. \A n \in Motors : served'[n] <= sends'
    BY <1>5, <1>7, <2>1 DEF TimelyInv
  <2> QED
    BY <1>5, <2>2 DEF Bookkeeping, TimelyInv, FreshAnswer
<1>9. CASE toHost' = toHost
  <2>1. NothingInFlight'
    BY <1>2, <1>6, <1>9 DEF NothingInFlight, NoOwnAnswer
  <2> QED
    BY <1>8, <2>1, StillIsFine DEF InFlight
<1>10. CASE MotorAnswers(m)
  <2>1. PICK s \in Outcomes(motor[m], cmd, Refusing), whole \in BOOLEAN :
          /\ Handles(m, Outstanding, s)
          /\ toHost' = Append(toHost, AnswerTo(m, s, Outstanding, whole))
    <3>1. PICK x \in First(toMotor[m]) : \E s \in Outcomes(motor[m], x.cmd, Refusing) :
            \E whole \in BOOLEAN :
              /\ Handles(m, x, s)
              /\ toHost' = Append(toHost, AnswerTo(m, s, x, whole))
      BY <1>10 DEF MotorAnswers
    <3>2. x = Outstanding /\ x.cmd = cmd
      BY <1>3 DEF Outstanding
    <3> QED
      BY <3>1, <3>2
  <2> DEFINE a == AnswerTo(m, s, Outstanding, whole)
  <2>2. motor'[m] = s /\ served'[m] = sends
    BY <2>1 DEF Handles, Outstanding, TimelyInv, TypeOK
  <2>3. toHost \in Seq(Answer)
    BY DEF TimelyInv, TypeOK
  <2>4. /\ Len(toHost') = Len(toHost) + 1 /\ toHost'[Len(toHost) + 1] = a
        /\ \A i \in DOMAIN toHost' :
             i = Len(toHost) + 1 \/ (i \in DOMAIN toHost /\ toHost'[i] = toHost[i])
    BY <2>1, <2>3
  <2>5. \A i \in DOMAIN toHost' : toHost'[i].src \in Motors => i = Len(toHost) + 1
    BY <1>2, <2>4 DEF NoOwnAnswer
  <2>6. OneAnswer'
    <3> SUFFICES ASSUME NEW i \in DOMAIN toHost', toHost'[i].src \in Motors
                 PROVE  /\ served'[call'.m] = sends'
                        /\ toHost'[i] = AnswerTo(call'.m, motor'[call'.m],
                                                 Outstanding', toHost'[i].whole)
                        /\ \A j \in DOMAIN toHost' : toHost'[j].src \in Motors => j = i
      BY <1>2, <1>5 DEF OneAnswer, AnswerTo, AnswerType, AnswerValue, ParamValue
    <3>1. toHost'[i] = a /\ a.whole = whole
      BY <2>4, <2>5 DEF AnswerTo
    <3> QED
      BY <1>2, <1>5, <2>2, <2>5, <3>1
  <2>7. OneRequest'
    BY <1>6 DEF OneRequest
  <2>8. NoAnswerToCome'
    <3>1. ~Quiet(call.m)
      BY <1>1, <1>2 DEF Quiet, First
    <3>2. ~expired
      BY <1>2, <3>1 DEF TimelyInv, NoAnswerToCome
    <3> QED
      BY <1>5, <3>2 DEF NoAnswerToCome
  <2> QED
    BY <1>8, <2>6, <2>7, <2>8 DEF InFlight
<1> QED
  BY <1>9, <1>10 DEF LoseAnswer, LoseRequest, motorVars

\* Frames of other devices change nothing of this.
LEMMA ForeignTimely == ASSUME TimelyInv, TypeOK', Foreign PROVE InFlight' /\ Bookkeeping'
<1>1. PICK f \in [src : {Other}, type : CommType, whole : BOOLEAN, re : Nat,
                  enabled : BOOLEAN, index : ParamIndex, value : Nat] :
        /\ toHost' = Append(toHost, f)
        /\ UNCHANGED <<driverVars, toMotor, motorVars>>
  <2>1. PICK type \in {"Feedback", "ReadParam"} : Unsolicited(Other, type, 0, TRUE)
    BY DEF Foreign
  <2>2. [src |-> Other, type |-> type, whole |-> TRUE, re |-> 0,
         enabled |-> TRUE, index |-> "none", value |-> 0]
          \in [src : {Other}, type : CommType, whole : BOOLEAN, re : Nat,
              enabled : BOOLEAN, index : ParamIndex, value : Nat]
    BY DEF CommType, ParamIndex
  <2> QED
    BY <2>1, <2>2 DEF Unsolicited
<1>2. f.src \notin Motors
  BY RobstrideMotorAssumption
<1>3. toHost \in Seq(Answer)
  BY DEF TimelyInv, TypeOK
<1>4. \A i \in DOMAIN toHost' : toHost'[i].src \in Motors =>
        i \in DOMAIN toHost /\ toHost'[i] = toHost[i]
  BY <1>1, <1>2, <1>3
<1>5. /\ UNCHANGED <<pc, call, step, expired, response, status, sends,
                     toMotor, motor, served>>
      /\ cmd' = cmd /\ Outstanding' = Outstanding /\ (Waiting <=> Waiting')
  BY <1>1 DEF driverVars, motorVars, cmd, Outstanding, Waiting
<1>6. OneRequest'
  BY <1>4, <1>5 DEF TimelyInv, OneRequest, NoOwnAnswer
<1>7. OneAnswer'
  <2> SUFFICES ASSUME NEW i \in DOMAIN toHost', toHost'[i].src \in Motors
               PROVE  /\ Waiting /\ served[call.m] = sends
                      /\ toHost'[i] = AnswerTo(call.m, motor[call.m], Outstanding,
                                               toHost'[i].whole)
                      /\ \A j \in DOMAIN toHost' : toHost'[j].src \in Motors => j = i
    BY <1>5 DEF OneAnswer, AnswerTo, AnswerType, AnswerValue, ParamValue
  <2> QED
    BY <1>4 DEF TimelyInv, OneAnswer
<1>8. NoAnswerToCome'
  <2> SUFFICES ASSUME expired, Waiting PROVE Quiet(call.m)'
    BY <1>5 DEF NoAnswerToCome
  <2>1. call.m \in Motors
    BY CmdType DEF TimelyInv, Waiting
  <2>2. Quiet(call.m)
    BY DEF TimelyInv, NoAnswerToCome
  <2> QED
    BY <1>4, <1>5, <2>1, <2>2 DEF Quiet
<1> QED
  BY <1>5, <1>6, <1>7, <1>8 DEF InFlight, Bookkeeping, TimelyInv, FreshAnswer

\* While answers are timely every step keeps the invariant.
LEMMA StepTimely == ASSUME Timely, TimelyInv, [Next]_vars PROVE TimelyInv'
<1>1. TypeOK'
  BY StepType DEF TimelyInv
<1>2. SUFFICES InFlight' /\ Bookkeeping'
  BY <1>1 DEF InFlight, Bookkeeping, TimelyInv
<1>3. ASSUME NEW c \in Calls, Invoke(c) PROVE InFlight' /\ Bookkeeping'
  <2>1. ~Waiting
    BY <1>3 DEF Invoke, Waiting
  <2>2. NothingInFlight'
    BY <1>3, <2>1, StillOutside DEF Invoke, busVars, NothingInFlight, NoOwnAnswer
  <2>3. Bookkeeping'
    BY <1>3 DEF Invoke, busVars, motorVars, Bookkeeping, TimelyInv, FreshAnswer
  <2> QED
    BY <1>1, <2>2, <2>3, StillIsFine DEF InFlight
<1>4. CASE Driver
  BY <1>1, <1>4, DriverTimely
<1>5. CASE Tick
  <2>1. /\ Quiet(call.m) /\ Waiting
        /\ UNCHANGED <<pc, call, step, response, status, sends, toMotor,
                       toHost, motor, served>>
    BY <1>5 DEF Tick, Timely, busVars, motorVars
  <2>2. Waiting' /\ cmd' = cmd /\ Outstanding' = Outstanding
    BY <2>1 DEF Waiting, cmd, Outstanding
  <2>3. InFlight'
    BY <2>1, <2>2 DEF InFlight, TimelyInv, OneRequest, OneAnswer, NoAnswerToCome,
                      NoOwnAnswer, AnswerTo, AnswerType, Quiet
  <2> QED
    BY <2>1, <2>3 DEF Bookkeeping, TimelyInv, FreshAnswer
<1>6. ASSUME NEW m \in Motors, MotorAnswers(m) \/ LoseAnswer(m) \/ LoseRequest(m)
      PROVE  InFlight' /\ Bookkeeping'
  BY <1>1, <1>6, MotorTimely
<1>7. ASSUME NEW m \in Motors, Report(m) \/ Rival(m) PROVE FALSE
  BY <1>7 DEF Report, Rival, Timely
<1>8. CASE Foreign
  BY <1>1, <1>8, ForeignTimely
<1>9. CASE Restart
  <2>1. /\ \A m \in Motors : toMotor[m] = <<>>
        /\ toHost' = <<>> /\ pc' = "idle" /\ status' = "none"
        /\ UNCHANGED <<sends, toMotor, motor, served>>
    BY <1>9 DEF Restart, Timely, motorVars
  <2>2. NothingInFlight'
    BY <2>1 DEF NothingInFlight, NoOwnAnswer
  <2>3. Bookkeeping'
    BY <2>1 DEF Bookkeeping, TimelyInv, FreshAnswer
  <2> QED
    BY <1>1, <2>2, <2>3, StillIsFine DEF InFlight
<1>10. CASE UNCHANGED vars
  BY <1>10 DEF vars, InFlight, Bookkeeping, TimelyInv, OneRequest, OneAnswer,
     NoAnswerToCome, NoOwnAnswer, Outstanding, AnswerTo, AnswerType, Quiet,
     Waiting, cmd, FreshAnswer
<1> QED
  BY <1>3, <1>4, <1>5, <1>6, <1>7, <1>8, <1>9, <1>10 DEF Next

\* Before the first command nothing is in flight.
LEMMA InitTimely == Init => TimelyInv
<1> SUFFICES ASSUME Init PROVE TimelyInv
  OBVIOUS
<1>1. TypeOK
  BY InitType
<1>2. /\ pc = "idle" /\ status = "none" /\ sends = 0 /\ toHost = <<>>
      /\ \A m \in Motors : toMotor[m] = <<>> /\ served[m] = 0
  BY DEF Init
<1>3. OneRequest /\ OneAnswer /\ NoAnswerToCome
  BY <1>2 DEF OneRequest, OneAnswer, NoAnswerToCome, Waiting
<1> QED
  BY <1>1, <1>2, <1>3 DEF TimelyInv, FreshAnswer

----------------------------------------------------------------------------
\* A call that returns normally returns the answer of its own last command,
\* if answers come in time or never, whatever is lost, refused, cut short or
\* sent by others.
THEOREM FreshAnswerTheorem == ASSUME Timely PROVE Spec => []FreshAnswer
<1>1. Init => TimelyInv
  BY InitTimely
<1>2. TimelyInv /\ [Next]_vars => TimelyInv'
  BY StepTimely
<1>3. TimelyInv => FreshAnswer
  BY DEF TimelyInv
<1> QED
  BY <1>1, <1>2, <1>3, PTL DEF Spec

----------------------------------------------------------------------------
\* The refinement of MotorService.

ServiceStep == [Service!Next]_(Service!vars)

\* What leaves the motors, the outstanding request and the reply alone is a
\* stutter of the service.
LEMMA StutterStep ==
  ASSUME UNCHANGED <<motor, call, step, sends, served, response>>,
         Waiting <=> Waiting'
  PROVE  ServiceStep
<1>1. UNCHANGED <<motor, request, obeyed, reply>>
  <2>1. cmd' = cmd
    BY DEF cmd
  <2>2. request' = request
    BY <2>1 DEF request
  <2>3. obeyed' = obeyed
    BY Zenon DEF obeyed
  <2>4. reply' = reply
    BY DEF reply
  <2> QED
    BY <2>2, <2>3, <2>4
<1> QED
  BY <1>1 DEF ServiceStep, Service!vars

\* The request of an exchange is one a user can issue.
LEMMA RequestIsReal ==
  ASSUME TypeOK, Waiting
  PROVE  /\ request \in [m : Motors, cmd : Service!Command] /\ request # NoRequest
         /\ request.m = call.m /\ request.cmd = cmd
<1>1. call.m \in Motors /\ cmd \in Command
  BY CmdType DEF Waiting
<1>2. call.m # Other
  BY <1>1, RobstrideMotorAssumption
<1>3. Service!Command = Command
  BY DEF Service!Command, Command, Service!CommType, CommType,
         Service!ParamIndex, ParamIndex
<1> QED
  BY <1>1, <1>2, <1>3 DEF request, NoRequest

\* The two modules say the same of what a command does to a motor.
LEMMA SameOutcomes ==
  ASSUME NEW s, NEW c
  PROVE  /\ Service!Outcomes(s, c, Refusing) = Outcomes(s, c, Refusing)
         /\ Service!AnswerValue(s, c) = AnswerValue(s, c)
BY DEF Service!Outcomes, Outcomes, Service!Obey, Obey,
       Service!AnswerValue, AnswerValue, Service!ParamValue, ParamValue

\* An exchange that ends without a reply.
LEMMA FailStep ==
  ASSUME TypeOK, Waiting, ~Waiting', UNCHANGED <<motor, response>>
  PROVE  ServiceStep
<1>1. request # NoRequest /\ request' = NoRequest
  BY RequestIsReal DEF request
<1>2. obeyed' = FALSE
  BY Zenon DEF obeyed
<1>3. UNCHANGED <<motor, reply>>
  BY DEF reply
<1> QED
  BY <1>1, <1>2, <1>3 DEF ServiceStep, Service!Next, Service!Fail

\* An exchange that ends with its answer.
LEMMA ReplyStep ==
  ASSUME TimelyInv, NEW f \in First(toHost), Received(f), FromThisMotor(f),
         response' = f, ~Waiting'
  PROVE  ServiceStep
<1>1. Waiting /\ UNCHANGED motor /\ TypeOK
  BY DEF Received, Waiting, motorVars, TimelyInv
<1>2. /\ f = AnswerTo(call.m, motor[call.m], Outstanding, f.whole)
      /\ served[call.m] = sends /\ f \in Answer
  BY TakeAnswer
<1>3. request # NoRequest /\ request' = NoRequest
      /\ request.m = call.m /\ request.cmd = cmd
  BY <1>1, RequestIsReal DEF request
<1>4. obeyed /\ obeyed' = FALSE
  <2>1. obeyed
    BY <1>1, <1>2 DEF obeyed
  <2>2. obeyed' = FALSE
    BY Zenon DEF obeyed
  <2> QED
    BY <2>1, <2>2
<1>5. response' # NoFrame
  BY <1>2, NoFrameAssumption
<1>6. reply' = [m |-> call.m, index |-> cmd.index,
                enabled |-> motor[call.m].enabled,
                value |-> AnswerValue(motor[call.m], cmd)]
  BY <1>2, <1>5 DEF reply, AnswerTo, Outstanding
<1> QED
  BY <1>1, <1>3, <1>4, <1>6, SameOutcomes DEF ServiceStep, Service!Next, Service!Reply

\* The driver implements the service.
LEMMA DriverImplements ==
  ASSUME Timely, TimelyInv, Driver PROVE ServiceStep
<1> TypeOK
  BY DEF TimelyInv
<1>1. CASE Send
  <2>1. /\ ~Waiting /\ Waiting' /\ call.m \in Motors /\ sends \in Nat
        /\ UNCHANGED <<call, step, response, motor, served>> /\ sends' = sends + 1
    BY <1>1, CmdType DEF Send, Waiting, motorVars, TypeOK
  <2>2. request = NoRequest
    BY <2>1 DEF request
  <2>3. request' \in [m : Motors, cmd : Service!Command]
    <3>1. cmd \in Command /\ cmd' = cmd
      BY <1>1, <2>1, CmdType DEF Send, cmd
    <3>2. Service!Command = Command
      BY DEF Service!Command, Command, Service!CommType, CommType,
             Service!ParamIndex, ParamIndex
    <3> QED
      BY <2>1, <3>1, <3>2 DEF request
  <2>4. obeyed' = FALSE
    <3>1. served[call.m] # sends + 1
      BY <2>1 DEF TimelyInv, TypeOK
    <3>2. served'[call'.m] # sends'
      BY <2>1, <3>1
    <3> QED
      BY <3>2, Zenon DEF obeyed
  <2>5. UNCHANGED <<motor, reply>>
    BY <2>1 DEF reply
  <2> QED
    BY <2>2, <2>3, <2>4, <2>5 DEF ServiceStep, Service!Next, Service!Issue
<1>2. CASE SendFails
  BY <1>2, StutterStep DEF SendFails, Raise, Waiting, motorVars
<1>3. CASE Check
  <2>1. CASE Raise("timeout")
    BY <1>3, <2>1, FailStep DEF Check, Raise, Waiting, motorVars
  <2>2. CASE pc' = "receive"
    BY <1>3, <2>2, StutterStep DEF Check, Waiting, motorVars
  <2> QED
    BY <1>3, <2>1, <2>2 DEF Check
<1>4. CASE ReceiveTimesOut
  BY <1>4, FailStep DEF ReceiveTimesOut, Raise, Waiting, motorVars
<1>5. CASE ReceiveFails
  BY <1>5 DEF ReceiveFails, Timely
<1>6. CASE Discard
  <2>1. PICK f \in First(toHost) :
          Received(f) /\ pc' = "check" /\ UNCHANGED <<step, response>>
    BY <1>6 DEF Discard
  <2> QED
    BY <2>1, StutterStep DEF Received, Waiting, motorVars
<1>7. CASE Overhear
  BY <1>7, TakeAnswer DEF Overhear
<1>8. CASE AcceptMalformed
  <2>1. PICK f \in First(toHost) :
          Received(f) /\ Raise("malformed") /\ UNCHANGED response
    BY <1>8 DEF AcceptMalformed, Accepted
  <2> QED
    BY <2>1, FailStep DEF Received, Raise, Waiting, motorVars
<1>9. CASE AcceptAndGoOn
  <2>1. PICK f \in First(toHost) :
          Received(f) /\ FromThisMotor(f) /\ response' = f /\ pc' = "send"
    BY <1>9 DEF AcceptAndGoOn, Accepted
  <2> QED
    BY <2>1, ReplyStep DEF Waiting
<1>10. CASE AcceptAndReturn
  <2>1. PICK f \in First(toHost) :
          Received(f) /\ FromThisMotor(f) /\ response' = f /\ pc' = "idle"
    BY <1>10 DEF AcceptAndReturn, Accepted
  <2> QED
    BY <2>1, ReplyStep DEF Waiting
<1> QED
  BY <1>1, <1>2, <1>3, <1>4, <1>5, <1>6, <1>7, <1>8, <1>9, <1>10 DEF Driver

\* A motor that handles a command takes the effect of the request.
LEMMA HandleImplements ==
  ASSUME TimelyInv, NEW m \in Motors, NEW r \in First(toMotor[m]),
         NEW s \in Outcomes(motor[m], r.cmd, Refusing), Handles(m, r, s)
  PROVE  ServiceStep
<1>1. Waiting /\ m = call.m /\ r = Outstanding /\ served[m] # sends
  BY RequestAtMotor
<1>2. /\ UNCHANGED <<pc, call, step, sends, response>>
      /\ motor' = [motor EXCEPT ![m] = s] /\ served' = [served EXCEPT ![m] = sends]
  BY <1>1 DEF Handles, driverVars, Outstanding
<1>3. cmd' = cmd /\ Waiting'
  BY <1>1, <1>2 DEF cmd, Waiting
<1>4. /\ request # NoRequest /\ request' = request /\ reply' = reply
      /\ request.m = m /\ request.cmd = cmd
  BY <1>1, <1>2, <1>3, RequestIsReal DEF TimelyInv, request, reply
<1>5. ~obeyed
  BY <1>1 DEF obeyed
<1>6. obeyed' = TRUE
  <2>1. served'[call'.m] = sends'
    BY <1>1, <1>2 DEF TimelyInv, TypeOK
  <2> QED
    BY <1>3, <2>1, Zenon DEF obeyed
<1>7. s \in Service!Outcomes(motor[request.m], request.cmd, Refusing)
  BY <1>1, <1>4, SameOutcomes DEF Outstanding
<1> QED
  BY <1>2, <1>4, <1>5, <1>6, <1>7 DEF ServiceStep, Service!Next, Service!TakeEffect

\* Every step of the driver, the motors, the bus and the clock is a step of
\* the service or none.
LEMMA StepImplements == ASSUME Timely, TimelyInv, [Next]_vars PROVE ServiceStep
<1>1. ASSUME NEW c \in Calls, Invoke(c) PROVE ServiceStep
  <2>1. ~Waiting /\ ~Waiting' /\ UNCHANGED <<motor, response>>
    BY <1>1 DEF Invoke, Waiting, motorVars
  <2>2. UNCHANGED <<motor, request, reply>>
    BY <2>1 DEF request, reply
  <2>3. obeyed' = obeyed
    BY <2>1, Zenon DEF obeyed
  <2> QED
    BY <2>2, <2>3 DEF ServiceStep, Service!vars
<1>2. CASE Driver
  BY <1>2, DriverImplements
<1>3. CASE Tick
  BY <1>3, StutterStep DEF Tick, Waiting, motorVars
<1>4. ASSUME NEW m \in Motors, MotorAnswers(m) PROVE ServiceStep
  BY <1>4, HandleImplements DEF MotorAnswers
<1>5. ASSUME NEW m \in Motors, LoseAnswer(m) PROVE ServiceStep
  BY <1>5, HandleImplements DEF LoseAnswer
<1>6. ASSUME NEW m \in Motors, LoseRequest(m) PROVE ServiceStep
  BY <1>6, StutterStep DEF LoseRequest, driverVars, motorVars, Waiting
<1>7. ASSUME NEW m \in Motors, Report(m) \/ Rival(m) PROVE ServiceStep
  BY <1>7 DEF Report, Rival, Timely
<1>8. CASE Foreign
  BY <1>8, StutterStep DEF Foreign, Unsolicited, driverVars, motorVars, Waiting
<1>9. CASE Restart
  <2>1. ~Waiting' /\ response' = NoFrame /\ UNCHANGED motor
    BY <1>9 DEF Restart, Waiting, motorVars
  <2>2. request' = NoRequest /\ reply' = NoReply
    BY <2>1 DEF request, reply
  <2>3. obeyed' = FALSE
    BY <2>1, Zenon DEF obeyed
  <2> QED
    BY <2>1, <2>2, <2>3 DEF ServiceStep, Service!Next, Service!Forget
<1>10. CASE UNCHANGED vars
  BY <1>10, StutterStep DEF vars, Waiting
<1> QED
  BY <1>1, <1>2, <1>3, <1>4, <1>5, <1>6, <1>7, <1>8, <1>9, <1>10 DEF Next

\* The initial states are the service's.
LEMMA InitImplements == Init => Service!Init
<1> SUFFICES ASSUME Init PROVE Service!Init
  OBVIOUS
<1>1. ~Waiting /\ response = NoFrame
  BY DEF Init, Waiting
<1>2. obeyed = FALSE
  BY <1>1, Zenon DEF obeyed
<1> QED
  BY <1>1, <1>2 DEF Init, Service!Init, request, reply

\* While answers are timely, driver, bus and motors implement MotorService:
\* one command is outstanding at a time, it is obeyed at most once and never
\* after its call has ended, and the reply is the state right after it.
THEOREM ServiceTheorem == ASSUME Timely PROVE Spec => ServiceSpec
<1>1. Init => TimelyInv /\ Service!Init
  BY InitTimely, InitImplements
<1>2. TimelyInv /\ [Next]_vars => TimelyInv'
  BY StepTimely
<1>3. TimelyInv /\ [Next]_vars => [Service!Next]_(Service!vars)
  BY StepImplements DEF ServiceStep
<1> QED
  BY <1>1, <1>2, <1>3, PTL DEF Spec, ServiceSpec, Service!Spec

----------------------------------------------------------------------------
\* What the calls achieve: the order of the commands of a call protects the
\* motor, and what a call returns is true of the motor when it returns.

\* The scripts.

\* Calls that promise a stopped motor; each starts by stopping it.
Stopping == {"disable", "set_run_mode", "set_mechanical_zero"}

\* A call of the application is one of the class, on one of its motors.
LEMMA CallFacts ==
  ASSUME NEW c \in Calls
  PROVE  /\ c \in Call /\ c.api \in Apis /\ c.m \in Motors
         /\ c.script \in Script(c.api) /\ c.script \in Seq(Command)
<1>1. PICK a \in Apis, m \in Motors :
        c \in {[api |-> a, m |-> m, script |-> s] : s \in Script(a)} /\ c \in Call
  BY DEF Calls
<1>2. PICK s \in Script(a) : c = [api |-> a, m |-> m, script |-> s]
  BY <1>1
<1> QED
  BY <1>1, <1>2 DEF Call

\* Scripts with the same commands in the same places are the same.
LEMMA SameSequence ==
  ASSUME NEW S, NEW s \in Seq(S), NEW t \in Seq(S), Len(s) = Len(t),
         \A i \in 1 .. Len(s) : s[i] = t[i]
  PROVE  s = t
OBVIOUS

\* Scripts of one command put one after the other.
LEMMA Tuples ==
  ASSUME NEW a, NEW b, NEW c
  PROVE  /\ <<a>> \o <<b>> = <<a, b>>
         /\ <<a>> \o <<b>> \o <<c>> = <<a, b, c>>
<1> DEFINE S == {a, b, c}
<1>1. /\ <<a>> \in Seq(S) /\ <<b>> \in Seq(S) /\ <<c>> \in Seq(S)
      /\ <<a, b>> \in Seq(S) /\ <<a, b, c>> \in Seq(S)
  OBVIOUS
<1> HIDE DEF S
<1>2. <<a>> \o <<b>> = <<a, b>>
  <2>1. /\ <<a>> \o <<b>> \in Seq(S) /\ Len(<<a>> \o <<b>>) = 2
        /\ \A i \in 1 .. 2 : (<<a>> \o <<b>>)[i] = <<a, b>>[i]
    BY <1>1
  <2> QED
    BY <1>1, <2>1, SameSequence
<1>3. <<a, b>> \o <<c>> = <<a, b, c>>
  <2>1. /\ <<a, b>> \o <<c>> \in Seq(S) /\ Len(<<a, b>> \o <<c>>) = 3
        /\ \A i \in 1 .. 3 : (<<a, b>> \o <<c>>)[i] = <<a, b, c>>[i]
    BY <1>1
  <2> QED
    BY <1>1, <2>1, SameSequence
<1> QED
  BY <1>2, <1>3

\* The calls that stop the motor.
LEMMA StoppingScripts ==
  ASSUME NEW c \in Calls
  PROVE  /\ c.api = "disable" => \E b \in BOOLEAN : c.script = <<make_stop_frame(b)>>
         /\ c.api = "set_run_mode" =>
              \E mode \in Modes :
                c.script = <<make_stop_frame(FALSE),
                             make_write_param_frame("run_mode", mode),
                             make_read_param_frame("run_mode")>>
         /\ c.api = "set_mechanical_zero" =>
              c.script = <<make_stop_frame(FALSE), make_set_mechanical_zero_frame>>
<1>1. c.script \in Script(c.api)
  BY CallFacts
<1>2. CASE c.api = "disable"
  BY <1>1, <1>2 DEF Script, disable
<1>3. CASE c.api = "set_run_mode"
  <2>1. PICK mode \in Modes : c.script = set_run_mode(mode)
    BY <1>1, <1>3 DEF Script
  <2> QED
    BY <1>3, <2>1, Tuples DEF set_run_mode, disable, write_param, get_run_mode,
                              read_param_uint8
<1>4. CASE c.api = "set_mechanical_zero"
  <2>1. c.script = set_mechanical_zero
    BY <1>1, <1>4 DEF Script
  <2> QED
    BY <1>4, <2>1, Tuples DEF set_mechanical_zero, disable
<1> QED
  BY <1>2, <1>3, <1>4

\* The position command sends its speed limit first.  The call exists only
\* where the model keeps track of both parameters.
LEMMA PositionScript ==
  ASSUME NEW c \in Calls, c.api = "send_position_csp_command"
  PROVE  /\ \E p, v \in Values :
              c.script = <<make_write_param_frame("limit_spd", v),
                           make_write_param_frame("loc_ref", p)>>
         /\ "limit_spd" \in FloatParams
<1>1. c.script \in Script(c.api) /\ c.script \in Seq(Command)
  BY CallFacts
<1>2. PICK p \in Values, v \in Values : c.script = send_position_csp_command(p, v)
  BY <1>1 DEF Script
<1>3. c.script = <<make_write_param_frame("limit_spd", v),
                   make_write_param_frame("loc_ref", p)>>
  BY <1>2, Tuples DEF send_position_csp_command, write_param
<1>4. c.script[1] \in Command /\ c.script[1].index = "limit_spd"
  BY <1>1, <1>3 DEF make_write_param_frame
<1>5. "limit_spd" \in FloatParams
  BY <1>4 DEF Command, ParamIndex
<1> QED
  BY <1>3, <1>5

\* Where in which scripts the commands are that need a stopped motor.
LEMMA DangerousCommands ==
  ASSUME NEW c \in Calls, NEW k \in 1 .. Len(c.script)
  PROVE  /\ c.script[k].type = "WriteParam" /\ c.script[k].index = "run_mode"
              => c.api = "set_run_mode" /\ k = 2
         /\ c.script[k].type = "SetMechanicalZero"
              => c.api = "set_mechanical_zero" /\ k = 2
<1>1. c.script \in Script(c.api)
  BY CallFacts
<1>2. "run_mode" \notin FloatParams
  BY FramesAssumption
<1> USE DEF make_enable_frame, make_set_mechanical_zero_frame,
            make_read_param_frame, make_write_param_frame, make_motion_control_frame
<1>3. CASE c.api = "enable"
  BY <1>1, <1>3 DEF Script, enable
<1>4. CASE c.api = "disable"
  <2>1. PICK b \in BOOLEAN : c.script = <<make_stop_frame(b)>>
    BY <1>4, StoppingScripts
  <2> QED
    BY <1>4, <2>1 DEF make_stop_frame
<1>5. CASE c.api = "set_run_mode"
  <2>1. PICK mode \in Modes :
          c.script = <<make_stop_frame(FALSE),
                       make_write_param_frame("run_mode", mode),
                       make_read_param_frame("run_mode")>>
    BY <1>5, StoppingScripts
  <2>2. k \in {1, 2, 3}
    BY <2>1
  <2>3. c.script[1].type = "Stop" /\ c.script[3].type = "ReadParam"
        /\ c.script[2].type = "WriteParam"
    BY <2>1 DEF make_stop_frame
  <2> QED
    BY <1>5, <2>2, <2>3
<1>6. CASE c.api = "get_run_mode"
  BY <1>1, <1>6 DEF Script, get_run_mode, read_param_uint8
<1>7. CASE c.api = "configure_velocity_mode"
  <2>1. PICK i \in Values, a \in Values : c.script = configure_velocity_mode(i, a)
    BY <1>1, <1>7 DEF Script
  <2>2. c.script = <<make_write_param_frame("limit_cur", i),
                     make_write_param_frame("acc_rad", a)>>
    BY <2>1, Tuples DEF configure_velocity_mode, write_param
  <2> QED
    BY <1>7, <2>2
<1>8. CASE c.api = "send_velocity_command"
  BY <1>1, <1>8 DEF Script, send_velocity_command, write_param
<1>9. CASE c.api = "send_position_csp_command"
  <2>1. PICK p, v \in Values :
          c.script = <<make_write_param_frame("limit_spd", v),
                       make_write_param_frame("loc_ref", p)>>
    BY <1>9, PositionScript
  <2> QED
    BY <1>9, <2>1
<1>10. CASE c.api = "send_motion_command"
  BY <1>1, <1>10 DEF Script, send_motion_command
<1>11. CASE c.api = "set_mechanical_zero"
  <2>1. c.script = <<make_stop_frame(FALSE), make_set_mechanical_zero_frame>>
    BY <1>11, StoppingScripts
  <2>2. k \in {1, 2}
    BY <2>1
  <2>3. c.script[1].type = "Stop" /\ c.script[2].type = "SetMechanicalZero"
    BY <2>1 DEF make_stop_frame
  <2> QED
    BY <1>11, <2>2, <2>3
<1>12. CASE c.api = "read_param_float"
  BY <1>1, <1>12 DEF Script, read_param_float
<1>13. CASE c.api = "write_param"
  BY <1>1, <1>2, <1>13 DEF Script, write_param
<1>14. ASSUME c.api \notin
         {"enable", "disable", "set_run_mode", "get_run_mode",
          "configure_velocity_mode", "send_velocity_command",
          "send_position_csp_command", "send_motion_command",
          "set_mechanical_zero", "read_param_float", "write_param"}
       PROVE FALSE
  BY <1>1, <1>14 DEF Script
<1> QED
  BY <1>3, <1>4, <1>5, <1>6, <1>7, <1>8, <1>9, <1>10, <1>11, <1>12, <1>13, <1>14

\* The calls that promise a stopped motor stop it first and never enable it.
LEMMA StoppingCommands ==
  ASSUME NEW c \in Calls, c.api \in Stopping
  PROVE  /\ c.script[1].type = "Stop"
         /\ \A k \in 1 .. Len(c.script) : c.script[k].type # "Enable"
<1> USE DEF make_stop_frame, make_set_mechanical_zero_frame,
            make_read_param_frame, make_write_param_frame
<1>1. CASE c.api = "disable"
  <2>1. PICK b \in BOOLEAN : c.script = <<make_stop_frame(b)>>
    BY <1>1, StoppingScripts
  <2> QED
    BY <2>1
<1>2. CASE c.api = "set_run_mode"
  <2>1. PICK mode \in Modes :
          c.script = <<make_stop_frame(FALSE),
                       make_write_param_frame("run_mode", mode),
                       make_read_param_frame("run_mode")>>
    BY <1>2, StoppingScripts
  <2>2. /\ c.script[1].type = "Stop" /\ c.script[2].type = "WriteParam"
        /\ c.script[3].type = "ReadParam" /\ Len(c.script) = 3
    BY <2>1
  <2>3. 1 .. Len(c.script) = {1, 2, 3}
    BY <2>2
  <2> QED
    BY <2>2, <2>3
<1>3. CASE c.api = "set_mechanical_zero"
  <2>1. c.script = <<make_stop_frame(FALSE), make_set_mechanical_zero_frame>>
    BY <1>3, StoppingScripts
  <2>2. /\ c.script[1].type = "Stop" /\ c.script[2].type = "SetMechanicalZero"
        /\ Len(c.script) = 2
    BY <2>1
  <2>3. 1 .. Len(c.script) = {1, 2}
    BY <2>2
  <2> QED
    BY <2>2, <2>3
<1> QED
  BY <1>1, <1>2, <1>3 DEF Stopping

\* The calls that read: the last command of their script is the read.
LEMMA ReadingScripts ==
  ASSUME NEW c \in Calls
  PROVE  /\ c.api = "set_run_mode" =>
              /\ Len(c.script) = 3
              /\ c.script[3].type = "ReadParam" /\ c.script[3].index = "run_mode"
         /\ c.api \in {"get_run_mode", "read_param_float"} =>
              Len(c.script) = 1 /\ c.script[1].type = "ReadParam"
<1>0. c.script \in Script(c.api)
  BY CallFacts
<1>1. CASE c.api = "set_run_mode"
  <2>1. PICK mode \in Modes :
          c.script = <<make_stop_frame(FALSE),
                       make_write_param_frame("run_mode", mode),
                       make_read_param_frame("run_mode")>>
    BY <1>1, StoppingScripts
  <2> QED
    BY <1>1, <2>1 DEF make_read_param_frame
<1>2. CASE c.api = "get_run_mode"
  <2>1. c.script = <<make_read_param_frame("run_mode")>>
    BY <1>0, <1>2 DEF Script, get_run_mode, read_param_uint8
  <2> QED
    BY <1>2, <2>1 DEF make_read_param_frame
<1>3. CASE c.api = "read_param_float"
  <2>1. PICK i \in FloatParams : c.script = <<make_read_param_frame(i)>>
    BY <1>0, <1>3 DEF Script, read_param_float
  <2> QED
    BY <1>3, <2>1 DEF make_read_param_frame
<1> QED
  BY <1>1, <1>2, <1>3

----------------------------------------------------------------------------
\* What one command does to a motor, and what it cannot do.
LEMMA OutcomeEffects ==
  ASSUME NEW s \in MotorState, NEW c \in Command, NEW refusing,
         NEW t \in Outcomes(s, c, refusing)
  PROVE  /\ t.run_mode # s.run_mode => c.type = "WriteParam" /\ c.index = "run_mode"
         /\ t.enabled => s.enabled \/ c.type = "Enable"
         /\ c.type = "Stop" => ~t.enabled
         /\ \A p \in FloatParams :
              t.params[p] = IF c.type = "WriteParam" /\ c.index = p
                            THEN c.value ELSE s.params[p]
<1>1. "run_mode" \notin FloatParams
  BY FramesAssumption
<1>2. CASE t = s /\ c.type = "WriteParam" /\ c.index = "run_mode"
  BY <1>1, <1>2
<1>3. CASE t = Obey(s, c)
  <2>1. CASE c.type = "Enable"
    BY <1>3, <2>1 DEF Obey, MotorState
  <2>2. CASE c.type = "Stop"
    BY <1>3, <2>2 DEF Obey, MotorState
  <2>3. CASE c.type = "WriteParam" /\ c.index = "run_mode"
    BY <1>1, <1>3, <2>3 DEF Obey, MotorState
  <2>4. CASE c.type = "WriteParam" /\ c.index # "run_mode" /\ c.index \in FloatParams
    BY <1>3, <2>4 DEF Obey, MotorState
  <2>5. CASE /\ c.type \notin {"Enable", "Stop"}
             /\ ~(c.type = "WriteParam" /\ c.index = "run_mode")
             /\ ~(c.type = "WriteParam" /\ c.index \in FloatParams)
    BY <1>3, <2>5 DEF Obey
  <2> QED
    BY <2>1, <2>2, <2>3, <2>4, <2>5
<1> QED
  BY <1>2, <1>3 DEF Outcomes

\* A motor acts on the outstanding command of the call in progress, once.
Obeys ==
  /\ Waiting /\ call.m \in Motors
  /\ Head(toMotor[call.m]) = Outstanding /\ served[call.m] # sends
  /\ UNCHANGED <<pc, call, step, response, status, sends>>
  /\ \E s \in Outcomes(motor[call.m], cmd, Refusing) :
       motor' = [motor EXCEPT ![call.m] = s]
  /\ served' = [served EXCEPT ![call.m] = sends]

\* Handling a command is obeying the outstanding one.
LEMMA HandlesObeys ==
  ASSUME TimelyInv, NEW m \in Motors, NEW r \in First(toMotor[m]),
         NEW s \in Outcomes(motor[m], r.cmd, Refusing), Handles(m, r, s)
  PROVE  Obeys
<1>1. Waiting /\ m = call.m /\ r = Outstanding /\ served[m] # sends
  BY RequestAtMotor
<1>2. r = Head(toMotor[m])
  BY FirstOf DEF TimelyInv, TypeOK
<1>3. r.cmd = cmd /\ r.id = sends
  BY <1>1 DEF Outstanding
<1> QED
  BY <1>1, <1>2, <1>3 DEF Obeys, Handles, driverVars

\* While answers are timely nothing else changes a motor.
LEMMA MotorStep ==
  ASSUME Timely, TimelyInv, [Next]_vars
  PROVE  UNCHANGED <<motor, served>> \/ Obeys
<1>1. ASSUME NEW c \in Calls, Invoke(c) PROVE UNCHANGED <<motor, served>>
  BY <1>1 DEF Invoke, motorVars
<1>2. CASE Driver
  BY <1>2 DEF Driver, Send, SendFails, Check, ReceiveTimesOut, ReceiveFails, Discard,
     Overhear, AcceptMalformed, AcceptAndGoOn, AcceptAndReturn, Accepted, Received,
     motorVars
<1>3. ASSUME NEW m \in Motors, MotorAnswers(m) \/ LoseAnswer(m) PROVE Obeys
  BY <1>3, HandlesObeys DEF MotorAnswers, LoseAnswer
<1>4. ASSUME NEW m \in Motors, Report(m) \/ Rival(m) PROVE FALSE
  BY <1>4 DEF Report, Rival, Timely
<1>5. ASSUME NEW m \in Motors, LoseRequest(m) PROVE UNCHANGED <<motor, served>>
  BY <1>5 DEF LoseRequest, motorVars
<1>6. CASE Tick \/ Foreign \/ Restart \/ UNCHANGED vars
  BY <1>6 DEF Tick, Foreign, Unsolicited, Restart, motorVars, vars
<1> QED
  BY <1>1, <1>2, <1>3, <1>4, <1>5, <1>6 DEF Next

----------------------------------------------------------------------------
\* The invariant.

\* The motor has obeyed command k of the call in progress, or of the call
\* that has just returned.
Obeyed(k) ==
  \/ status = "ok"
  \/ pc # "idle" /\ step > k
  \/ Waiting /\ step = k /\ served[call.m] = sends

\* What the first command of a call has done stays true until the call is
\* over, and after it if the call returned.
FirstCommandHolds ==
  /\ call.api \in Stopping /\ Obeyed(1) => ~motor[call.m].enabled
  /\ call.api = "send_position_csp_command" /\ Obeyed(1)
       => motor[call.m].params["limit_spd"] = call.script[1].value

CallInv ==
  /\ TimelyInv
  /\ call \in Calls \cup {NoCall}
  /\ pc # "idle" => call \in Calls
  /\ FirstCommandHolds
  /\ ModeOnReturn /\ ReadReturnsCurrent

\* The names of calls are names of the class's methods.
LEMMA RealCall ==
  ASSUME CallInv,
         \/ call.api \in Stopping \cup {"send_position_csp_command"}
         \/ pc # "idle"
  PROVE  call \in Calls
BY DEF CallInv, NoCall, Stopping

\* A step that changes no motor, and after which the first command has been
\* obeyed only if it had been before.
LEMMA MotorsStay ==
  ASSUME CallInv, TimelyInv', UNCHANGED <<motor, call>>,
         Obeyed(1)' => Obeyed(1),
         pc' # "idle" => pc # "idle",
         status' # "ok" \/ UNCHANGED <<status, response>>
  PROVE  CallInv'
<1>1. FirstCommandHolds'
  BY DEF CallInv, FirstCommandHolds
<1>2. ModeOnReturn' /\ ReadReturnsCurrent'
  <2>1. CASE status' # "ok"
    BY <2>1 DEF ModeOnReturn, ReadReturnsCurrent
  <2>2. CASE UNCHANGED <<status, response>>
    <3>1. \A i : ParamValue(motor[call.m], i)' = ParamValue(motor[call.m], i)
      BY DEF ParamValue
    <3> QED
      BY <2>2, <3>1 DEF CallInv, ModeOnReturn, ReadReturnsCurrent
  <2> QED
    BY <2>1, <2>2
<1> QED
  BY <1>1, <1>2 DEF CallInv

\* A call begins with nothing obeyed.
LEMMA InvokeCall ==
  ASSUME CallInv, TimelyInv', NEW c \in Calls, Invoke(c) PROVE CallInv'
<1>1. /\ pc' = "send" /\ call' = c /\ step' = 1 /\ status' = "none"
  BY DEF Invoke
<1>2. ~Obeyed(1)'
  BY <1>1 DEF Obeyed, Waiting
<1> QED
  BY <1>1, <1>2 DEF CallInv, FirstCommandHolds, ModeOnReturn, ReadReturnsCurrent

\* A motor that obeys the outstanding command.
LEMMA ObeysCall == ASSUME CallInv, TimelyInv', Obeys PROVE CallInv'
<1>1. PICK s \in Outcomes(motor[call.m], cmd, Refusing) :
        motor' = [motor EXCEPT ![call.m] = s]
  BY DEF Obeys
<1>2. /\ Waiting /\ pc # "idle" /\ call.m \in Motors /\ call \in Calls
      /\ UNCHANGED <<pc, call, step, response, status, sends>>
  BY RealCall DEF Obeys, Waiting
<1>3. /\ TypeOK /\ status = "none" /\ cmd \in Command
      /\ step \in 1 .. Len(call.script)
  BY <1>2, CmdType DEF CallInv, TimelyInv
<1>4. motor[call.m] \in MotorState /\ motor'[call'.m] = s
  BY <1>1, <1>2, <1>3 DEF TypeOK
<1>5. /\ s.enabled => motor[call.m].enabled \/ cmd.type = "Enable"
      /\ cmd.type = "Stop" => ~s.enabled
      /\ \A p \in FloatParams :
           s.params[p] = IF cmd.type = "WriteParam" /\ cmd.index = p
                         THEN cmd.value ELSE motor[call.m].params[p]
  BY <1>3, <1>4, OutcomeEffects
<1>6. step > 1 => Obeyed(1)
  BY <1>2 DEF Obeyed
<1>7. ASSUME call.api \in Stopping PROVE ~s.enabled
  <2>1. /\ call.script[1].type = "Stop" /\ cmd.type # "Enable"
    BY <1>2, <1>3, <1>7, StoppingCommands DEF cmd
  <2>2. CASE step = 1
    BY <1>5, <2>1, <2>2 DEF cmd
  <2>3. CASE step > 1
    BY <1>5, <1>6, <1>7, <2>1, <2>3 DEF CallInv, FirstCommandHolds
  <2> QED
    BY <1>3, <2>2, <2>3
<1>8. ASSUME call.api = "send_position_csp_command"
      PROVE  s.params["limit_spd"] = call.script[1].value
  <2>1. PICK p, v \in Values :
          call.script = <<make_write_param_frame("limit_spd", v),
                          make_write_param_frame("loc_ref", p)>>
    BY <1>2, <1>8, PositionScript
  <2>2. /\ "limit_spd" \in FloatParams /\ step \in {1, 2}
        /\ call.script[1].type = "WriteParam" /\ call.script[1].index = "limit_spd"
        /\ call.script[2].index = "loc_ref"
    <3>1. step \in {1, 2}
      BY <1>3, <2>1
    <3> QED
      BY <1>2, <1>8, <2>1, <3>1, PositionScript DEF make_write_param_frame
  <2>3. CASE step = 1
    BY <1>5, <2>2, <2>3 DEF cmd
  <2>4. CASE step = 2
    <3>1. motor[call.m].params["limit_spd"] = call.script[1].value
      BY <1>6, <1>8, <2>4 DEF CallInv, FirstCommandHolds
    <3> QED
      BY <1>5, <2>2, <2>4, <3>1 DEF cmd
  <2> QED
    BY <2>2, <2>3, <2>4
<1>9. FirstCommandHolds'
  BY <1>2, <1>4, <1>7, <1>8 DEF FirstCommandHolds
<1>10. ModeOnReturn' /\ ReadReturnsCurrent'
  BY <1>2, <1>3 DEF ModeOnReturn, ReadReturnsCurrent
<1> QED
  BY <1>2, <1>9, <1>10 DEF CallInv

\* Inside an exchange whose command is obeyed, so is the first one.
LEMMA AnsweredIsObeyed ==
  ASSUME TypeOK, Waiting, served[call.m] = sends PROVE Obeyed(1)
BY DEF TypeOK, Obeyed, Waiting

\* A call returns with its last command obeyed, and with what its answer says.
LEMMA ReturnCall ==
  ASSUME CallInv, TimelyInv', AcceptAndReturn PROVE CallInv'
<1>1. PICK f \in First(toHost) :
        /\ Received(f) /\ FromThisMotor(f) /\ step = Len(call.script)
        /\ response' = f /\ pc' = "idle" /\ status' = Verdict(f)
  BY DEF AcceptAndReturn, Accepted
<1>2. pc = "receive" /\ Waiting /\ TimelyInv /\ TypeOK
  BY <1>1 DEF Received, Waiting, CallInv, TimelyInv
<1>3. /\ f = AnswerTo(call.m, motor[call.m], Outstanding, f.whole)
      /\ served[call.m] = sends
  BY <1>1, <1>2, TakeAnswer
<1>4. f.index = cmd.index /\ f.value = AnswerValue(motor[call.m], cmd)
  BY <1>3 DEF AnswerTo, Outstanding
<1>5. UNCHANGED <<call, motor>> /\ call \in Calls
  BY <1>1, <1>2, RealCall DEF Received, motorVars
<1>6. Obeyed(1)
  BY <1>2, <1>3, AnsweredIsObeyed
<1>7. FirstCommandHolds'
  BY <1>5, <1>6 DEF CallInv, FirstCommandHolds
<1>8. ModeOnReturn'
  <2> SUFFICES ASSUME Verdict(f) = "ok", call.api = "set_run_mode"
               PROVE  motor[call.m].run_mode = call.script[2].value
    BY <1>1, <1>5 DEF ModeOnReturn
  <2>1. cmd.type = "ReadParam" /\ cmd.index = "run_mode"
    BY <1>1, <1>5, ReadingScripts DEF cmd
  <2>2. as_uint8(f) = motor[call.m].run_mode
    BY <1>4, <2>1 DEF as_uint8, AnswerValue, ParamValue
  <2>3. as_uint8(f) = call.script[2].value
    BY DEF Verdict
  <2> QED
    BY <2>2, <2>3
<1>9. ReadReturnsCurrent'
  <2> SUFFICES ASSUME call.api \in {"get_run_mode", "read_param_float"}
               PROVE  /\ f.index = call.script[1].index
                      /\ f.value = ParamValue(motor[call.m], call.script[1].index)
    BY <1>1, <1>5 DEF ReadReturnsCurrent, ParamValue
  <2>1. cmd = call.script[1] /\ cmd.type = "ReadParam"
    BY <1>1, <1>5, ReadingScripts DEF cmd
  <2> QED
    BY <1>4, <2>1 DEF AnswerValue
<1> QED
  BY <1>1, <1>5, <1>7, <1>8, <1>9 DEF CallInv

\* The driver keeps the invariant.
LEMMA DriverCall ==
  ASSUME Timely, CallInv, TimelyInv', Driver PROVE CallInv'
<1> USE DEF Obeyed, Waiting
<1>0. TypeOK /\ (pc # "idle" => status = "none")
  BY DEF CallInv, TimelyInv
<1>1. CASE Send
  <2>1. sends' # served'[call'.m]
    <3>1. call.m \in Motors /\ served[call.m] \in Nat /\ served[call.m] <= sends
          /\ sends \in Nat
      BY <1>0, <1>1, CmdType DEF Send, CallInv, TimelyInv, TypeOK
    <3> QED
      BY <1>1, <3>1 DEF Send, motorVars
  <2>2. Obeyed(1)' => Obeyed(1)
    BY <1>1, <2>1 DEF Send
  <2> QED
    BY <1>0, <1>1, <2>2, MotorsStay DEF Send, motorVars
<1>2. CASE SendFails \/ ReceiveTimesOut \/ AcceptMalformed
  <2>1. /\ pc' = "idle" /\ status' # "ok" /\ UNCHANGED <<motor, call>>
    BY <1>2 DEF SendFails, ReceiveTimesOut, AcceptMalformed, Accepted, Received,
                Raise, motorVars
  <2> QED
    BY <2>1, MotorsStay
<1>3. CASE Check
  <2>1. pc = "check" /\ UNCHANGED <<call, step, sends, motor, served>>
    BY <1>3 DEF Check, motorVars
  <2>2. \/ pc' = "idle" /\ status' # "ok"
        \/ pc' = "receive" /\ status' = status
    BY <1>3 DEF Check, Raise
  <2> QED
    BY <1>0, <2>1, <2>2, MotorsStay
<1>4. CASE ReceiveFails
  BY <1>4 DEF ReceiveFails, Timely
<1>5. CASE Discard
  <2>1. /\ pc = "receive" /\ pc' = "check"
        /\ UNCHANGED <<call, step, status, sends, motor, served>>
    BY <1>5 DEF Discard, Received, motorVars
  <2> QED
    BY <1>0, <2>1, MotorsStay
<1>6. CASE Overhear
  BY <1>6, TakeAnswer DEF Overhear, CallInv
<1>7. CASE AcceptAndGoOn
  <2>1. PICK f \in First(toHost) :
          /\ Received(f) /\ FromThisMotor(f) /\ pc' = "send" /\ UNCHANGED status
    BY <1>7 DEF AcceptAndGoOn, Accepted
  <2>2. pc = "receive" /\ UNCHANGED <<call, motor>> /\ served[call.m] = sends
    BY <2>1, TakeAnswer DEF Received, motorVars, CallInv
  <2>3. Obeyed(1)
    BY <1>0, <2>2, AnsweredIsObeyed
  <2> QED
    BY <1>0, <2>1, <2>2, <2>3, MotorsStay
<1>8. CASE AcceptAndReturn
  BY <1>8, ReturnCall
<1> QED
  BY <1>1, <1>2, <1>3, <1>4, <1>5, <1>6, <1>7, <1>8 DEF Driver

\* So does every step.
LEMMA StepCall == ASSUME Timely, CallInv, [Next]_vars PROVE CallInv'
<1>1. TimelyInv'
  BY StepTimely DEF CallInv
<1>2. ASSUME NEW c \in Calls, Invoke(c) PROVE CallInv'
  BY <1>1, <1>2, InvokeCall
<1>3. CASE Driver
  BY <1>1, <1>3, DriverCall
<1>4. CASE Obeys
  BY <1>1, <1>4, ObeysCall
<1>5. ASSUME NEW m \in Motors, MotorAnswers(m) \/ LoseAnswer(m) PROVE CallInv'
  BY <1>4, <1>5, HandlesObeys DEF MotorAnswers, LoseAnswer, CallInv
<1>6. ASSUME NEW m \in Motors, Report(m) \/ Rival(m) PROVE FALSE
  BY <1>6 DEF Report, Rival, Timely
<1>7. ASSUME \/ Tick \/ Foreign \/ UNCHANGED vars
             \/ \E m \in Motors : LoseRequest(m)
      PROVE  CallInv'
  <2>1. UNCHANGED <<pc, call, step, response, status, sends, motor, served>>
    BY <1>7 DEF Tick, Foreign, Unsolicited, LoseRequest, driverVars, motorVars, vars
  <2>2. Obeyed(1)' => Obeyed(1)
    BY <2>1 DEF Obeyed, Waiting
  <2> QED
    BY <1>1, <2>1, <2>2, MotorsStay
<1>8. CASE Restart
  <2>1. pc' = "idle" /\ status' = "none" /\ call' = NoCall
    BY <1>8 DEF Restart
  <2> QED
    BY <1>1, <2>1 DEF CallInv, FirstCommandHolds, ModeOnReturn, ReadReturnsCurrent,
       NoCall, Stopping
<1> QED
  BY <1>2, <1>3, <1>5, <1>6, <1>7, <1>8 DEF Next

\* No call has been made.
LEMMA InitCall == Init => CallInv
<1> SUFFICES ASSUME Init PROVE CallInv
  OBVIOUS
<1>1. TimelyInv
  BY InitTimely
<1>2. pc = "idle" /\ status = "none" /\ call = NoCall
  BY DEF Init
<1> QED
  BY <1>1, <1>2 DEF CallInv, FirstCommandHolds, ModeOnReturn, ReadReturnsCurrent,
     NoCall, Stopping

----------------------------------------------------------------------------
\* disable, set_run_mode and set_mechanical_zero leave the motor stopped when
\* they return, for whatever is lost, refused or cut short on the way.
THEOREM StoppedOnReturnTheorem == ASSUME Timely PROVE Spec => []StoppedOnReturn
<1>1. CallInv => StoppedOnReturn
  BY DEF CallInv, FirstCommandHolds, Obeyed, Stopping, StoppedOnReturn
<1>2. CallInv /\ [Next]_vars => CallInv'
  BY StepCall
<1> QED
  BY <1>1, <1>2, InitCall, PTL DEF Spec

\* set_run_mode returns only with the motor in the mode asked for, although
\* a motor may refuse the write of run_mode and still answer it.
THEOREM ModeOnReturnTheorem == ASSUME Timely PROVE Spec => []ModeOnReturn
<1>1. CallInv => ModeOnReturn
  BY DEF CallInv
<1>2. CallInv /\ [Next]_vars => CallInv'
  BY StepCall
<1> QED
  BY <1>1, <1>2, InitCall, PTL DEF Spec

\* What a parameter read returns is what the motor holds when it returns.
THEOREM ReadReturnsCurrentTheorem == ASSUME Timely PROVE Spec => []ReadReturnsCurrent
<1>1. CallInv => ReadReturnsCurrent
  BY DEF CallInv
<1>2. CallInv /\ [Next]_vars => CallInv'
  BY StepCall
<1> QED
  BY <1>1, <1>2, InitCall, PTL DEF Spec

\* A motor that obeys a command obeys the outstanding one of a call, and the
\* ones before it are obeyed.
LEMMA ObeyedInOrder ==
  ASSUME CallInv, Obeys
  PROVE  /\ call \in Calls /\ call.m \in Motors /\ cmd \in Command
         /\ step \in 1 .. Len(call.script) /\ cmd = call.script[step]
         /\ step = 2 => Obeyed(1)
         /\ Head(toMotor[call.m]).cmd = cmd
         /\ \A m \in Motors : m # call.m => motor'[m] = motor[m] /\ served'[m] = served[m]
<1>1. Waiting /\ pc # "idle" /\ call \in Calls
  BY RealCall DEF Obeys, Waiting
<1>2. TypeOK
  BY DEF CallInv, TimelyInv
<1>3. step = 2 => Obeyed(1)
  BY <1>1 DEF Obeyed
<1>4. \A m \in Motors : m # call.m => motor'[m] = motor[m] /\ served'[m] = served[m]
  BY <1>2 DEF Obeys, TypeOK
<1> QED
  BY <1>1, <1>2, <1>3, <1>4, CmdType DEF Obeys, Outstanding, cmd

\* No command reaches a running motor that would change its mode: set_run_mode
\* writes the mode only after its stop has been obeyed.
THEOREM ModeChangeTheorem == ASSUME Timely PROVE Spec => ModeChangeOnlyWhenStopped
<1>1. ASSUME CallInv, [Next]_vars, NEW m \in Motors,
             motor'[m].run_mode # motor[m].run_mode
      PROVE  ~motor[m].enabled
  <2>1. Obeys
    BY <1>1, MotorStep DEF CallInv
  <2>2. m = call.m /\ call \in Calls /\ cmd = call.script[step]
        /\ cmd \in Command /\ step \in 1 .. Len(call.script)
    BY <1>1, <2>1, ObeyedInOrder
  <2>3. PICK s \in Outcomes(motor[m], cmd, Refusing) : motor' = [motor EXCEPT ![m] = s]
    BY <2>1, <2>2 DEF Obeys
  <2>4. motor[m] \in MotorState /\ motor'[m] = s
    BY <1>1, <2>3 DEF CallInv, TimelyInv, TypeOK
  <2>5. cmd.type = "WriteParam" /\ cmd.index = "run_mode"
    BY <1>1, <2>2, <2>4, OutcomeEffects
  <2>6. call.api = "set_run_mode" /\ step = 2
    BY <2>2, <2>5, DangerousCommands
  <2> QED
    BY <1>1, <2>1, <2>2, <2>6, ObeyedInOrder DEF CallInv, FirstCommandHolds, Stopping
<1>2. CallInv /\ [Next]_vars
        => [\A m \in Motors :
              motor'[m].run_mode # motor[m].run_mode => ~motor[m].enabled]_vars
  BY <1>1
<1>3. CallInv /\ [Next]_vars => CallInv'
  BY StepCall
<1> QED
  BY <1>2, <1>3, InitCall, PTL DEF Spec, ModeChangeOnlyWhenStopped

\* A motor obeys a set-zero command only after the stop of the same call.
THEOREM ZeroTheorem == ASSUME Timely PROVE Spec => ZeroOnlyWhenStopped
<1>1. ASSUME CallInv, [Next]_vars, NEW m \in Motors, served'[m] # served[m],
             Head(toMotor[m]).cmd.type = "SetMechanicalZero"
      PROVE  ~motor[m].enabled
  <2>1. Obeys
    BY <1>1, MotorStep DEF CallInv
  <2>2. m = call.m /\ call \in Calls /\ cmd = call.script[step]
        /\ cmd.type = "SetMechanicalZero" /\ step \in 1 .. Len(call.script)
    BY <1>1, <2>1, ObeyedInOrder
  <2>3. call.api = "set_mechanical_zero" /\ step = 2
    BY <2>2, DangerousCommands
  <2> QED
    BY <1>1, <2>1, <2>2, <2>3, ObeyedInOrder DEF CallInv, FirstCommandHolds, Stopping
<1>2. CallInv /\ [Next]_vars
        => [\A m \in Motors :
              /\ served'[m] # served[m]
              /\ Head(toMotor[m]).cmd.type = "SetMechanicalZero"
              => ~motor[m].enabled]_vars
  BY <1>1
<1>3. CallInv /\ [Next]_vars => CallInv'
  BY StepCall
<1> QED
  BY <1>2, <1>3, InitCall, PTL DEF Spec, ZeroOnlyWhenStopped

\* A position target reaches the motor only when the speed limit of the same
\* send_position_csp_command is in force there.
THEOREM TargetUnderItsLimitTheorem == ASSUME Timely PROVE Spec => TargetUnderItsLimit
<1>1. ASSUME CallInv, [Next]_vars, NEW m \in Motors, served'[m] # served[m],
             call.api = "send_position_csp_command",
             Head(toMotor[m]).cmd.index = "loc_ref"
      PROVE  motor[m].params["limit_spd"] = call.script[1].value
  <2>1. Obeys
    BY <1>1, MotorStep DEF CallInv
  <2>2. m = call.m /\ call \in Calls /\ cmd = call.script[step]
        /\ cmd.index = "loc_ref" /\ step \in 1 .. Len(call.script)
    BY <1>1, <2>1, ObeyedInOrder
  <2>3. PICK p, v \in Values :
          call.script = <<make_write_param_frame("limit_spd", v),
                          make_write_param_frame("loc_ref", p)>>
    BY <1>1, <2>2, PositionScript
  <2>4. step \in {1, 2} /\ call.script[1].index = "limit_spd"
    BY <2>2, <2>3 DEF make_write_param_frame
  <2>5. step = 2
    BY <2>2, <2>4
  <2> QED
    BY <1>1, <2>1, <2>2, <2>5, ObeyedInOrder DEF CallInv, FirstCommandHolds
<1>2. CallInv /\ [Next]_vars
        => [\A m \in Motors :
              /\ served'[m] # served[m]
              /\ call.api = "send_position_csp_command"
              /\ Head(toMotor[m]).cmd.index = "loc_ref"
              => motor[m].params["limit_spd"] = call.script[1].value]_vars
  BY <1>1
<1>3. CallInv /\ [Next]_vars => CallInv'
  BY StepCall
<1> QED
  BY <1>2, <1>3, InitCall, PTL DEF Spec, TargetUnderItsLimit

============================================================================
