--------------------------- MODULE RunProfileProofs ---------------------------
(***************************************************************************)
(* Proofs about RunProfile for every response_timeout, sample period,      *)
(* number of extra reads, profile and speed of the shaft.                  *)
(***************************************************************************)
EXTENDS RunProfile, PositionUnwrapperProofs

USE PositionUnwrapperAssumption, RunProfileAssumption

----------------------------------------------------------------------------
\* The invariant.

ProfileTypeOK ==
  /\ shaft \in Int /\ moved \in Int /\ offset \in Int /\ travelled \in Int
  /\ last_wrapped \in (-Half .. Half) \cup {NoSample}
  /\ phase \in Phase /\ reads \in Reads
  /\ segment \in 0 .. Len(Durations) /\ left \in Int
  /\ cycle \in 0 .. Period /\ waited \in Nat /\ todo \in Int /\ gap \in Nat
  /\ answer \in Sample \cup {NoSample}
  /\ answer # NoSample <=> phase = "answered"
  /\ Exchanging => waited <= Timeout
  /\ phase \in {"sent", "answered"} => todo = reads
  /\ phase = "read" => todo \in 1 .. reads

\* How long the cycle has taken at most: each exchange before this one took
\* the timeout at most.
Elapsed ==
  CASE phase \in {"sent", "answered"} -> waited
    [] phase = "read" -> (1 + reads - todo) * Timeout + waited
    [] OTHER -> MaxCycle

\* A cycle that sleeps lasts until cycle_end, and `cycle` is its time as long
\* as that has not come; one whose exchanges outlast it does not sleep.
BeforeCycleEnd == (Exchanging \/ phase = "asleep") /\ cycle < Period

\* A segment is left only at the top of the loop, so no later than the cycle
\* in which its time ran out.
LeftInv ==
  /\ left >= 1 - Elapsed
  /\ BeforeCycleEnd => left >= 1 - cycle

\* The last sample update() got is from this cycle once there is one, and
\* from the cycle before until then.
GapInv ==
  /\ phase = "sent" => gap <= MaxCycle + waited
  /\ phase = "answered" =>
       /\ 0 <= answer.gap /\ answer.gap <= MaxGap
       /\ 0 <= gap - answer.gap /\ gap - answer.gap <= waited
  /\ phase \in {"read", "asleep", "top"} => gap <= Elapsed
  /\ BeforeCycleEnd /\ phase = "answered" => gap - answer.gap <= cycle
  /\ BeforeCycleEnd /\ phase \in {"read", "asleep"} => gap <= cycle

\* The shaft turns no more than d in t.
Within(d, t) == d <= Speed * t /\ -d <= Speed * t

\* The samples are the angle of the shaft when they were taken, give or take
\* whole turns of the range.
MotionInv ==
  /\ Within(moved, gap)
  /\ last_wrapped = NoSample => offset = 0
  /\ last_wrapped # NoSample =>
       \E k \in Int : shaft - moved = last_wrapped + k * span
  /\ phase = "answered" =>
       /\ answer.wrapped \in -Half .. Half
       /\ Within(answer.moved, answer.gap)
       /\ Within(moved - answer.moved, gap - answer.gap)
       /\ \E k \in Int : shaft - (moved - answer.moved) = answer.wrapped + k * span

ProfileInv ==
  ProfileTypeOK /\ LeftInv /\ GapInv /\ MotionInv /\ LoggedPositionExact

----------------------------------------------------------------------------
\* The longest cycle is as long as its exchanges may take, and as its period.
LEMMA MaxCycleBounds ==
  ASSUME ProfileTypeOK
  PROVE  /\ MaxCycle \in Nat /\ MaxCycle >= 1 /\ MaxGap = MaxCycle + Timeout
         /\ Period <= MaxCycle /\ (1 + reads) * Timeout <= MaxCycle
         /\ Timeout <= MaxCycle
         /\ Elapsed \in Nat /\ Elapsed <= MaxCycle
         /\ reads \in Nat
<1>1. reads \in Nat
  BY DEF ProfileTypeOK
<1>2. (1 + reads) * Timeout \in Nat /\ Timeout <= (1 + reads) * Timeout
  BY <1>1
<1>3. /\ MaxCycle \in Nat /\ MaxCycle >= 1 /\ MaxGap = MaxCycle + Timeout
      /\ Period <= MaxCycle /\ (1 + reads) * Timeout <= MaxCycle
  BY <1>2 DEF MaxCycle, MaxGap, longer
<1>4. Elapsed \in Nat /\ Elapsed <= MaxCycle
  <2>1. CASE phase \in {"sent", "answered"}
    <3>1. Elapsed = waited /\ waited \in Nat /\ waited <= Timeout
      BY <2>1 DEF Elapsed, ProfileTypeOK, Exchanging
    <3> QED
      BY <1>2, <1>3, <3>1
  <2>2. CASE phase = "read"
    <3>1. todo \in Nat /\ 1 <= todo /\ todo <= reads /\ waited \in Nat /\ waited <= Timeout
      BY <1>1, <2>2 DEF ProfileTypeOK, Exchanging
    <3>2. (1 + reads - todo) * Timeout + todo * Timeout = (1 + reads) * Timeout
      BY <1>1, <3>1
    <3>3. todo * Timeout >= Timeout /\ (1 + reads - todo) * Timeout \in Nat
      BY <1>1, <3>1
    <3>4. Elapsed = (1 + reads - todo) * Timeout + waited
      BY <2>2 DEF Elapsed
    <3> DEFINE before == (1 + reads - todo) * Timeout
               now == todo * Timeout
               most == (1 + reads) * Timeout
    <3>5. /\ before + now = most /\ now >= Timeout /\ before \in Nat /\ now \in Nat
          /\ most \in Nat /\ most <= MaxCycle /\ Elapsed = before + waited
      BY <1>2, <1>3, <3>1, <3>2, <3>3, <3>4
    <3> HIDE DEF before, now, most
    <3> QED
      BY <1>3, <3>1, <3>5
  <2>3. CASE phase \notin {"sent", "answered", "read"}
    BY <1>3, <2>3 DEF Elapsed
  <2> QED
    BY <2>1, <2>2, <2>3
<1> QED
  BY <1>1, <1>2, <1>3, <1>4

\* Time and speed.
LEMMA MoreTime ==
  ASSUME NEW t \in Nat, NEW d \in Int, NEW e \in {-Speed, 0, Speed}, Within(d, t)
  PROVE  Within(d + e, t + 1) /\ Within(0, t)
<1>1. Speed * (t + 1) = Speed * t + Speed /\ Speed * t \in Nat
  OBVIOUS
<1> QED
  BY <1>1 DEF Within

\* A shaft too slow for half the range in a time is too slow in less.
LEMMA TooSlow ==
  ASSUME NEW t \in Nat, NEW u \in Nat, t <= u, Speed * u < Half,
         NEW d \in Int, Within(d, t)
  PROVE  -Half < d /\ d < Half
<1>1. Speed * t <= Speed * u /\ Speed * u \in Nat /\ Speed * t \in Nat
  OBVIOUS
<1> QED
  BY <1>1 DEF Within

\* What update() adds to the offset.
LEMMA CorrectionValue ==
  ASSUME NEW w \in Int, last_wrapped \in Int \cup {NoSample}
  PROVE  /\ correction(w) \in Int
         /\ last_wrapped = NoSample => correction(w) = 0
         /\ last_wrapped # NoSample =>
              /\ 2 * (w - last_wrapped) > span => correction(w) = -span
              /\ 2 * (w - last_wrapped) < -span => correction(w) = span
              /\ ~(2 * (w - last_wrapped) > span) /\ ~(2 * (w - last_wrapped) < -span)
                   => correction(w) = 0
<1>1. span \in Int /\ span > 0
  BY DEF span
<1>2. CASE last_wrapped = NoSample
  BY <1>2 DEF correction
<1>3. CASE last_wrapped # NoSample
  BY <1>1, <1>3 DEF correction
<1> QED
  BY <1>2, <1>3

\* A bound on the time left, or on the age of a sample, is one for later.
LEMMA LaterBound ==
  ASSUME NEW l \in Int, NEW g \in Int, NEW e \in Int, NEW f \in Int, e <= f
  PROVE  /\ l >= 1 - e => l >= 1 - f
         /\ g <= e => g <= f
OBVIOUS

\* The new position is the old one plus the motion.
LEMMA Continues ==
  ASSUME NEW w \in Int, NEW last \in Int, NEW o \in Int, NEW c \in Int,
         NEW t \in Int, NEW d \in Int, d = w - last + c, last + o = t
  PROVE  w + (o + c) = t + d
OBVIOUS

----------------------------------------------------------------------------
\* Before the first cycle.
LEMMA InitProfile == ProfileInit => ProfileInv
<1> SUFFICES ASSUME ProfileInit PROVE ProfileInv
  OBVIOUS
<1>1. /\ shaft \in Int /\ last_wrapped = NoSample /\ offset = 0
      /\ moved = 0 /\ travelled = 0
      /\ reads \in Reads /\ phase = "top" /\ segment = 0 /\ left = 0
      /\ cycle = 0 /\ waited = 0 /\ todo = 0 /\ answer = NoSample /\ gap = 0
  BY DEF ProfileInit, Init
<1>2. ProfileTypeOK
  BY <1>1 DEF ProfileTypeOK, Phase, Exchanging
<1>3. MaxCycle \in Nat /\ MaxCycle >= 1 /\ Elapsed = MaxCycle
  BY <1>1, <1>2, MaxCycleBounds DEF Elapsed
<1>4. LeftInv /\ GapInv
  BY <1>1, <1>3 DEF LeftInv, GapInv, BeforeCycleEnd, Exchanging
<1>5. MotionInv /\ LoggedPositionExact
  BY <1>1 DEF MotionInv, LoggedPositionExact, Within, position
<1> QED
  BY <1>2, <1>4, <1>5 DEF ProfileInv

\* What the steps that neither pass time nor touch a sample leave alone.
LEMMA SamplesStay ==
  ASSUME ProfileInv, UNCHANGED <<vars, reads, answer, gap>>,
         phase' = "answered" => phase = "answered"
  PROVE  MotionInv' /\ LoggedPositionExact'
<1>1. UNCHANGED <<shaft, last_wrapped, offset, moved, travelled>> /\ MaxGap' = MaxGap
  BY DEF vars, MaxGap, MaxCycle
<1> QED
  BY <1>1 DEF ProfileInv, MotionInv, LoggedPositionExact, Within, position

\* Between the cycles.
LEMMA TopStep ==
  ASSUME ProfileInv, StartSegment \/ Finish \/ StartCycle
  PROVE  ProfileInv'
<1> USE DEF ProfileInv
<1>1. /\ MaxCycle \in Nat /\ MaxCycle >= 1 /\ Timeout <= MaxCycle
      /\ MaxGap = MaxCycle + Timeout /\ reads \in Nat
  BY MaxCycleBounds
<1>2. /\ phase = "top" /\ UNCHANGED <<vars, reads, answer, gap>>
      /\ phase' # "answered" /\ answer = NoSample /\ MaxCycle' = MaxCycle
  BY DEF StartSegment, Finish, StartCycle, NextSegment, timeVars, ProfileTypeOK, MaxCycle
<1>3. MotionInv' /\ LoggedPositionExact'
  BY <1>2, SamplesStay
<1>4. left >= 1 - MaxCycle /\ gap <= MaxCycle /\ left \in Int /\ gap \in Nat
  BY <1>2 DEF LeftInv, GapInv, Elapsed, ProfileTypeOK
<1>5. CASE StartSegment
  <2>1. /\ segment' = segment + 1 /\ segment < Len(Durations)
        /\ left' = Durations[segment + 1] /\ UNCHANGED <<phase, cycle, waited, todo>>
    BY <1>5 DEF StartSegment
  <2>2. left' \in Nat /\ left' >= 1 /\ segment' \in 0 .. Len(Durations)
    BY <2>1 DEF ProfileTypeOK
  <2>3. ProfileTypeOK'
    BY <1>2, <2>1, <2>2 DEF ProfileTypeOK, Exchanging, vars
  <2>4. Elapsed' = MaxCycle
    BY <1>2, <2>1 DEF Elapsed
  <2>5. LeftInv' /\ GapInv'
    BY <1>1, <1>2, <1>4, <2>1, <2>2, <2>4 DEF LeftInv, GapInv, BeforeCycleEnd, Exchanging
  <2> QED
    BY <1>3, <2>3, <2>5
<1>6. CASE Finish
  <2>1. /\ phase' = "done" /\ UNCHANGED <<segment, left, cycle, waited, todo>>
    BY <1>6 DEF Finish, timeVars
  <2>2. ProfileTypeOK'
    BY <1>2, <2>1 DEF ProfileTypeOK, Exchanging, Phase, vars
  <2>3. Elapsed' = MaxCycle
    BY <1>2, <2>1 DEF Elapsed
  <2>4. LeftInv' /\ GapInv'
    BY <1>1, <1>2, <1>4, <2>1, <2>3 DEF LeftInv, GapInv, BeforeCycleEnd, Exchanging
  <2> QED
    BY <1>3, <2>2, <2>4
<1>7. CASE StartCycle
  <2>1. /\ left >= 1 /\ phase' = "sent" /\ cycle' = 0 /\ waited' = 0
        /\ todo' = reads /\ left' = left /\ UNCHANGED segment
    BY <1>2, <1>4, <1>7 DEF StartCycle, NextSegment
  <2>2. ProfileTypeOK'
    BY <1>1, <1>2, <2>1 DEF ProfileTypeOK, Exchanging, Phase, vars
  <2>3. Elapsed' = 0
    BY <2>1 DEF Elapsed
  <2>4. LeftInv' /\ GapInv'
    BY <1>1, <1>2, <1>4, <2>1, <2>3 DEF LeftInv, GapInv, BeforeCycleEnd, Exchanging
  <2> QED
    BY <1>3, <2>2, <2>4
<1> QED
  BY <1>5, <1>6, <1>7

\* The motor takes the sample.
LEMMA MotorAnswersStep == ASSUME ProfileInv, MotorAnswers PROVE ProfileInv'
<1> USE DEF ProfileInv
<1>1. PICK w \in Wrapped(shaft) : answer' = [wrapped |-> w, moved |-> moved, gap |-> gap]
  BY DEF MotorAnswers
<1>2. /\ phase = "sent" /\ phase' = "answered"
      /\ UNCHANGED <<vars, reads, segment, left, cycle, gap, waited, todo>>
  BY DEF MotorAnswers, timeVars
<1>3. UNCHANGED <<shaft, last_wrapped, offset, moved, travelled>>
      /\ MaxCycle' = MaxCycle /\ MaxGap' = MaxGap
  BY <1>2 DEF vars, MaxCycle, MaxGap
<1>4. /\ answer'.wrapped = w /\ answer'.moved = moved /\ answer'.gap = gap
      /\ w \in -Half .. Half /\ moved \in Int /\ gap \in Nat /\ shaft \in Int
  BY <1>1 DEF Wrapped, ProfileTypeOK
<1>5. PICK k \in Int : shaft = w + k * span
  BY DEF Wrapped
<1>6. ProfileTypeOK'
  <2>1. answer' \in Sample
    BY <1>1, <1>4 DEF Sample
  <2>2. answer' # NoSample
    BY <2>1
  <2> QED
    BY <1>2, <1>3, <2>1, <2>2 DEF ProfileTypeOK, Exchanging, Phase
<1>7. waited \in Nat /\ waited <= Timeout /\ MaxGap = MaxCycle + Timeout
      /\ MaxCycle \in Nat
  BY <1>2, MaxCycleBounds DEF ProfileTypeOK, Exchanging
<1>8. LeftInv'
  BY <1>2 DEF LeftInv, Elapsed, BeforeCycleEnd, Exchanging
<1>9. GapInv'
  <2>1. gap <= MaxCycle + waited
    BY <1>2 DEF GapInv
  <2>2. cycle \in Nat
    BY DEF ProfileTypeOK
  <2> QED
    BY <1>2, <1>3, <1>4, <1>7, <2>1, <2>2 DEF GapInv, BeforeCycleEnd
<1>10. MotionInv'
  <2>1. Within(0, 0) /\ Within(moved, gap)
    BY <1>2 DEF Within, MotionInv
  <2>2. moved' - answer'.moved = 0 /\ gap' - answer'.gap = 0
    BY <1>2, <1>3, <1>4
  <2>3. /\ Within(moved, gap)' /\ Within(answer.moved, answer.gap)'
        /\ Within(moved - answer.moved, gap - answer.gap)'
    BY <1>2, <1>3, <1>4, <2>1, <2>2 DEF Within
  <2>4. (last_wrapped = NoSample => offset = 0)'
        /\ (last_wrapped # NoSample =>
              \E j \in Int : shaft - moved = last_wrapped + j * span)'
    BY <1>3 DEF MotionInv, span
  <2>5. shaft' - (moved' - answer'.moved) = answer'.wrapped + k * span
    BY <1>3, <1>4, <1>5, <2>2
  <2> QED
    BY <1>4, <2>3, <2>4, <2>5 DEF MotionInv, span
<1>11. LoggedPositionExact'
  BY <1>3 DEF LoggedPositionExact, position
<1> QED
  BY <1>6, <1>8, <1>9, <1>10, <1>11

\* update() gets a sample that lies behind, with what has been turned since.
LEMMA GetAnswerMotion ==
  ASSUME ProfileInv, GetAnswer
  PROVE  MotionInv' /\ LoggedPositionExact'
<1> USE DEF ProfileInv
<1> DEFINE w == answer.wrapped
           d == answer.moved
<1>1. /\ phase = "answered" /\ phase' # "answered"
      /\ offset' = offset + correction(w) /\ last_wrapped' = w
      /\ travelled' = IF last_wrapped = NoSample THEN w ELSE travelled + d
      /\ moved' = moved - d /\ gap' = gap - answer.gap
      /\ UNCHANGED <<shaft, reads>>
  BY DEF GetAnswer
<1>2. /\ w \in -Half .. Half /\ w \in Int /\ w # NoSample
      /\ d \in Int /\ Within(d, answer.gap)
      /\ Within(moved - d, gap - answer.gap)
      /\ answer.gap \in Int /\ 0 <= answer.gap /\ answer.gap <= MaxGap
  <2>1. answer \in Sample
    BY <1>1 DEF ProfileTypeOK
  <2> QED
    BY <1>1, <2>1 DEF MotionInv, GapInv, Sample
<1>3. PICK k \in Int : shaft - (moved - d) = w + k * span
  BY <1>1 DEF MotionInv
<1>4. /\ shaft \in Int /\ moved \in Int /\ offset \in Int /\ travelled \in Int
      /\ last_wrapped \in (-Half .. Half) \cup {NoSample} /\ span \in Int
  BY DEF ProfileTypeOK, span
<1> HIDE DEF w, d
<1>5. MotionInv'
  <2>1. Within(moved, gap)'
    BY <1>1, <1>2 DEF Within
  <2>2. shaft' - moved' = last_wrapped' + k * span'
    BY <1>1, <1>3 DEF span
  <2> QED
    BY <1>1, <1>2, <2>1, <2>2 DEF MotionInv
<1>6. LoggedPositionExact'
  <2>1. CASE last_wrapped = NoSample
    <3>1. offset = 0 /\ correction(w) = 0
      BY <2>1 DEF MotionInv, correction
    <3> QED
      BY <1>1, <1>2, <2>1, <3>1 DEF LoggedPositionExact, position
  <2>2. CASE ~(Speed * MaxGap < Half)
    BY <1>1, <2>2 DEF LoggedPositionExact, MaxGap, MaxCycle
  <2>3. CASE last_wrapped # NoSample /\ Speed * MaxGap < Half
    <3>1. last_wrapped \in -Half .. Half /\ last_wrapped \in Int
      BY <1>4, <2>3
    <3>2. PICK j \in Int : shaft - moved = last_wrapped + j * span
      BY <2>3 DEF MotionInv
    <3>3. -Half < d /\ d < Half
      <4>1. MaxGap \in Nat /\ answer.gap \in Nat
        BY <1>2, MaxCycleBounds
      <4> QED
        BY <1>2, <2>3, <4>1, TooSlow
    <3>4. d + last_wrapped = w + (k - j) * span
      <4>1. (shaft - (moved - d)) - d = last_wrapped + j * span
        BY <1>2, <1>4, <3>2
      <4>2. shaft - (moved - d) \in Int
        BY <1>2, <1>4
      <4> QED
        BY <1>2, <1>3, <1>4, <3>1, <4>1, <4>2, TurnsSubtract
    <3>5. /\ 2 * (w - last_wrapped) > span => d = w - last_wrapped - span
          /\ 2 * (w - last_wrapped) < -span => d = w - last_wrapped + span
          /\ ~(2 * (w - last_wrapped) > span) /\ ~(2 * (w - last_wrapped) < -span)
               => d = w - last_wrapped
      <4>1. k - j \in Int
        OBVIOUS
      <4> QED
        BY <1>2, <3>1, <3>3, <3>4, <4>1, CorrectionIsExact
    <3>6. d = w - last_wrapped + correction(w) /\ correction(w) \in Int
      <4>1. /\ correction(w) \in Int
            /\ 2 * (w - last_wrapped) > span => correction(w) = -span
            /\ 2 * (w - last_wrapped) < -span => correction(w) = span
            /\ ~(2 * (w - last_wrapped) > span) /\ ~(2 * (w - last_wrapped) < -span)
                 => correction(w) = 0
        BY <1>2, <2>3, <3>1, CorrectionValue
      <4>2. span \in Int /\ w \in Int /\ last_wrapped \in Int
        BY <1>2, <1>4, <3>1
      <4> QED
        BY <3>5, <4>1, <4>2
    <3>7. last_wrapped + offset = travelled
      BY <1>4, <2>3, <3>1 DEF LoggedPositionExact, position
    <3>8. w + (offset + correction(w)) = travelled + d
      <4>1. /\ offset \in Int /\ travelled \in Int /\ w \in Int /\ d \in Int
            /\ last_wrapped \in Int
        BY <1>2, <1>4, <3>1
      <4> QED
        BY <3>6, <3>7, <4>1, Continues
    <3> QED
      BY <1>1, <1>2, <2>3, <3>8 DEF LoggedPositionExact, position
  <2> QED
    BY <2>1, <2>2, <2>3
<1> QED
  BY <1>5, <1>6

\* After the exchange that sampled.
LEMMA GetAnswerStep == ASSUME ProfileInv, GetAnswer PROVE ProfileInv'
<1> USE DEF ProfileInv
<1>1. /\ phase = "answered" /\ phase' = IF todo > 0 THEN "read" ELSE "asleep"
      /\ offset' = offset + correction(answer.wrapped)
      /\ last_wrapped' = answer.wrapped
      /\ travelled' \in {answer.wrapped, travelled + answer.moved}
      /\ moved' = moved - answer.moved /\ gap' = gap - answer.gap
      /\ answer' = NoSample /\ waited' = 0
      /\ UNCHANGED <<shaft, reads, segment, left, cycle, todo>>
  BY DEF GetAnswer
<1>2. /\ answer \in Sample /\ todo = reads /\ waited \in Nat /\ waited <= Timeout
      /\ cycle \in Nat /\ left \in Int
      /\ offset \in Int /\ travelled \in Int /\ moved \in Int
      /\ last_wrapped \in Int \cup {NoSample}
  BY <1>1 DEF ProfileTypeOK, Exchanging
<1>3. /\ answer.wrapped \in -Half .. Half /\ answer.wrapped \in Int
      /\ answer.moved \in Int /\ correction(answer.wrapped) \in Int
  <2>1. answer.wrapped \in -Half .. Half /\ answer.moved \in Int
    BY <1>1, <1>2 DEF MotionInv, Sample
  <2> QED
    BY <1>2, <2>1, CorrectionValue
<1>4. /\ MaxCycle \in Nat /\ Timeout <= MaxCycle /\ reads \in Nat
      /\ MaxCycle' = MaxCycle
  BY <1>1, MaxCycleBounds DEF MaxCycle
<1>5. gap - answer.gap \in Nat /\ gap - answer.gap <= waited
  BY <1>1, <1>2 DEF GapInv, Sample, ProfileTypeOK
<1>6. ProfileTypeOK'
  <2>1. travelled' \in Int /\ offset' \in Int
    <3>1. travelled' = answer.wrapped \/ travelled' = travelled + answer.moved
      BY <1>1
    <3>2. travelled' \in Int
      BY <1>2, <1>3, <3>1
    <3>3. offset' \in Int
      BY <1>1, <1>2, <1>3
    <3> QED
      BY <3>2, <3>3
  <2>2. moved' \in Int /\ gap' \in Nat
    BY <1>1, <1>2, <1>3, <1>5
  <2>3. phase' \in {"read", "asleep"} /\ (phase' = "read" => todo' \in 1 .. reads')
    <3>1. phase' = (IF todo > 0 THEN "read" ELSE "asleep")
          /\ todo' = todo /\ reads' = reads
      BY <1>1
    <3> HIDE DEF ProfileInv
    <3> QED
      BY <1>2, <1>4, <3>1
  <2>4. /\ shaft' = shaft /\ reads' = reads /\ segment' = segment /\ left' = left
        /\ cycle' = cycle /\ waited' = 0 /\ todo' = todo
        /\ last_wrapped' \in -Half .. Half /\ answer' = NoSample
    BY <1>1, <1>3
  <2> QED
    BY <2>1, <2>2, <2>3, <2>4 DEF ProfileTypeOK, Exchanging, Phase
<1>7. waited <= Elapsed' /\ Elapsed' \in Nat
  <2>1. CASE todo > 0
    <3>1. Elapsed' = (1 + reads - todo) * Timeout + 0
      BY <1>1, <2>1 DEF Elapsed
    <3>2. 1 + reads - todo = 1
      BY <1>2, <1>4
    <3> QED
      BY <1>2, <3>1, <3>2
  <2>2. CASE ~(todo > 0)
    BY <1>1, <1>2, <1>4, <2>2 DEF Elapsed
  <2> QED
    BY <2>1, <2>2
<1>8. LeftInv'
  <2>1. left >= 1 - waited
    BY <1>1 DEF LeftInv, Elapsed
  <2> left' = left /\ left \in Int /\ waited \in Int /\ Elapsed' \in Int
    BY <1>1, <1>2, <1>7
  <2>2. left' >= 1 - Elapsed'
    BY <1>7, <2>1, LaterBound
  <2>3. BeforeCycleEnd' => BeforeCycleEnd
    BY <1>1 DEF BeforeCycleEnd, Exchanging
  <2> QED
    BY <1>1, <2>2, <2>3 DEF LeftInv
<1>9. GapInv'
  BY <1>1, <1>2, <1>5, <1>7 DEF GapInv, BeforeCycleEnd, Exchanging
<1> QED
  BY <1>6, <1>8, <1>9, GetAnswerMotion

\* A parameter is read.
LEMMA GetExtraStep == ASSUME ProfileInv, GetExtra PROVE ProfileInv'
<1> USE DEF ProfileInv
<1>1. /\ phase = "read" /\ phase' = IF todo > 1 THEN "read" ELSE "asleep"
      /\ todo' = todo - 1 /\ waited' = 0
      /\ UNCHANGED <<vars, reads, segment, left, cycle, gap, answer>>
  BY DEF GetExtra, timeVars
<1>2. /\ todo \in Nat /\ 1 <= todo /\ todo <= reads /\ waited \in Nat
      /\ waited <= Timeout /\ reads \in Nat /\ left \in Int /\ gap \in Nat
      /\ cycle \in Nat
  BY <1>1, MaxCycleBounds DEF ProfileTypeOK, Exchanging
<1>3. ProfileTypeOK'
  BY <1>1, <1>2 DEF ProfileTypeOK, Exchanging, Phase, vars
<1>4. MaxCycle \in Nat /\ MaxCycle' = MaxCycle /\ Elapsed <= MaxCycle /\ Elapsed \in Nat
  BY <1>1, MaxCycleBounds DEF MaxCycle
<1>5. Elapsed <= Elapsed' /\ Elapsed' \in Nat
  <2>1. CASE todo > 1
    <3>1. /\ Elapsed = (1 + reads - todo) * Timeout + waited
          /\ Elapsed' = (1 + reads - (todo - 1)) * Timeout + 0
      BY <1>1, <2>1 DEF Elapsed
    <3>2. (1 + reads - (todo - 1)) * Timeout = (1 + reads - todo) * Timeout + Timeout
      BY <1>2
    <3>3. (1 + reads - todo) * Timeout \in Nat
      BY <1>2
    <3> DEFINE before == (1 + reads - todo) * Timeout
    <3> HIDE DEF before
    <3>4. Elapsed = before + waited /\ Elapsed' = before + Timeout /\ before \in Nat
      BY <3>1, <3>2, <3>3 DEF before
    <3> QED
      BY <1>2, <3>4
  <2>2. CASE ~(todo > 1)
    BY <1>1, <1>4, <2>2 DEF Elapsed
  <2> QED
    BY <2>1, <2>2
<1>6. LeftInv' /\ GapInv'
  <2>1. left >= 1 - Elapsed /\ gap <= Elapsed
    BY <1>1 DEF LeftInv, GapInv
  <2> left \in Int /\ gap \in Int /\ Elapsed \in Int /\ Elapsed' \in Int
    BY <1>2, <1>4, <1>5
  <2>2. left >= 1 - Elapsed' /\ gap <= Elapsed'
    BY <1>5, <2>1, LaterBound
  <2>3. BeforeCycleEnd' => BeforeCycleEnd
    BY <1>1 DEF BeforeCycleEnd, Exchanging
  <2> QED
    BY <1>1, <2>2, <2>3 DEF LeftInv, GapInv
<1>7. MotionInv' /\ LoggedPositionExact'
  BY <1>1, SamplesStay
<1> QED
  BY <1>3, <1>6, <1>7

\* The end of a cycle, or of the capture.
LEMMA EndStep == ASSUME ProfileInv, TimesOut \/ WakeUp PROVE ProfileInv'
<1> USE DEF ProfileInv
<1>1. /\ phase' \in {"failed", "top"} /\ answer' = NoSample
      /\ phase' = "top" => phase = "asleep" /\ cycle = Period
      /\ UNCHANGED <<vars, reads, segment, left, cycle, gap, waited, todo>>
  BY DEF TimesOut, WakeUp, AfterTimeout, timeVars, ProfileTypeOK, CycleEnded
<1>2. ProfileTypeOK'
  BY <1>1 DEF ProfileTypeOK, Exchanging, Phase, vars
<1>3. /\ MaxCycle \in Nat /\ Elapsed \in Nat /\ Elapsed <= MaxCycle
      /\ Elapsed' = MaxCycle /\ left \in Int /\ gap \in Nat
  BY <1>1, MaxCycleBounds DEF MaxCycle, Elapsed, ProfileTypeOK
<1>4. LeftInv' /\ GapInv'
  BY <1>1, <1>3 DEF LeftInv, GapInv, BeforeCycleEnd, Exchanging
<1>5. MotionInv' /\ LoggedPositionExact'
  <2>1. UNCHANGED <<shaft, last_wrapped, offset, moved, travelled>> /\ MaxGap' = MaxGap
    BY <1>1 DEF vars, MaxGap, MaxCycle
  <2> QED
    BY <1>1, <2>1 DEF MotionInv, LoggedPositionExact, Within, position, span
<1> QED
  BY <1>2, <1>4, <1>5

\* Time passes in an exchange, or until the end of the cycle.
LEMMA TickTime == ASSUME ProfileInv, Tick PROVE LeftInv' /\ GapInv'
<1> USE DEF ProfileInv
<1>1. /\ (Exchanging /\ waited < Timeout) \/ (phase = "asleep" /\ cycle # Period)
      /\ waited' = waited + 1 /\ left' = left - 1 /\ gap' = gap + 1
      /\ cycle' = IF cycle < Period THEN cycle + 1 ELSE cycle
      /\ UNCHANGED <<phase, reads, todo, answer>>
  BY DEF Tick, CycleEnded
<1>2. /\ waited \in Nat /\ left \in Int /\ gap \in Nat /\ cycle \in Nat
      /\ cycle <= Period /\ Period \in Nat
      /\ phase = "answered" => answer.gap \in Int
  BY DEF ProfileTypeOK, Sample
<1>3. /\ MaxCycle \in Nat /\ Period <= MaxCycle /\ MaxCycle' = MaxCycle
      /\ MaxGap' = MaxGap
  BY <1>1, MaxCycleBounds DEF MaxCycle, MaxGap
<1>4. BeforeCycleEnd' => BeforeCycleEnd /\ cycle' = cycle + 1
  <2>1. (Exchanging \/ phase = "asleep")' => (Exchanging \/ phase = "asleep")
    BY <1>1 DEF Exchanging
  <2>2. cycle' < Period => cycle < Period /\ cycle' = cycle + 1
    BY <1>1, <1>2
  <2> QED
    BY <2>1, <2>2 DEF BeforeCycleEnd
<1>5. CASE phase \in {"sent", "answered"}
  <2>1. Elapsed = waited /\ Elapsed' = waited + 1
    BY <1>1, <1>5 DEF Elapsed
  <2>2. left >= 1 - waited /\ (BeforeCycleEnd => left >= 1 - cycle)
    BY <2>1 DEF LeftInv
  <2>3. LeftInv'
    BY <1>1, <1>2, <1>4, <2>1, <2>2 DEF LeftInv
  <2>4. GapInv'
    BY <1>1, <1>2, <1>3, <1>4, <1>5 DEF GapInv
  <2> QED
    BY <2>3, <2>4
<1>6. CASE phase = "read"
  <2>1. PICK before \in Int : Elapsed = before + waited /\ Elapsed' = before + (waited + 1)
    <3>1. (1 + reads - todo) * Timeout \in Int
      BY <1>6, MaxCycleBounds DEF ProfileTypeOK
    <3>2. /\ Elapsed = (1 + reads - todo) * Timeout + waited
          /\ Elapsed' = (1 + reads - todo) * Timeout + (waited + 1)
      BY <1>1, <1>6 DEF Elapsed
    <3> QED
      BY <3>1, <3>2
  <2>2. /\ left >= 1 - (before + waited) /\ gap <= before + waited
        /\ BeforeCycleEnd => left >= 1 - cycle /\ gap <= cycle
    BY <1>6, <2>1 DEF LeftInv, GapInv
  <2>3. LeftInv'
    BY <1>1, <1>2, <1>4, <2>1, <2>2 DEF LeftInv
  <2>4. GapInv'
    BY <1>1, <1>2, <1>4, <1>6, <2>1, <2>2 DEF GapInv
  <2> QED
    BY <2>3, <2>4
<1>7. CASE phase = "asleep"
  <2>1. Elapsed' = MaxCycle /\ cycle < Period /\ BeforeCycleEnd
    BY <1>1, <1>2, <1>3, <1>7 DEF Elapsed, BeforeCycleEnd, Exchanging
  <2>2. left >= 1 - cycle /\ gap <= cycle
    BY <1>7, <2>1 DEF LeftInv, GapInv
  <2>3. LeftInv'
    BY <1>1, <1>2, <1>3, <1>4, <2>1, <2>2 DEF LeftInv
  <2>4. GapInv'
    BY <1>1, <1>2, <1>3, <1>4, <1>7, <2>1, <2>2 DEF GapInv
  <2> QED
    BY <2>3, <2>4
<1> QED
  BY <1>1, <1>5, <1>6, <1>7 DEF Exchanging

\* And the shaft turns.
LEMMA TickStep == ASSUME ProfileInv, Tick PROVE ProfileInv'
<1> USE DEF ProfileInv
<1>1. PICK d \in {-Speed, 0, Speed} :
        /\ shaft' = shaft + d
        /\ moved' = IF last_wrapped = NoSample /\ answer = NoSample
                    THEN 0 ELSE moved + d
  BY DEF Tick
<1>2. /\ waited' = waited + 1 /\ left' = left - 1 /\ gap' = gap + 1
      /\ cycle' = IF cycle < Period THEN cycle + 1 ELSE cycle
      /\ Exchanging => waited < Timeout
      /\ UNCHANGED <<last_wrapped, offset, travelled, reads, phase, segment, todo, answer>>
  BY DEF Tick, Exchanging
<1>3. /\ d \in Int /\ shaft \in Int /\ moved \in Int /\ gap \in Nat
      /\ waited \in Nat /\ cycle \in 0 .. Period /\ left \in Int
  BY DEF ProfileTypeOK
<1>4. ProfileTypeOK'
  <2>1. shaft' \in Int /\ moved' \in Int /\ gap' \in Nat /\ left' \in Int
    BY <1>1, <1>2, <1>3
  <2>2. cycle' \in 0 .. Period /\ waited' \in Nat /\ (Exchanging => waited' <= Timeout)
    BY <1>2, <1>3
  <2> QED
    BY <1>2, <2>1, <2>2 DEF ProfileTypeOK, Exchanging
<1>5. MotionInv'
  <2>1. Within(moved, gap)
    BY DEF MotionInv
  <2>2. Within(moved, gap)'
    <3>1. Within(moved + d, gap + 1) /\ Within(0, gap + 1)
      BY <1>3, <2>1, MoreTime DEF Within
    <3> QED
      BY <1>1, <1>2, <3>1 DEF Within
  <2>3. last_wrapped # NoSample \/ answer # NoSample => shaft' - moved' = shaft - moved
    BY <1>1, <1>3
  <2>4. (last_wrapped = NoSample => offset = 0)'
        /\ (last_wrapped # NoSample =>
              \E k \in Int : shaft - moved = last_wrapped + k * span)'
    BY <1>2, <2>3 DEF MotionInv, span
  <2>5. ASSUME phase = "answered"
        PROVE  /\ answer'.wrapped \in -Half .. Half
               /\ Within(answer.moved, answer.gap)'
               /\ Within(moved - answer.moved, gap - answer.gap)'
               /\ (\E k \in Int : shaft - (moved - answer.moved) = answer.wrapped + k * span)'
    <3>1. answer \in Sample /\ answer # NoSample
      BY <2>5 DEF ProfileTypeOK
    <3>2. moved' = moved + d /\ answer.moved \in Int /\ answer.gap \in Int
      BY <1>1, <3>1 DEF Sample
    <3>3. gap - answer.gap \in Nat
      BY <1>3, <2>5, <3>2 DEF GapInv
    <3>4. /\ moved' - answer'.moved = (moved - answer.moved) + d
          /\ gap' - answer'.gap = (gap - answer.gap) + 1
          /\ shaft' - (moved' - answer'.moved) = shaft - (moved - answer.moved)
          /\ moved - answer.moved \in Int
      <4>1. /\ answer'.moved = answer.moved /\ answer'.gap = answer.gap
            /\ moved' = moved + d /\ shaft' = shaft + d /\ gap' = gap + 1
        BY <1>1, <1>2, <3>2
      <4>2. /\ (moved + d) - answer.moved = (moved - answer.moved) + d
            /\ (gap + 1) - answer.gap = (gap - answer.gap) + 1
            /\ (shaft + d) - ((moved + d) - answer.moved) = shaft - (moved - answer.moved)
            /\ moved - answer.moved \in Int
        BY <1>3, <3>2
      <4> QED
        BY <4>1, <4>2
    <3>5. Within((moved - answer.moved) + d, (gap - answer.gap) + 1)
      <4>1. Within(moved - answer.moved, gap - answer.gap)
        BY <2>5 DEF MotionInv
      <4> QED
        BY <3>3, <3>4, <4>1, MoreTime
    <3>6. Within(moved' - answer'.moved, gap' - answer'.gap)
      BY <3>4, <3>5
    <3>7. PICK k \in Int : shaft - (moved - answer.moved) = answer.wrapped + k * span
      BY <2>5 DEF MotionInv
    <3>8. shaft' - (moved' - answer'.moved) = answer'.wrapped + k * span
      BY <1>2, <3>4, <3>7
    <3>9. Within(answer.moved, answer.gap)'
      BY <1>2, <2>5 DEF MotionInv, Within
    <3> QED
      BY <1>2, <2>5, <3>6, <3>8, <3>9 DEF MotionInv, Within, span
  <2> QED
    BY <1>2, <2>2, <2>4, <2>5 DEF MotionInv
<1>6. LoggedPositionExact'
  BY <1>2 DEF LoggedPositionExact, position, MaxGap, MaxCycle
<1> QED
  BY <1>4, <1>5, <1>6, TickTime

\* Every step keeps the invariant.
LEMMA StepProfile ==
  ASSUME ProfileInv, [ProfileNext]_profileVars PROVE ProfileInv'
<1>1. CASE UNCHANGED profileVars
  BY <1>1 DEF profileVars, vars, ProfileInv, ProfileTypeOK, LeftInv, GapInv, MotionInv,
     LoggedPositionExact, Exchanging, Elapsed, BeforeCycleEnd, Within, MaxCycle,
     MaxGap, position, span
<1> QED
  BY <1>1, TopStep, MotorAnswersStep, GetAnswerStep, GetExtraStep, EndStep, TickStep
     DEF ProfileNext, Program

----------------------------------------------------------------------------
\* Two samples the unwrapper gets one after the other are taken at most the
\* longest cycle and one response_timeout apart.
THEOREM GapBoundedTheorem == ProfileSpec => []GapBounded
<1>1. ProfileInv => GapBounded
  BY DEF ProfileInv, ProfileTypeOK, GapInv, GapBounded
<1>2. ProfileInv /\ [ProfileNext]_profileVars => ProfileInv'
  BY StepProfile
<1> QED
  BY <1>1, <1>2, InitProfile, PTL DEF ProfileSpec

\* The position that is logged is the motion of the shaft, turn for turn, if
\* the shaft cannot turn half the encoding range in that time.
THEOREM LoggedPositionExactTheorem == ProfileSpec => []LoggedPositionExact
<1>1. ProfileInv => LoggedPositionExact
  BY DEF ProfileInv
<1>2. ProfileInv /\ [ProfileNext]_profileVars => ProfileInv'
  BY StepProfile
<1> QED
  BY <1>1, <1>2, InitProfile, PTL DEF ProfileSpec

\* What is left of a segment and what it has been held for make up its duration.
HeldInv == segment > 0 => held = Durations[segment] - left

\* What is left of a segment is more than a cycle's overtime.
LEMMA Overtime ==
  ASSUME ProfileInv
  PROVE  left \in Int /\ MaxCycle \in Nat /\ left > -MaxCycle
<1>1. /\ left \in Int /\ left >= 1 - Elapsed
      /\ Elapsed \in Nat /\ Elapsed <= MaxCycle /\ MaxCycle \in Nat
  BY MaxCycleBounds DEF ProfileInv, ProfileTypeOK, LeftInv
<1> QED
  BY <1>1

\* So the clock of the segment is never stopped by its bound.
LEMMA StepHeld ==
  ASSUME ProfileInv, HeldInv, [ProfileNext]_profileVars
  PROVE  HeldInv'
<1>1. /\ left \in Int /\ MaxCycle \in Nat /\ left > -MaxCycle
      /\ segment \in 0 .. Len(Durations)
  BY Overtime DEF ProfileInv, ProfileTypeOK
<1>2. CASE UNCHANGED <<segment, left, held>>
  BY <1>2 DEF HeldInv
<1>3. CASE StartSegment
  <2>1. /\ segment' = segment + 1 /\ segment < Len(Durations)
        /\ left' = Durations[segment + 1] /\ held' = 0
    BY <1>3 DEF StartSegment
  <2>2. Durations[segment + 1] \in Nat
    BY <1>1, <2>1
  <2> QED
    BY <2>1, <2>2 DEF HeldInv
<1>4. CASE Tick
  <2>1. /\ left' = left - 1 /\ segment' = segment
        /\ held' = IF held < Durations[segment] + MaxCycle THEN held + 1 ELSE held
    BY <1>4 DEF Tick
  <2>2. ASSUME segment > 0 PROVE held' = Durations[segment] - left'
    <3> DEFINE d == Durations[segment]
    <3>1. d \in Nat /\ held = d - left
      BY <1>1, <2>2 DEF HeldInv
    <3> HIDE DEF d
    <3>2. held < d + MaxCycle
      BY <1>1, <3>1
    <3>3. held' = held + 1
      BY <2>1, <3>2 DEF d
    <3> QED
      BY <1>1, <2>1, <3>1, <3>3 DEF d
  <2> QED
    BY <2>1, <2>2 DEF HeldInv
<1>5. ASSUME ~StartSegment, ~Tick PROVE UNCHANGED <<segment, left, held>>
  BY <1>5 DEF ProfileNext, Program, Finish, StartCycle, GetAnswer, GetExtra, TimesOut,
              WakeUp, MotorAnswers, timeVars, profileVars
<1> QED
  BY <1>2, <1>3, <1>4, <1>5

\* A target is held for its whole duration, and less than a cycle more, before
\* the program goes on to the next or ends.
THEOREM SegmentHeldTheorem == ProfileSpec => SegmentHeld
<1>1. ProfileInit => HeldInv
  BY DEF ProfileInit, HeldInv
<1>2. ProfileInv /\ [ProfileNext]_profileVars => ProfileInv'
  BY StepProfile
<1>3. ProfileInv /\ HeldInv /\ [ProfileNext]_profileVars => HeldInv'
  BY StepHeld
<1>4. ProfileInv /\ HeldInv /\ [ProfileNext]_profileVars =>
        [segment > 0 /\ (segment' # segment \/ phase' = "done")
           => Durations[segment] <= held /\ held < Durations[segment] + MaxCycle]_profileVars
  <2> SUFFICES ASSUME ProfileInv, HeldInv, [ProfileNext]_profileVars,
                      segment > 0, segment' # segment \/ phase' = "done",
                      profileVars' # profileVars
               PROVE  Durations[segment] <= held /\ held < Durations[segment] + MaxCycle
    OBVIOUS
  <2>1. StartSegment \/ Finish
    <3>1. ProfileNext /\ phase # "done"
      BY DEF ProfileNext, Program, StartSegment, Finish, StartCycle, GetAnswer, GetExtra,
             TimesOut, WakeUp, MotorAnswers, Tick, NextSegment, Exchanging
    <3> QED
      BY <3>1 DEF ProfileNext, Program, StartCycle, GetAnswer, GetExtra, TimesOut, WakeUp,
                  MotorAnswers, Tick, AfterTimeout
  <2>2. left <= 0
    BY <2>1 DEF StartSegment, Finish, NextSegment
  <2>3. /\ left \in Int /\ MaxCycle \in Nat /\ left > -MaxCycle
        /\ segment \in 0 .. Len(Durations)
    BY Overtime DEF ProfileInv, ProfileTypeOK
  <2>4. Durations[segment] \in Nat /\ held = Durations[segment] - left
    BY <2>3 DEF HeldInv
  <2> QED
    BY <2>2, <2>3, <2>4
<1> QED
  BY <1>1, <1>2, <1>3, <1>4, InitProfile, PTL DEF ProfileSpec, SegmentHeld

============================================================================
