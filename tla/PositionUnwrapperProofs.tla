----------------------- MODULE PositionUnwrapperProofs -----------------------
(***************************************************************************)
(* Proofs about PositionUnwrapper for every encoding range, every bound on *)
(* the motion between samples, and every track.                            *)
(***************************************************************************)
EXTENDS PositionUnwrapper, TLAPS

\* Until the zero changes, the last sample is the angle the shaft had then,
\* give or take whole turns of the range.
SampleIsModuloSpan ==
    last_wrapped # NoSample /\ ~rezeroed
      => \E k \in Int : shaft - moved = last_wrapped + k * span

FreshTrack == last_wrapped = NoSample => offset = 0

IInv == TypeOK /\ Tracks /\ FreshTrack /\ SampleIsModuloSpan

----------------------------------------------------------------------------
\* Two samples less than half a range of motion apart: the correction is
\* exactly the number of ranges between their raw difference and the motion.
LEMMA CorrectionIsExact ==
  ASSUME PositionUnwrapperAssumption,
         NEW m \in Int, -Half < m, m < Half,
         NEW v \in -Half .. Half, NEW w \in -Half .. Half,
         NEW k \in Int, m + v = w + k * span
  PROVE  /\ 2 * (w - v) > span => m = w - v - span
         /\ 2 * (w - v) < -span => m = w - v + span
         /\ ~(2 * (w - v) > span) /\ ~(2 * (w - v) < -span) => m = w - v
<1> USE DEF PositionUnwrapperAssumption, span
<1>1. m = w - v + 2 * (k * Half)
  OBVIOUS
<1>2. CASE k = 0
  BY <1>1, <1>2
<1>3. CASE k = 1
  BY <1>1, <1>3
<1>4. CASE k = -1
  BY <1>1, <1>4
<1>5. CASE k >= 2
  <2>1. k * Half >= 2 * Half
    BY <1>5
  <2> QED
    BY <1>1, <2>1
<1>6. CASE k <= -2
  <2>1. k * Half <= -2 * Half
    BY <1>6
  <2> QED
    BY <1>1, <2>1
<1> QED
  BY <1>2, <1>3, <1>4, <1>5, <1>6

\* Angles that are whole turns away from two others.
LEMMA TurnsSubtract ==
  ASSUME NEW a \in Int, NEW m \in Int, NEW v \in Int, NEW w \in Int,
         NEW k \in Int, NEW j \in Int, NEW p \in Int,
         a = w + k * p, a - m = v + j * p
  PROVE  m + v = w + (k - j) * p
<1>1. (k - j) * p = k * p - j * p
  OBVIOUS
<1>2. k * p \in Int /\ j * p \in Int
  OBVIOUS
<1> QED
  BY <1>1, <1>2

\* The invariant holds before the first sample.
LEMMA InitIInv == ASSUME PositionUnwrapperAssumption PROVE Init => IInv
<1> SUFFICES ASSUME Init PROVE IInv
  OBVIOUS
<1>1. TypeOK
  <2>1. rezeroed \in BOOLEAN
    BY Zenon DEF Init
  <2>2. moved \in -MaxMotion .. MaxMotion
    BY DEF PositionUnwrapperAssumption, Init
  <2>3. outrun \in BOOLEAN
    BY Zenon DEF Init
  <2> QED
    BY <2>1, <2>2, <2>3 DEF Init, TypeOK
<1>2. Tracks /\ FreshTrack /\ SampleIsModuloSpan
  BY DEF Init, Tracks, position, FreshTrack, SampleIsModuloSpan
<1> QED
  BY <1>1, <1>2 DEF IInv

\* update keeps it.
LEMMA UpdateIInv ==
  ASSUME PositionUnwrapperAssumption, IInv, update
  PROVE  IInv'
<1> USE DEF PositionUnwrapperAssumption, IInv
<1>1. PICK w \in Wrapped(shaft) :
        /\ ~rezeroed
        /\ offset' = offset + correction(w)
        /\ last_wrapped' = w
        /\ moved' = 0
        /\ travelled' = IF last_wrapped = NoSample THEN w ELSE travelled + moved
        /\ outrun' = (outrun \/ ~SlowEnough)
        /\ UNCHANGED <<shaft, rezeroed>>
  BY DEF update
<1>2. PICK k \in -Range .. Range : shaft = w + k * span
  BY DEF Wrapped
<1>3. w \in -Half .. Half /\ w \in Int /\ w # NoSample
  BY DEF Wrapped
<1>4. k \in Int /\ shaft \in Int /\ moved \in Int /\ offset \in Int
  BY DEF TypeOK
<1>5. correction(w) \in Int
  BY DEF correction, span
<1>6. TypeOK'
  <2>1. travelled' \in Int
    BY <1>1, <1>3 DEF TypeOK
  <2>2. outrun' \in BOOLEAN
    BY <1>1, Zenon
  <2> QED
    BY <1>1, <1>3, <1>5, <2>1, <2>2 DEF TypeOK
<1>7. SampleIsModuloSpan'
  BY <1>1, <1>2, <1>3, <1>4 DEF SampleIsModuloSpan, span
<1>8. Tracks'
  <2>1. CASE last_wrapped = NoSample
    BY <1>1, <1>3, <2>1 DEF Tracks, position, FreshTrack, correction
  <2>2. CASE outrun'
    BY <2>2 DEF Tracks
  <2>3. CASE last_wrapped # NoSample /\ ~outrun'
    <3> ~outrun /\ SlowEnough
      BY <1>1, <2>3
    <3>1. PICK j \in Int : shaft - moved = last_wrapped + j * span
      BY <1>1, <2>3 DEF SampleIsModuloSpan
    <3>2. last_wrapped \in -Half .. Half
      BY <2>3 DEF TypeOK
    <3>3. moved + last_wrapped = w + (k - j) * span
      <4>1. shaft - moved = last_wrapped + j * span
        BY <3>1
      <4>2. span \in Int /\ last_wrapped \in Int
        BY <3>2 DEF span
      <4> QED
        BY <1>2, <1>3, <1>4, <4>1, <4>2, TurnsSubtract
    <3>4. -Half < moved /\ moved < Half
      BY <1>4 DEF SlowEnough, span
    <3>5. moved = w - last_wrapped + correction(w)
      <4>1. k - j \in Int
        BY <1>4
      <4> HIDE DEF PositionUnwrapperAssumption
      <4>2. /\ 2 * (w - last_wrapped) > span => moved = w - last_wrapped - span
            /\ 2 * (w - last_wrapped) < -span => moved = w - last_wrapped + span
            /\ ~(2 * (w - last_wrapped) > span) /\ ~(2 * (w - last_wrapped) < -span)
                 => moved = w - last_wrapped
        BY CorrectionIsExact, <1>3, <1>4, <3>2, <3>3, <3>4, <4>1
      <4>3. span \in Int /\ w \in Int /\ last_wrapped \in Int
        BY <1>3, <3>2 DEF PositionUnwrapperAssumption, span
      <4> QED
        BY <2>3, <4>2, <4>3, <1>4 DEF correction
    <3>6. last_wrapped + offset = travelled
      <4>1. last_wrapped + offset \in Int
        BY <1>4, <3>2
      <4> QED
        BY <2>3, <4>1 DEF Tracks, position
    <3>7. w + (offset + correction(w)) = travelled + moved
      BY <3>5, <3>6, <1>3, <1>4, <1>5, <3>2 DEF TypeOK
    <3> QED
      BY <1>1, <1>3, <2>3, <3>7 DEF Tracks, position
  <2> QED
    BY <2>1, <2>2, <2>3
<1>9. FreshTrack'
  BY <1>1, <1>3 DEF FreshTrack
<1> QED
  BY <1>6, <1>7, <1>8, <1>9

\* So does every step of the class, its caller and the shaft.
LEMMA StepIInv ==
  ASSUME PositionUnwrapperAssumption, IInv, [Next]_vars
  PROVE  IInv'
<1> USE DEF IInv
<1>1. ASSUME NEW d \in {-1, 1}, Turn(d) PROVE IInv'
  <2>1. TypeOK'
    BY <1>1 DEF PositionUnwrapperAssumption, Turn, TypeOK
  <2>2. Tracks' /\ FreshTrack'
    BY <1>1 DEF Turn, Tracks, position, FreshTrack
  <2>3. last_wrapped # NoSample => shaft' - moved' = shaft - moved
    BY <1>1 DEF Turn, TypeOK
  <2>4. SampleIsModuloSpan'
    BY <1>1, <2>3 DEF Turn, SampleIsModuloSpan, span
  <2> QED
    BY <2>1, <2>2, <2>4
<1>2. CASE update
  BY <1>2, UpdateIInv
<1>3. CASE reset
  <2>1. moved' \in -MaxMotion .. MaxMotion
    BY <1>3 DEF PositionUnwrapperAssumption, reset
  <2>2. last_wrapped' = NoSample /\ offset' = 0
    BY <1>3 DEF reset
  <2>3. UNCHANGED <<shaft, travelled>>
    BY <1>3 DEF reset
  <2>4. rezeroed' \in BOOLEAN /\ outrun' \in BOOLEAN
    BY <1>3, Zenon DEF reset
  <2> QED
    BY <2>1, <2>2, <2>3, <2>4 DEF TypeOK, Tracks, position, FreshTrack, SampleIsModuloSpan
<1>4. CASE ReZero
  <2>1. shaft' \in -Range .. Range
    BY <1>4 DEF PositionUnwrapperAssumption, ReZero
  <2>2. rezeroed' /\ UNCHANGED <<last_wrapped, offset, moved, travelled, outrun>>
    BY <1>4 DEF ReZero
  <2> QED
    BY <2>1, <2>2 DEF TypeOK, Tracks, position, FreshTrack, SampleIsModuloSpan
<1>5. CASE UNCHANGED vars
  BY <1>5 DEF vars, TypeOK, Tracks, position, FreshTrack, SampleIsModuloSpan
<1> QED
  BY <1>1, <1>2, <1>3, <1>4, <1>5 DEF Next

----------------------------------------------------------------------------
\* The last sample is one of the encoding range, and the offset is a whole
\* number, whatever the shaft does.
THEOREM TypeTheorem == Spec => []TypeOK
<1>1. Init => IInv
  BY InitIInv, PositionUnwrapperAssumption
<1>2. IInv /\ [Next]_vars => IInv'
  BY StepIInv, PositionUnwrapperAssumption
<1>3. IInv => TypeOK
  BY DEF IInv
<1> QED
  BY <1>1, <1>2, <1>3, PTL DEF Spec

\* position() is the first sample plus the whole motion since, for every
\* track in which no two samples are half a range of motion or more apart.
THEOREM TracksTheorem == Spec => []Tracks
<1>1. Init => IInv
  BY InitIInv, PositionUnwrapperAssumption
<1>2. IInv /\ [Next]_vars => IInv'
  BY StepIInv, PositionUnwrapperAssumption
<1>3. IInv => Tracks
  BY DEF IInv
<1> QED
  BY <1>1, <1>2, <1>3, PTL DEF Spec

\* Consecutive positions of a track are at most half a range apart, whatever
\* the shaft has done in between.
THEOREM JumpBoundedTheorem == Spec => JumpBounded
<1>1. ASSUME IInv, [Next]_vars
      PROVE  last_wrapped # NoSample /\ last_wrapped' # NoSample
               => /\ 2 * (position' - position) <= span
                  /\ 2 * (position' - position) >= -span
  <2> SUFFICES ASSUME last_wrapped # NoSample, last_wrapped' # NoSample
               PROVE  /\ 2 * (position' - position) <= span
                      /\ 2 * (position' - position) >= -span
    OBVIOUS
  <2>1. last_wrapped \in -Half .. Half /\ offset \in Int /\ Half \in Nat
    BY <1>1, PositionUnwrapperAssumption DEF IInv, TypeOK
  <2>2. CASE update
    <3>1. PICK w \in Wrapped(shaft) :
            offset' = offset + correction(w) /\ last_wrapped' = w
      BY <2>2 DEF update
    <3>2. w \in -Half .. Half
      BY DEF Wrapped
    <3>3. correction(w) \in Int
      BY <2>1, <3>2 DEF correction, span
    <3>4. position' - position = (w - last_wrapped) + correction(w)
      BY <2>1, <3>1, <3>2, <3>3 DEF position
    <3> QED
      BY <2>1, <3>2, <3>4 DEF correction, span
  <2>3. CASE UNCHANGED <<last_wrapped, offset>>
    BY <2>1, <2>3 DEF position, span
  <2>4. update \/ UNCHANGED <<last_wrapped, offset>>
    BY <1>1 DEF Next, Turn, reset, ReZero, vars
  <2> QED
    BY <2>2, <2>3, <2>4
<1>2. Init => IInv
  BY InitIInv, PositionUnwrapperAssumption
<1>3. IInv /\ [Next]_vars => IInv'
  BY StepIInv, PositionUnwrapperAssumption
<1> QED
  BY <1>1, <1>2, <1>3, PTL DEF Spec, JumpBounded

============================================================================
