------------------------- MODULE PositionUnwrapper -------------------------
(***************************************************************************)
(* PositionUnwrapper (position_unwrapper.hpp): turns the wrapped position  *)
(* of the feedback frames into a continuous one.  Angles are integers; an  *)
(* encoding range of [-Half, Half] has the width `span`.  The definitions  *)
(* named ..._bug are slips one could make; no action uses them.            *)
(***************************************************************************)
EXTENDS Integers

CONSTANTS
    Half,        \* limits.position: the encoding range is -Half .. Half
    MaxMotion,   \* how far the shaft turns between two samples at most
    Range,       \* bound on the angle the shaft reaches, and on a track
    NoSample     \* std::nullopt

ASSUME PositionUnwrapperAssumption ==
    /\ Half \in Nat \ {0} /\ MaxMotion \in Nat /\ Range \in Nat
    /\ NoSample \notin Int

span == 2 * Half

VARIABLES
    shaft,         \* the angle since the motor's mechanical zero, unwrapped
    last_wrapped,  \* last_wrapped_, the previous raw sample
    offset,        \* offset_
    moved,         \* ghost: motion since the previous sample
    travelled,     \* ghost: first raw sample + motion up to the last sample
    outrun,        \* ghost: some motion between two samples was too large
    rezeroed       \* ghost: reset() is due, the motor's zero has changed

vars == <<shaft, last_wrapped, offset, moved, travelled, outrun, rezeroed>>

\* The samples a motor at angle a may send; either end of the range when a
\* is half way.  (A shaft within Range has made at most Range turns.)
Wrapped_bug(a) ==
    {w \in -span .. span : \E turns \in -Range .. Range : a = w + turns * (2 * span)}

Wrapped(a) ==
    {w \in -Half .. Half : \E turns \in -Range .. Range : a = w + turns * span}

TypeOK ==
    /\ shaft \in -Range .. Range
    /\ last_wrapped \in (-Half .. Half) \cup {NoSample}
    /\ offset \in Int /\ moved \in -MaxMotion .. MaxMotion
    /\ travelled \in Int /\ outrun \in BOOLEAN /\ rezeroed \in BOOLEAN

Init ==
    /\ shaft \in -Range .. Range
    /\ last_wrapped = NoSample /\ offset = 0
    /\ moved = 0 /\ travelled = 0 /\ outrun = FALSE /\ rezeroed = FALSE

\* The shaft turns by one unit.
Turn(d) ==
    /\ shaft + d \in -Range .. Range
    /\ moved + d \in -MaxMotion .. MaxMotion
    /\ shaft' = shaft + d
    /\ moved' = IF last_wrapped = NoSample THEN 0 ELSE moved + d
    /\ UNCHANGED <<last_wrapped, offset, travelled, outrun, rezeroed>>

correction_bug(wrapped) ==
    IF last_wrapped # NoSample /\ wrapped - last_wrapped > Half THEN -span ELSE 0

\* What the class assumes of the sampling: less than half the range of motion.
SlowEnough == 2 * moved < span /\ -span < 2 * moved

\* What update adds to offset_.  (2 * delta > span is delta > span / 2.0.)
correction(wrapped) ==
    CASE last_wrapped = NoSample -> 0
      [] last_wrapped # NoSample /\ 2 * (wrapped - last_wrapped) > span -> -span
      [] last_wrapped # NoSample /\ 2 * (wrapped - last_wrapped) < -span -> span
      [] OTHER -> 0

\* update(w) on a feedback frame.  After the zero has changed the caller
\* resets first, as the class asks.
update ==
    \E w \in Wrapped(shaft) :
      /\ ~rezeroed
      /\ offset' = offset + correction(w)
      /\ last_wrapped' = w
      /\ moved' = 0
      /\ travelled' = IF last_wrapped = NoSample THEN w ELSE travelled + moved
      /\ outrun' = (outrun \/ ~SlowEnough)
      /\ UNCHANGED <<shaft, rezeroed>>
      /\ offset' \in -2 * Range .. 2 * Range      \* the bound
      /\ travelled' \in -2 * Range .. 2 * Range

position == IF last_wrapped = NoSample THEN NoSample ELSE last_wrapped + offset

reset_bug ==
    /\ last_wrapped' = NoSample
    /\ moved' = 0 /\ outrun' = FALSE /\ rezeroed' = FALSE
    /\ UNCHANGED <<shaft, travelled, offset>>

reset ==
    /\ last_wrapped' = NoSample /\ offset' = 0
    /\ moved' = 0 /\ outrun' = FALSE /\ rezeroed' = FALSE
    /\ UNCHANGED <<shaft, travelled>>

\* The motor is re-zeroed or power cycled: it counts from here.
ReZero ==
    /\ shaft' = 0 /\ rezeroed' = TRUE
    /\ UNCHANGED <<last_wrapped, offset, moved, travelled, outrun>>

Next == (\E d \in {-1, 1} : Turn(d)) \/ update \/ reset \/ ReZero

Spec == Init /\ [][Next]_vars

----------------------------------------------------------------------------
\* The documented promise: if the shaft turns less than half the encoding
\* range between samples, position() is the first raw sample of the track
\* plus everything the shaft has turned since, however many wraps ago.
Tracks == position # NoSample /\ ~outrun => position = travelled

\* Whatever the shaft does, even when it outruns the sampling, two
\* consecutive positions of a track are at most half a range apart.
JumpBounded ==
    [][last_wrapped # NoSample /\ last_wrapped' # NoSample
         => /\ 2 * (position' - position) <= span
            /\ 2 * (position' - position) >= -span]_vars

============================================================================
