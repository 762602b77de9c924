----------------------------- MODULE RunProfile -----------------------------
(***************************************************************************)
(* run_profile of examples/tracking_capture_common.hpp in time: the loop   *)
(* that sends a command, unwraps the position of its feedback, may read a  *)
(* parameter for an extra column, and sleeps until the end of its cycle,   *)
(* over a shaft that turns all the while.  How often the unwrapper gets a  *)
(* sample depends on how long exchanges take, up to response_timeout; a    *)
(* call that exceeds it throws, and that ends the capture.                 *)
(*                                                                         *)
(* Computing and writing the file take no time.  Definitions named ..._bug *)
(* are slips one could make; no action uses them.                          *)
(***************************************************************************)
EXTENDS PositionUnwrapper, Sequences

CONSTANTS
    Timeout,    \* response_timeout, in ticks
    Period,     \* sample_period_s, in ticks
    Speed,      \* how far the shaft turns in a tick at most
    Reads,      \* how many parameters append_extra may read in a cycle
    Durations   \* of the segments of the profile, in ticks

\* A position on its way to update(): the raw sample, and what the shaft has
\* turned and how long it took since the sample before.
Sample == [wrapped : Int, moved : Int, gap : Int]

ASSUME RunProfileAssumption ==
    /\ NoSample \notin Sample
    /\ Timeout \in Nat \ {0} /\ Period \in Nat \ {0} /\ Speed \in Nat
    /\ Reads \subseteq Nat
    /\ Durations \in Seq(Nat \ {0})

VARIABLES
    reads,    \* what append_extra does in this capture
    phase,    \* of the loop, see Phase
    segment,  \* which one is next or being held
    left,     \* time until segment_end, negative after it
    cycle,    \* time since the cycle started, at most Period
    waited,   \* time since the exchange started
    todo,     \* parameters still to read in this cycle
    answer,   \* the motor's sample, on its way back
    gap,      \* ghost: time since the last sample update() got was taken
    held      \* ghost: time since the segment started, at most one too long

profileVars ==
    <<vars, reads, phase, segment, left, cycle, waited, todo, answer, gap, held>>

Phase == {"top", "sent", "answered", "read", "asleep", "done", "failed"}

Exchanging == phase \in {"sent", "answered", "read"}

\* The program has set up the motor; the shaft may be anywhere.
ProfileInit ==
    /\ Init /\ shaft \in -Half .. Half
    /\ reads \in Reads /\ phase = "top" /\ segment = 0 /\ left = 0
    /\ cycle = 0 /\ waited = 0 /\ todo = 0 /\ answer = NoSample /\ gap = 0
    /\ held = 0

timeVars == <<left, cycle, gap, held>>

longer(a, b) == IF a > b THEN a ELSE b

\* The longest cycle: its exchanges may outlast its period.
MaxCycle == longer(Period, (1 + reads) * Timeout)

\* The head of the for loop.  No whole cycle fits any more.
NextSegment_bug == phase = "top" /\ left <= Period

NextSegment == phase = "top" /\ left <= 0

StartSegment ==
    /\ NextSegment /\ segment < Len(Durations)
    /\ segment' = segment + 1 /\ left' = Durations[segment + 1] /\ held' = 0
    /\ UNCHANGED <<vars, reads, phase, cycle, waited, todo, answer, gap>>

Finish ==
    /\ NextSegment /\ segment = Len(Durations)
    /\ phase' = "done"
    /\ UNCHANGED <<vars, reads, segment, timeVars, waited, todo, answer>>

\* The while loop: segment_end stays as it is, cycle_end is fixed, and
\* send_command sends its frame.
StartCycle ==
    /\ phase = "top" /\ ~NextSegment
    /\ phase' = "sent" /\ cycle' = 0 /\ waited' = 0 /\ todo' = reads
    /\ UNCHANGED <<vars, reads, segment, left, answer, gap, held>>

\* The motor obeys and answers with its position.
MotorAnswers ==
    /\ phase = "sent"
    /\ \E w \in Wrapped(shaft) :
         answer' = [wrapped |-> w, moved |-> moved, gap |-> gap]
    /\ phase' = "answered"
    /\ UNCHANGED <<vars, reads, segment, timeVars, waited, todo>>

\* send_command returns, and update gets its position.
GetAnswer ==
    /\ phase = "answered"
    /\ phase' = IF todo > 0 THEN "read" ELSE "asleep"
    /\ offset' = offset + correction(answer.wrapped)
    /\ last_wrapped' = answer.wrapped
    /\ travelled' = IF last_wrapped = NoSample THEN answer.wrapped
                    ELSE travelled + answer.moved
    /\ moved' = moved - answer.moved /\ gap' = gap - answer.gap
    /\ answer' = NoSample /\ waited' = 0
    /\ UNCHANGED <<shaft, outrun, rezeroed, reads, segment, left, cycle, todo, held>>

GetExtra ==
    /\ phase = "read"
    /\ todo' = todo - 1 /\ waited' = 0
    /\ phase' = IF todo > 1 THEN "read" ELSE "asleep"
    /\ UNCHANGED <<vars, reads, segment, timeVars, answer>>

\* The error is caught in the loop.
AfterTimeout_bug == "asleep"

\* The loop asks again until the motor answers, the old deadline long past.
AskAgain_bug == "sent"

AfterTimeout == "failed"

\* The request or the answer is lost, or the answer is late.
TimesOut ==
    /\ Exchanging /\ waited = Timeout
    /\ phase' = AfterTimeout /\ answer' = NoSample
    /\ UNCHANGED <<vars, reads, segment, timeVars, waited, todo>>

\* sleep_for(period) instead of sleep_until(cycle_end).
CycleEnded_bug == waited = Period

CycleEnded == cycle = Period

WakeUp ==
    /\ phase = "asleep" /\ CycleEnded
    /\ phase' = "top"
    /\ UNCHANGED <<vars, reads, segment, timeVars, waited, todo, answer>>

Program ==
    \/ StartSegment \/ Finish \/ StartCycle
    \/ GetAnswer \/ GetExtra \/ TimesOut \/ WakeUp

\* Time passes while the program waits, and the shaft turns.
Tick ==
    /\ \/ Exchanging /\ waited < Timeout
       \/ phase = "asleep" /\ ~CycleEnded
    /\ waited' = waited + 1 /\ left' = left - 1 /\ gap' = gap + 1
    /\ cycle' = IF cycle < Period THEN cycle + 1 ELSE cycle
    /\ held' = IF held < Durations[segment] + MaxCycle THEN held + 1 ELSE held
    /\ \E d \in {-Speed, 0, Speed} :
         /\ shaft + d \in -Range .. Range
         /\ shaft' = shaft + d
         /\ moved' = IF last_wrapped = NoSample /\ answer = NoSample
                     THEN 0 ELSE moved + d
    /\ UNCHANGED <<last_wrapped, offset, travelled, outrun, rezeroed,
                   reads, phase, segment, todo, answer>>

ProfileNext == Program \/ MotorAnswers \/ Tick

ProfileSpec == ProfileInit /\ [][ProfileNext]_profileVars

\* The program's thread runs and the clock goes on; a motor may never answer.
FairProfileSpec ==
    ProfileSpec /\ WF_profileVars(Program) /\ WF_profileVars(Tick)

----------------------------------------------------------------------------
\* The longest time between two samples: the first taken when its exchange
\* starts, the second when its own ends, a cycle later.
MaxGap == MaxCycle + Timeout

\* Two samples the unwrapper gets one after the other were taken at most
\* MaxGap apart, however long exchanges take and whichever are lost.
GapBounded == answer # NoSample /\ last_wrapped # NoSample => answer.gap <= MaxGap

\* So the position that is logged is exact, turn for turn, as long as the
\* shaft cannot turn half the encoding range in that time.
LoggedPositionExact ==
    position # NoSample /\ Speed * MaxGap < Half => position = travelled

\* When the program goes on to the next target, or ends, the one before was
\* held for its whole duration, and for less than a cycle more, however long
\* exchanges took and whenever they started.
SegmentHeld ==
    [][segment > 0 /\ (segment' # segment \/ phase' = "done")
         => Durations[segment] <= held /\ held < Durations[segment] + MaxCycle]_profileVars

\* The capture ends, with or without its motor.
CaptureEnds == <>(phase \in {"done", "failed"})

============================================================================
