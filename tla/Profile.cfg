\* A tick is 50 ms.  The RS02 turns 2.2 rad in it at 44 rad/s, which is 1; its
\* half range, 4 pi, is 5 rather than 5.7.  Exchanges take up to 100 ms.
SPECIFICATION FairProfileSpec
CONSTANTS
    Half = 5
    MaxMotion = 20
    Range = 24
    NoSample = NoSample
    Timeout = 2
    Period = 1
    Speed = 1
    Reads = {0, 1}
    Durations <- TwoSegments
CHECK_DEADLOCK FALSE
INVARIANTS
    GapBounded
    LoggedPositionExact
PROPERTIES
    SegmentHeld
    CaptureEnds
