\* Answers come before the deadline or not at all; two motors; every call.
SPECIFICATION Spec
CONSTANTS
    m1 = m1
    m2 = m2
    Motors = {m1, m2}
    Other = other
    NoFrame = NoFrame
    FloatParams = {"limit_spd", "loc_ref"}
    Apis <- TimelyApis
    Modes = {0, 2}
    Values = {1}
    Faults <- TimelyFaults
    MaxSends = 4
    MaxQueue = 2
CHECK_DEADLOCK FALSE
INVARIANTS
    TypeOK
    FreshAnswer
    StoppedOnReturn
    ModeOnReturn
    ReadReturnsCurrent
PROPERTIES
    ModeChangeOnlyWhenStopped
    ZeroOnlyWhenStopped
    TargetUnderItsLimit
    ServiceSpec
