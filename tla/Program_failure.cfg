\* An answer is lost while the motor runs.
SPECIFICATION MainSpec
CONSTANTS
    m1 = m1
    Motors = {m1}
    Other = other
    NoFrame = NoFrame
    FloatParams <- BenchParams
    Apis <- BenchApis
    Modes = {0, 1, 2, 3, 5}
    Values = {0, 1, 2, 3}
    Faults = {"loseAnswer"}
    MaxSends = 15
    MaxQueue = 2
    Programs = {"velocity"}
    Targets = {0, 1}
    Limit = 2
    Found = {0, 3}
CHECK_DEADLOCK FALSE
INVARIANTS
    StopsInTheEnd
