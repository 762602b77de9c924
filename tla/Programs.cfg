\* Every run of every program that the losses allow, from every state in
\* which it may find the motor.
SPECIFICATION MainSpec
CONSTANTS
    m1 = m1
    Motors = {m1}
    Other = other
    NoFrame = NoFrame
    FloatParams <- BenchParams
    Apis <- BenchApis
    Modes = {0, 1, 2, 3, 5}
    Values = {0, 1, 2, 3}
    Faults <- BenchFaults
    MaxSends = 15
    MaxQueue = 2
    Programs <- AllPrograms
    Targets = {0, 1}
    Limit = 2
    Found = {0, 3}
CHECK_DEADLOCK FALSE
INVARIANTS
    LeavesMotorSafe
PROPERTIES
    TargetUnderLimits
