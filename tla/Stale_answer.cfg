\* An answer later than response_timeout is taken for the next command's.
SPECIFICATION Spec
CONSTANTS
    m1 = m1
    Motors = {m1}
    Other = other
    NoFrame = NoFrame
    FloatParams = {"spd_ref"}
    Apis = {"enable", "send_velocity_command"}
    Modes = {}
    Values = {1}
    Faults = {"late"}
    MaxSends = 3
    MaxQueue = 1
CHECK_DEADLOCK FALSE
INVARIANTS
    FreshAnswer
