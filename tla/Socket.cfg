\* Two motors, another host and a device with standard identifiers; the
\* driver filters for motor 1 at some time; signals and failures.
SPECIFICATION Spec
CONSTANTS
    Early <- Unfiltered
    Traffic <- Mixed
    Outgoing <- CommandFrames
    MotorIds = {1}
    NoFilter = NoFilter
    Faults = {"EINTR", "read", "write"}
    Capacity = 2
    MaxArrivals = 3
    MaxSends = 1
    Actuators = {"Rs02", "Rs04"}
    Feedbacks <- MCFeedbacks
    Responses <- MCResponses
    Commands <- MCCommands
CHECK_DEADLOCK FALSE
INVARIANTS
    TypeOK
    AnswersSurvive
    CommandsSurvive
PROPERTIES
    FilterHolds
    TransportSpec
