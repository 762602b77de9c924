\* No filter, and a device with standard identifiers on the bus.
SPECIFICATION Spec
CONSTANTS
    Early <- Standard
    Traffic = {}
    Outgoing = {}
    MotorIds = {}
    NoFilter = NoFilter
    Faults = {}
    Capacity = 2
    MaxArrivals = 2
    MaxSends = 0
    Actuators = {}
    Feedbacks = {}
    Responses = {}
    Commands = {}
CHECK_DEADLOCK FALSE
PROPERTIES
    NulloptOnlyOnTimeout
