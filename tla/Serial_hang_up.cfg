\* The device disappears.
SPECIFICATION Spec
CONSTANT Ports <- Unplugged
CHECK_DEADLOCK FALSE
PROPERTIES
    HangUpIsReported
