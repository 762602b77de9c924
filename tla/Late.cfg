\* Answers may come after the deadline, be reported unasked, outlive the
\* process that asked; a bus other devices flood; the fairness of the host.
SPECIFICATION FairSpec
CONSTANTS
    m1 = m1
    Motors = {m1}
    Other = other
    NoFrame = NoFrame
    FloatParams = {"spd_ref"}
    Apis = {"enable", "set_run_mode"}
    Modes = {2}
    Values = {0}
    Faults <- LateFaults
    MaxSends = 3
    MaxQueue = 2
CHECK_DEADLOCK FALSE
PROPERTIES
    CacheNeverRegresses
    EveryCallReturns
