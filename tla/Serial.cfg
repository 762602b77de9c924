\* Clean, noisy and busy ports, and the fairness of the host.
SPECIFICATION FairSpec
CONSTANT Ports <- SomePorts
CHECK_DEADLOCK FALSE
INVARIANTS
    TypeOK
    FramesInOrder
    NothingHeldUp
    WritesWhole
PROPERTIES
    TransportSpec
    EveryCallReturns
