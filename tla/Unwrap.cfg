\* The shaft may outrun the sampling, or not; two wraps each way.
SPECIFICATION Spec
CONSTANTS
    Half = 3
    MaxMotion = 4
    Range = 13
    NoSample = NoSample
INVARIANTS
    TypeOK
    Tracks
PROPERTIES
    JumpBounded
