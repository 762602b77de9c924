SPECIFICATION Spec
CONSTANTS
    m1 = m1
    m2 = m2
    Motors = {m1, m2}
    FloatParams = {"spd_ref", "loc_ref"}
    Half = 2
    Fastest = 1
    Instructions <- InstructionsOf
    FaultBits = {4}
    Temperatures = {300, 425}
    MaxTime = 2
    MaxQueue = 2
INVARIANT TypeOK
PROPERTY BenchSpec
