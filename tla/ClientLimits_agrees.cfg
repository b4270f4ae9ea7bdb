CONSTANTS
    Inbounds = {i1, i2}
    NoInbound = NoInbound
    MaxCalls = 3
    MaxOver = 2
    MaxFaults = 1
SPECIFICATION OneHomeSpec
INVARIANTS TypeOK LiveAsBuilt OneAnswer
PROPERTIES ResetEnables Cut
