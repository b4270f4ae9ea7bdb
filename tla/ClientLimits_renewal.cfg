CONSTANTS
    Inbounds = {i1, i2}
    NoInbound = NoInbound
    MaxCalls = 1
    MaxOver = 2
    MaxFaults = 0
SPECIFICATION Spec
PROPERTIES
    Renewed
