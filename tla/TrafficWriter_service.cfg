CONSTANTS
    Submitters = {s1, s2}
    Controllers = {c1, c2}
    NoOne = NoOne
    QueueSize = 1
    MaxGen = 2
SPECIFICATION FairSpec
INVARIANTS
    TypeOK
    AcceptedNeverLost
    ResultTruthful
    OneWriter
    StopDrains
PROPERTIES
    InlineOnlyWithoutWriter
    ImplementsService
    SubmitReturns
    StopReturns
