CONSTANTS
    Ids = {email, tg}
    Stuck = {email}
    BufferSize = 2
    SubscriberQueueSize = 2
    MaxEvents = 4
    MaxWorkers = 2
SPECIFICATION BusSpec
INVARIANTS
    TypeOK
    OneCopy
    StopQuiet
PROPERTIES
    InOrder
    NothingLost
    NoneAfterRemoval
    Isolation
    StopReturns
CHECK_DEADLOCK FALSE
