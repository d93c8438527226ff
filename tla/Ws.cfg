\* A retrying call (a file send) and a call made by the event loop, with fairness.
CONSTANTS
    send = send
    file = file
    accept = accept
    NoCall = NoCall
    Calls = {file, accept}
    RetryCalls = {file}
    LoopCalls = {accept}
    EventCap = 1
    MaxUnsolicited = 3
    LenientWrites = FALSE
SPECIFICATION FairSpec
INVARIANTS
    OwnAnswer
    ChannelDiscipline
    NoOrphanWaiter
    NoStaleEntry
    ReconnectsAfterTheDust
PROPERTIES
    EveryCallReturns
    LossNoticed
    ImplementsFairExchange
CHECK_DEADLOCK FALSE
