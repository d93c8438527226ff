\* Two connections, one Matrix message, two dials under one connection, an int
\* narrow enough for the shift to overflow, and fairness.
CONSTANTS
    msg = msg
    Handlers = {msg}
    MaxConn = 2
    MaxRetries = 1
    IntBits = 10
SPECIFICATION FairSpec
INVARIANTS
    PanicsOnlyOnLogout
    OneConnection
    ConnectedIsWatched
    LogoutIsFinal
    BackoffInRange
PROPERTIES
    LogoutEndsThreads
    LossIsRepaired
CHECK_DEADLOCK FALSE
