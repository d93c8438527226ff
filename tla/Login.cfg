\* Two users, managed or with a simplex-chat of their own.
CONSTANTS
    ann = ann
    bea = bea
    Users = {ann, bea}
    UserIDs <- FirstOrSecond
    Ports = {1, 2}
    OwnPort <- OwnPorts
    MaxDials = 2
    MaxRestarts = 1
SPECIFICATION FairSpec
INVARIANTS
    NoStrayProcess
    OwnProfile
PROPERTIES
    EveryLoginReturns
    LoginsConnect
CHECK_DEADLOCK FALSE
