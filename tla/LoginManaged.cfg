\* What the README says of managed logins.
CONSTANTS
    ann = ann
    bea = bea
    Users = {ann}
    UserIDs <- OnlyAnn
    Ports = {1}
    OwnPort <- OwnPorts
    MaxDials = 2
    MaxRestarts = 1
SPECIFICATION FairSpec
PROPERTY ManagedConnects
CHECK_DEADLOCK FALSE
