\* What a comment says of the sync on every connect.
CONSTANTS
    alice = alice
    People = {alice}
    ContactID <- IDs
    LoginIDs = {2}
    Friends = {alice}
    Founders = {}
    EventCap = 2
    MaxChanges = 1
    MaxSyncs = 2
SPECIFICATION Spec
INVARIANT ProfilesUpToDate
CHECK_DEADLOCK FALSE
