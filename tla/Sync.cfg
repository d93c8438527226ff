\* One person, a member of the group who may become a contact.
CONSTANTS
    alice = alice
    People = {alice}
    ContactID <- IDs
    LoginIDs = {2, 4}
    Friends = {}
    Founders = {alice}
    EventCap = 1
    MaxChanges = 2
    MaxSyncs = 2
SPECIFICATION Spec
INVARIANTS
    RoomFollowsGroup
    ContactsHaveRooms
    GhostsKeepUp
CHECK_DEADLOCK FALSE
