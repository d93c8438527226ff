\* One contact, two emoji in three forms, one key that is not supported.
CONSTANTS
    me = me
    NoReaction = NoReaction
    NoOne = NoOne
    ann = ann
    heart = heart
    heartVS = heartVS
    rocket = rocket
    fox = fox
    Contacts = {ann}
    Keys = {heart, heartVS, rocket, fox}
    simplexSupportedEmojis <- MCEmojis
    EventCap = 2
    QueueCap = 2
    MaxActs = 5
SPECIFICATION Spec
INVARIANTS
    NoPhantomReactions
    ReactionsArrive
    MyReactionsArrive
CHECK_DEADLOCK FALSE
