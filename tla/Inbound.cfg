\* A text and a photo.
CONSTANTS
    text = text
    photo = photo
    Items = {text, photo}
    Files = {photo}
    MaxVersion = 2
    EventCap = 2
SPECIFICATION FairSpec
INVARIANTS
    PostedOnce
    NoHalfMessages
    RoomCatchesUp
PROPERTIES
    FilesArrive
    ImplementsTimeline
CHECK_DEADLOCK FALSE
