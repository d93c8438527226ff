\* A text and an image, with fairness.
CONSTANTS
    text = text
    image = image
    Msgs = {text, image}
    FileMsgs = {image}
    Attempts = {1, 2}
    Serial = TRUE
SPECIFICATION SendFairSpec
INVARIANTS
    EchoIsIgnored
    NoTempFileLeak
    RegisteredIsTransient
PROPERTY EveryMessageGetsStatus
CHECK_DEADLOCK FALSE
