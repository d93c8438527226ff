\* Users one at a time.
CONSTANTS
    alice = alice
    bob = bob
    push = push
    tag = tag
    alert = alert
    code = code
    ops = ops
    Users = {alice, bob}
    Requests = {push, tag, alert}
    Keys = {code, ops}
    Key <- MCKey
    Names = {"repository", "releases", "alerts"}
    Name <- MCName
    nil = nil
    NoName = "none"
    SerialLogins = TRUE
SPECIFICATION Spec
INVARIANTS
    RoomNamedByItsRequest
    SlotIsActiveLoginSerial
CHECK_DEADLOCK FALSE
