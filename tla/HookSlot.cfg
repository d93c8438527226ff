\* Users at the same time: what a comment says of the login slot.
CONSTANTS
    alice = alice
    bob = bob
    push = push
    tag = tag
    alert = alert
    code = code
    ops = ops
    Users = {alice, bob}
    Requests = {push, tag, alert}
    Keys = {code, ops}
    Key <- MCKey
    Names = {"repository", "releases", "alerts"}
    Name <- MCName
    nil = nil
    NoName = "none"
    SerialLogins = FALSE
SPECIFICATION Spec
INVARIANT SlotIsActiveLogin
CHECK_DEADLOCK FALSE
