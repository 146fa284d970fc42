\* Both users add each other, nothing goes wrong on the network.
SPECIFICATION Spec
CONSTANTS
    ann = ann
    bob = bob
    Client <- Both
    Commands = {"AddFriend", "AcceptRequest"}
    Mishaps = {}
    Overlap = FALSE
    MaxCommands = 2
    MaxMishaps = 0
INVARIANTS SessionsMatch
CHECK_DEADLOCK FALSE
