\* Every command and every mishap; the order of the clients does not matter.
SPECIFICATION Spec
CONSTANTS
    ann = ann
    bob = bob
    Client <- Both
    Commands <- CommandKinds
    Mishaps <- MishapKinds
    Overlap = FALSE
    MaxCommands = 4
    MaxMishaps = 1
SYMMETRY Symmetric
INVARIANTS MutualConsent RestartKeepsFriends BlockedStaysOut
PROPERTIES RemovalSticks
\* Commands are bounded, and the clients fall silent in the end.
CHECK_DEADLOCK FALSE
