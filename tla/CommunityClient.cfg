\* One message, two generations of the key, one kind of mishap in a behaviour, any
\* number of times.
SPECIFICATION Spec
CONSTANTS
    m1 = m1
    m2 = m2
    Message <- OneMessage
    MaxGen = 2
    MaxAir = 1
    MaxRetries = 1
    Overlap = FALSE
    Mishaps <- Everything
    MaxMishaps = 1
INVARIANTS AcceptedIsReadable SentIsKept LeftForgets
PROPERTIES NeverOlder KeyCatchesUp
\* Generations are bounded.
CHECK_DEADLOCK FALSE
