\* A creator's client, every sequence of three requests with one kind of upset.
SPECIFICATION Spec
CONSTANTS
    Channel = {1, 2}
    MaxRole = 2
    MaxPosition = 1
    MaxChanges = 3
    MaxAir = 2
    Upsets <- Everything
    MaxUpsets = 1
INVARIANTS TypeOK RestartKeepsRoles
PROPERTIES RolesCatchUp IdsCatchUp MembersCatchUp ChannelsCatchUp
\* Requests are bounded.
CHECK_DEADLOCK FALSE
