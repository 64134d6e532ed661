\* Users owe nothing: with every bound used up they may just stop.
CHECK_DEADLOCK FALSE
SPECIFICATION FairSpec
CONSTANTS
    u1 = u1
    u2 = u2
    s1 = s1
    s2 = s2
    None = None
    Users <- TwoUsers
    Sessions <- OneSession
    Name <- OneName
    Host <- OneHost
    Faults <- NoFaults
    Isolated = TRUE
    MaxOps = 5
INVARIANTS
    PresentAreListed
    OnlyPresentAreListed
    StudioIsRemembered
PROPERTIES
    JoinEnds
    ShownListsConverge
