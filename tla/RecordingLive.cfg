\* Users owe nothing: with every bound used up they may just stop.
CHECK_DEADLOCK FALSE
SPECIFICATION FairSpec
CONSTANTS
    h = h
    g1 = g1
    Host = h
    Guests <- OneGuest
    Faults <- NoFaults
    MaxTakes = 2
    MaxDoc = 3
    MaxOrphans = 1
INVARIANTS
    FlagFollowsHost
    RecordingHoldsDevice
    HostTimersAreOfTake
PROPERTIES
    GuestsStop
    GuestsAreFollowers
