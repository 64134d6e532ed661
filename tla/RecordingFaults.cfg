\* Users owe nothing: with every bound used up they may just stop.
CHECK_DEADLOCK FALSE
SPECIFICATION Spec
CONSTANTS
    h = h
    g1 = g1
    Host = h
    Guests <- OneGuest
    Faults <- AllFaults
    MaxTakes = 2
    MaxDoc = 2
    MaxOrphans = 1
INVARIANTS
    TypeOK
    HostSavesFinishedTakes
PROPERTIES
    TakesAreKept
    GuestsAreFollowers
