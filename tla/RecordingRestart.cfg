\* Users owe nothing: with every bound used up they may just stop.
CHECK_DEADLOCK FALSE
SPECIFICATION Spec
CONSTANTS
    h = h
    g1 = g1
    Host = h
    Guests <- OneGuest
    Faults <- NoFaults
    MaxTakes = 2
    MaxDoc = 2
    MaxOrphans = 1
PROPERTIES
    GuestStartsWhenFlagRises
