\* Users owe nothing: with every bound used up they may just stop.
CHECK_DEADLOCK FALSE
SPECIFICATION FairSpec
CONSTANTS
    u1 = u1
    u2 = u2
    t1 = t1
    t2 = t2
    Users <- TwoUsers
    Tracks <- TwoTracks
    Owner <- OwnTracks
    Habits <- AllHabits
    MaxUploads = 2
INVARIANTS
    TypeOK
    ListedHaveFiles
PROPERTIES
    OthersStayListed
    SwipedRowGoes
    RefreshEnds
