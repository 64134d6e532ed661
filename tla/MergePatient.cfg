\* Users owe nothing: with every bound used up they may just stop.
CHECK_DEADLOCK FALSE
SPECIFICATION FairSpec
CONSTANTS
    t1 = t1
    t2 = t2
    d1 = d1
    Song = song
    Host = d1
    Tracks <- TwoTracks
    Listeners <- OneListener
    Faults <- AllFaults
    Habits <- AllHabits
    MaxJobs = 3
INVARIANTS
    TypeOK
    UploadIsOfChosen
    ClickTrackIsKept
PROPERTIES
    SpinnerStops
    AllLoadTheClickTrack
