\* Users owe nothing: with every bound used up they may just stop.
CHECK_DEADLOCK FALSE
SPECIFICATION FairSpec
CONSTANTS
    t1 = t1
    t2 = t2
    Tracks <- TwoTracks
    MaxTaps = 4
INVARIANTS
    TypeOK
    PlayingIsWatched
PROPERTIES
    ButtonComesBack
    MergeTabIsAPlayer
    ClickTabIsAPlayer
