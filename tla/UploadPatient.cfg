\* Users owe nothing: with every bound used up they may just stop.
CHECK_DEADLOCK FALSE
SPECIFICATION FairSpec
CONSTANTS
    t1 = t1
    t2 = t2
    Tracks <- TwoTracks
    Names = {"solo", "chorus"}
    Faults <- RequestsAndCropsFail
    Patient = TRUE
    MaxTaps = 2
    MaxSelected = 2
INVARIANTS
    TypeOK
    EntriesPlayTheirName
    EveryUploadIsAwaited
PROPERTIES
    MovesOnWhenUploaded
    SpinnerStops
