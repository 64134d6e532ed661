\* The user owes nothing: with every bound used up he may just stop.
CHECK_DEADLOCK FALSE
SPECIFICATION Spec
CONSTANTS
    phone = phone
    tablet = tablet
    Devices <- TwoDevices
    Names = {"band", "choir"}
    NumOthers = 1
    Faults = {"crash", "loss"}
    Habits <- AllHabits
    MaxSessions = 4
    MaxMishaps = 2
INVARIANTS
    TypeOK
    NamesAreUnique
    UserHasOneDocument
PROPERTIES
    KeepsACatalogue
