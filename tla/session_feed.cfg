SPECIFICATION Spec
CONSTANTS
    None = None
    Drivers <- MCDrivers
    Raws <- MCRaws
    TotalLaps = None
    MaxEvents = 3
    MaxRedeliveries = 1
INVARIANTS
    TypeOK
    BestsAreExtremes
    HighlightIsTrue
    SettlesOnTheLog
    StoredLapsKeepWhatIsKnown
    NothingInvented
PROPERTIES
    NeverBackwards
CHECK_DEADLOCK FALSE
