SPECIFICATION FairSpec
CONSTANTS
    MaxEvents = 4
INVARIANTS
    TypeOK
    OneDebouncedRun
PROPERTIES
    ReturnIsTheEnd
    OnlyTheWindowLoses
    EventWhileArmedIsListed
    FailureIsMadeUp
    CancelQuiesces
\* With MaxEvents changes made and Watch gone there is nothing left to do.
CHECK_DEADLOCK FALSE
