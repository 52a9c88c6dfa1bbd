SPECIFICATION CalmSpec
CONSTANTS
    MaxEvents = 2
PROPERTIES
    EveryEventIsListed
\* With MaxEvents changes made there is nothing left to do.
CHECK_DEADLOCK FALSE
