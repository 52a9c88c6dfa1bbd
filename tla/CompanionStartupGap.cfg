SPECIFICATION FairCompanion
CONSTANTS
    MaxEvents = 1
    Failures = {}
    RestartPolicy = "unless-stopped"
PROPERTIES
    StartupIsCovered
\* A container that has been stopped stays stopped.
CHECK_DEADLOCK FALSE
