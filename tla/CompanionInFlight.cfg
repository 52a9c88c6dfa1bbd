SPECIFICATION FairCompanion
CONSTANTS
    MaxEvents = 1
    Failures = {"signal"}
    RestartPolicy = "unless-stopped"
INVARIANTS
    NothingInFlightAtExit
\* A container that has been stopped stays stopped.
CHECK_DEADLOCK FALSE
