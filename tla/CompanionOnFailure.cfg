SPECIFICATION FairCompanion
CONSTANTS
    MaxEvents = 1
    Failures = {"stream"}
    RestartPolicy = "on-failure"
PROPERTIES
    StreamLossRecovers
\* A container that has been stopped stays stopped.
CHECK_DEADLOCK FALSE
