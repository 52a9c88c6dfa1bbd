SPECIFICATION FairCompanion
CONSTANTS
    MaxEvents = 3
    Failures = {"start", "listing", "stream", "health", "signal"}
    RestartPolicy = "unless-stopped"
INVARIANTS
    CompanionTypeOK
    OneReconcile
    ReadyIsSynced
PROPERTIES
    IsFollower
    SignalEnds
    StreamLossRecovers
    DowntimeIsCaughtUp
\* A container that has been stopped stays stopped.
CHECK_DEADLOCK FALSE
