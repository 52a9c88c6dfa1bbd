SPECIFICATION FairSpec
CONSTANTS
    r1 = r1
    r2 = r2
    Requests = {r1, r2}
    Path <- MCPath
    Components = {"docker", "technitium"}
    Nothing = Nothing
    CheckTimeout = 2
    ShutdownTimeout = 4
INVARIANTS
    TypeOK
    ReadyMeansAllAnswered
    UnhealthyHasACause
    NoRequestIsCutOff
PROPERTIES
    AnswersDrawNear
    EveryRequestIsAnswered
\* The process ends.
CHECK_DEADLOCK FALSE
