SPECIFICATION Spec
CONSTANTS
    Unset = Unset
    Garbage = Garbage
    Unreadable = Unreadable
    Blank = Blank
    c1 = c1
    c2 = c2
    w1 = w1
    w2 = w2
    Callers = {c1, c2}
    NoCaller = NoCaller
    Workloads = {w1, w2}
    Absent = Absent
    Names <- MCNames
    IPs <- MCIPs
    RecordTypes <- MCTypes
    Outcomes = {"ok", "error", "lost", "late"}
    LabelSets <- MCLabelSets
    HostLists <- MCHostLists
    ArgLists <- MCArgLists
    Matching <- MCMatching
    TargetIP <- MCTargetIP
    FirstRecords <- MCFirst
    EditedRecords <- MCEdited
SYMMETRY Goroutines
INVARIANTS
    TypeOK
    MutexHeld
    CheckStillHolds
    CountersAgree
    OneErrorPerWorkload
    CleanRunPublishes
PROPERTIES
    OnlyManagedRecords
    OnlyDeletionsRemove
    CreatedMeansCreated
    DeletedMeansDeleted
    EveryStepCounts
    IsManagedZone
