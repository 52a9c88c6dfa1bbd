SPECIFICATION Spec
CONSTANTS
    Unset = Unset
    Garbage = Garbage
    Unreadable = Unreadable
    Blank = Blank
    c1 = c1
    c2 = c2
    w1 = w1
    w2 = w2
    Callers = {c1, c2}
    NoCaller = NoCaller
    Workloads = {w1}
    Absent = Absent
    Names <- MCNames
    IPs <- MCIPs
    RecordTypes <- MCTypes
    Outcomes = {"ok", "error", "other"}
    LabelSets <- MCLabelSets
    HostLists <- MCHostLists
    ArgLists <- MCArgLists
    Matching <- MCMatching
    TargetIP <- MCTargetIP
    FirstRecords <- MCFirst
    EditedRecords <- MCEdited
PROPERTIES
    CreatedMeansCreated
