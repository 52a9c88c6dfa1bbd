SPECIFICATION Spec
CONSTANTS
    Names <- MCNames
    Addresses = {"ip"}
    Unset = Unset
    Garbage = Garbage
    Unreadable = Unreadable
    Trimmed <- MCTrimmed
    Blank = Blank
    Environments <- MCEnvironments
    GoodEnvironment <- MCGood
    Containers = {c1}
    Services = {s1}
    LabelMaps <- MCLabelMaps
    Absent = Absent
    NoConfig = NoConfig
INVARIANT
    ModeIsAsConfigured
