SPECIFICATION Spec
CONSTANTS
    Conn = {1, 2}
    MaxVersion = 2
    MaxTerm = 0
    Incarnation = {1, 2}
    MaxLead = 9
    Cap = 4
    WireCap = 1
    None = None
    LocalConfig = local
    Faults = {"master", "state", "link"}
VIEW View
INVARIANTS
    AheadIsRecorded
