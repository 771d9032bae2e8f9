SPECIFICATION Spec
CONSTANTS
    Conn = {1}
    MaxVersion = 3
    MaxTerm = 0
    Incarnation = {1, 2}
    MaxLead = 1
    Cap = 1
    WireCap = 1
    None = None
    LocalConfig = local
    Faults = {"master", "state", "link", "resync"}
VIEW View
INVARIANTS
    SyncedIsApplied
PROPERTIES
    SeverityNeverDrops
