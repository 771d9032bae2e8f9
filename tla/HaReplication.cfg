SPECIFICATION FairSpec
CONSTANTS
    Conn = {1, 2}
    MaxVersion = 2
    MaxTerm = 1
    Incarnation = {1}
    MaxLead = 9
    Cap = 4
    WireCap = 1
    None = None
    LocalConfig = local
    Faults = {"master", "promote", "slave", "link"}
INVARIANTS
    TypeOK
    SyncedIsApplied
    NoSilentLoss
PROPERTIES
    Converges
