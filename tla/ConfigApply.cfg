SPECIFICATION FairSpec
CONSTANTS
    Value = {0, 1}
    Document <- Documents
    First = 0
    Client = {c1}
    MaxRequests = 2
    MaxFaults = 2
    Booted = FALSE
    Drops = TRUE
    None = None
CHECK_DEADLOCK FALSE
INVARIANTS
    TypeOK
    ComponentsAgree
    FileAgrees
PROPERTIES
    NoLostUpdate
    RollsBack
    EventsNeverRegress
    LockReleased
    EditsArrive
