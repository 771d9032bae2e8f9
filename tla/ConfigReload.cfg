SPECIFICATION Spec
CONSTANTS
    Value = {0, 1}
    Document <- Documents
    First = 0
    Client = {c1}
    MaxRequests = 2
    MaxFaults = 0
    Booted = TRUE
    Drops = FALSE
    None = None
CHECK_DEADLOCK FALSE
PROPERTIES
    NoOlderDocument
