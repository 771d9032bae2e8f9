SPECIFICATION Spec
CONSTANTS
    Conn = {1}
    MaxVersion = 3
    MaxTerm = 0
    Incarnation = {1}
    MaxLead = 1
    Cap = 2
    WireCap = 1
    None = None
    LocalConfig = local
    Faults = {"resync"}
VIEW View
INVARIANTS
    NoSilentLoss
