SPECIFICATION Spec
CONSTANTS
    Version <- MCVersion
    Term <- MCTerm
    Payload = {a, b}
    LocalConfig = local
    MaxU64 = 4
    None = None
SYMMETRY Symmetric
INVARIANTS
    TypeOK
    TrackerFollowsWatermark
    AckDurable
    CanAdvance
    ReadyOnlyInSession
PROPERTIES
    WatermarkMonotone
    NoReplay
    ForkLatchHolds
