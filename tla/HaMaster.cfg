SPECIFICATION FairSpec
CONSTANTS
    Writer = {w1}
    Reloader = {r1}
    Content = {a, b}
    MaxU64 = 4
    MaxStamp = 4
    Faults = TRUE
    Drops = TRUE
    None = None
INVARIANTS
    TypeOK
    PersistedBeforePublished
    OneBundlePerVersion
    TermsFollowVersions
    NothingOvertakes
PROPERTIES
    PublishersFinish
