SPECIFICATION Spec
CONSTANTS
    Writer = {w1}
    Reloader = {r1}
    Content = {a, b}
    MaxU64 = 12
    MaxStamp = 4
    Faults = FALSE
    Drops = FALSE
    None = None
SYMMETRY Symmetric
INVARIANT ChangesArePublished
