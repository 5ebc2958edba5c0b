SPECIFICATION Spec
CONSTANTS
    Tasks = {t1}
    Ids = {a, b}
    Hashes = {h1, h2}
    NoHash = NoHash
    MaxCalls = 3
    MaxFaults = 2
    MaxUpdates = 2
    MaxCrashes = 1
SYMMETRY CacheSymmetry
INVARIANTS
    TypeOK
PROPERTIES
    SyncSettles
