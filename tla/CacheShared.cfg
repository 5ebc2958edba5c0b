SPECIFICATION Spec
CONSTANTS
    Tasks = {t1, t2}
    Ids = {a}
    Hashes = {h1}
    NoHash = NoHash
    MaxCalls = 4
    MaxFaults = 2
    MaxUpdates = 0
    MaxCrashes = 1
SYMMETRY CacheSymmetry
INVARIANTS
    CachedFilesWhole
