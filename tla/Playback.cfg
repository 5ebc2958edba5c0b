SPECIFICATION FairSpec
CONSTANTS
    Playbacks = {p1, dial1, dial2}
    Endless = {dial1, dial2}
    PoolSize = 2
INVARIANTS
    OkMeansPlayed
PROPERTIES
    NoStrayBlip
    NoLateSound
    DroppedFallsSilent
    PlaybacksEnd
CHECK_DEADLOCK FALSE
