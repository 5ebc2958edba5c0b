SPECIFICATION FairSpec
CONSTANTS
    Callers = {c1, c2}
    Capacity = 1
    MaxCalls = 3
    k1 = k1
    k2 = k2
    Cards = {k1, k2}
    OddCards = {k2}
    Capability <- MCCapability
    Contents <- MCContents
    NoCard = NoCard
    BlockLength = 16
    MaxMoves = 2
INVARIANTS
    TypeOK
    AnswersAreTrue
    TextIsOneCards
    DisconnectedMeansGone
PROPERTIES
    OnlyLiveWaitsBlock
CHECK_DEADLOCK FALSE
