SPECIFICATION Spec
CONSTANTS
    BlockLength = 16
    Tags <- ControlTags
INVARIANTS
    ReadsEveryTextTag
CHECK_DEADLOCK FALSE
