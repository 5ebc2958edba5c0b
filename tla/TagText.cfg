SPECIFICATION Spec
CONSTANTS
    BlockLength = 16
    Tags <- NullTags
INVARIANTS
    TypeOK
    ReadsExactlyTheText
    AddressInRange
CHECK_DEADLOCK FALSE
