SPECIFICATION Spec
CONSTANTS
    CacheSize = 8
    MdcSize = 3
    Header = 1
    MaxPlain = 11
    MaxExtra = 1
    MaxRetry = 1
INVARIANTS ReleaseIsSound MostAccepted
PROPERTY CallsReturn
CHECK_DEADLOCK FALSE
