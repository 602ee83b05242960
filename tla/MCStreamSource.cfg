SPECIFICATION Spec
CONSTANTS
    CacheSize = 3
    SkipBuf = 2
    MaxTotal = 4
    MaxLen = 4
INVARIANTS CacheCoherent Delivered EndIsMeant
PROPERTY LoopProgress
