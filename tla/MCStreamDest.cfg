SPECIFICATION Spec
CONSTANTS
    CacheSize = 3
    MaxAlloc = 7
    Page = 2
    ShortWrites = FALSE
    MaxLen = 5
    MaxBytes = 9
INVARIANT Accounted
PROPERTY NoClobber
