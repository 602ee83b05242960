CONSTANTS
    SkipBuf = 2
    Chunk = 3
    Lengths = {0, 1, 3, 7, 11}
    MaxNested = 3
    MaxSub = 3
    MaxMpi = 1
    MaxDepth = 1
SPECIFICATION Spec
INVARIANTS ParserInStep TruncationReported
PROPERTY ParserEnds
