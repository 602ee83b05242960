SPECIFICATION Spec
CONSTANTS
    LineLen = 12
    Docs <- MCDocs
    Fragile <- MCFragile
    Sig <- MCSig
    Chunks = {2, 5}
    ReadLens = {7, 8}
    Block = 8
    CtBuf = 14
    BodySize = 6
    Garble = {69, 64, 26}
INVARIANTS
    RoundTrip
    DamageReported
    SignedIsVerified
    ReaderEnds
