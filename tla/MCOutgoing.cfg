CONSTANTS
    MaxMpi = 8191
    MaxName = 255
    MinPart = 32
    MaxPart = 64
    MaxFaults = 2
    Ops <- MCOps
SPECIFICATION Spec
INVARIANTS LengthsHold SignedAsChecked SuccessIsWritten WritersReleased
