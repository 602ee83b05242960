SPECIFICATION Spec
CONSTANTS
    Cache = 4
    Part = 2
    ZCache = 3
    ReadBuf = 4
    MaxName = 2
    Lengths = {0, 1, 3, 14}
    Rooms = {5, 14, 100}
    Names = {1, 3}
    Recipients <- MCRecipients
    MaxNamed = 2
    MaxFaults = 1
    Requests = {3, 4, 100}
    Given <- MCGiven
    Forms <- MCForms
    Announced = {0, 1, 10, 13, 20}
INVARIANTS
    ReadBackOrRefused
    ErrorsSurface
    NothingAfterFinish
    KeyIsShared
    PacketsParsed
