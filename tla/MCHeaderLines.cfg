SPECIFICATION Spec
CONSTANTS
    Window = 4
    BufLen = 7
    MaxText = 9
INVARIANT HeadersExact
PROPERTY HeadersEndReached
