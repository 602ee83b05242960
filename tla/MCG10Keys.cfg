CONSTANTS
    Keys <- MCKeys
    Directories <- MCDirectories
    Passwords = {"p", "q"}
    Iterations = 3
    MaxWrites = 2
    MaxFaults = 1
    MaxStarts = 2
SPECIFICATION Spec
INVARIANTS OpensAsWritten SavedIsNewest KeyFilesSurvive
CHECK_DEADLOCK FALSE
