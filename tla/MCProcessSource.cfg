SPECIFICATION Spec
CONSTANTS
    Blocks = 2
    MaxSources = 3
    MaxSigs = 2
INVARIANTS ResultIsSound ReportsMatch
 
