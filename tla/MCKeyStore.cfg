SPECIFICATION Spec
CONSTANTS
    Subkeys = {"a", "b", "c", "n"}
    Fresh <- MCFresh
    Files <- MCFiles
    Imports <- MCImports
    Formats = {"GPG", "KBX"}
    Grow = 4
    MaxStarts = 2
    MaxOps = 2
INVARIANTS RingsSound ImportSaved
PROPERTIES SavesAreAtomic KeysSurvive
