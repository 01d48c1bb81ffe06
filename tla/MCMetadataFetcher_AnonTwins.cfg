CONSTANTS
    Dies <- MCDies
    Binaries <- MCAnonTwins
    ReadSubprograms = TRUE
    MaxLookupDepth = 20

SPECIFICATION Spec

INVARIANT
    IndexNamesResolve
