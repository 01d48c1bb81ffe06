CONSTANTS
    Dies <- MCDies
    Binaries <- MCSelfTypedef
    ReadSubprograms = TRUE
    MaxLookupDepth = 20

SPECIFICATION Spec

INVARIANT
    LookupTerminates
