CONSTANTS
    Dies <- MCDies
    Binaries <- MCBinaries
    ReadSubprograms = TRUE
    MaxLookupDepth = 20

SPECIFICATION Spec

INVARIANTS
    TypeOK
    IndexNamesResolve
    LookupTerminates
    MembersIndexedOnce
