CONSTANTS
    Types <- ConflictSizeTypes
    RootTypes <- ConflictSizeRoots
    Hists <- MCHists
    Indirections <- MCIndirections
    Underscored <- MCUnderscored
    PointerSize = 8

SPECIFICATION Spec

INVARIANT
    ConflictWinnerMatchesSpec
