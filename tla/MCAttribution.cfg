CONSTANTS
    Types <- LayoutTypes
    RootTypes <- LayoutRoots
    Hists <- MCHists
    Indirections <- MCIndirections
    Underscored <- MCUnderscored
    PointerSize = 8

SPECIFICATION Spec

INVARIANTS
    TypeOK
    RecordMatchesReference
    LayoutWellFormed
    CountsConsistent
