CONSTANTS
    Types <- ContainerIndex
    Indirections <- MCIndirections
    Underscored <- MCUnderscored
    PointerSize = 8
    FormalParams <- MCFormalParams
    TypeParams <- MCTypeParams
    TypeConsts <- MCTypeConsts
    FnInfo <- MCFnInfo
    CallStackSet <- MCCallStackSet

SPECIFICATION Spec

INVARIANTS
    TypeOK
    FallthroughIsFirstAllocator
