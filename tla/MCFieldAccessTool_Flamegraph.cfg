CONSTANTS
    Types <- BuilderTypes
    Indirections <- MCIndirections
    Underscored <- MCUnderscored
    PointerSize = 8
    CallStacks <- MCCallStacks
    HeapAllocSites <- MCHeapAllocSites
    FormalParams <- MCFormalParams
    TypeParams <- NoEntries
    TypeConsts <- NoEntries
    FnInfo <- NoEntries
    CallstackFilter <- MCCallstackFilter
    TypePrefixFilter <- MCTypePrefixFilter
    OnlyRecordsFlags = {TRUE, FALSE}
    DumpUnresolvedFlags = {TRUE, FALSE}
    Profiles <- ToolProfiles
    FlagSets <- ToolFlags
    CreateFailures <- ToolCreateFailures

SPECIFICATION ToolSpec

INVARIANT
    OutputAsRequested
