CONSTANTS
    Types <- BlueprintTypes
    Indirections <- MCIndirections
    Underscored <- MCUnderscored
    PointerSize = 8
    SwissInputs <- MCSwissInputs
    BtreeInputs <- MCBtreeInputs

SPECIFICATION Spec

INVARIANTS
    BtreeInternalRecognised
    MergedSlotKeepsLayout
