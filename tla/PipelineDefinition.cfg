SPECIFICATION FairSpec
CONSTANTS
    Kinds <- AllKinds
    Segments <- AllSegments
    Names <- AllNames
    Item = Item
    External = External
    Definitions <- AllDefinitions
INVARIANTS
    KeysSeparate
    OverlapIsReal
    OrderRespectsInputs
    CycleIsReal
    RunEndsInReview
PROPERTIES
    EveryDefinitionIsDecided
CHECK_DEADLOCK FALSE
