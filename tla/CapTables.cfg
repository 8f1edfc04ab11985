SPECIFICATION Spec
CONSTANTS
    SlotCount = 2
    ObjectCount = 2
    EpochMod = 2
    Badge = {0}
    NoCap = NoCap
    Holder = {h1, h2}
    ObjectKinds = {"Memory"}
    RightsArgs <- MCRightsArgs
    MaxRevokes = 1
    Destroyable = {1}
INVARIANTS
    RevocationComplete
    NoAmplification
SYMMETRY HolderSymmetry
PROPERTY
    SlotsOnlyWeaken
CHECK_DEADLOCK FALSE
