SPECIFICATION FairSpec
CONSTANTS
    Shapes = {"num", "enum"}
    EnumShapes = {"enum"}
    Instances <- LinkInstances
    maxScans = 2
    removesOutstandingWarning = 2
INVARIANTS
    Consistent
    OneCallback
    LinkValues
PROPERTIES
    LinkFreed
CHECK_DEADLOCK FALSE
