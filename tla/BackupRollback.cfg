SPECIFICATION Spec
CONSTANTS
    Items = {i1, i2}
    MaxVersion = 2
    MaxFailures = 1
    NoItem = NoItem
    NoArchive = NoArchive
SYMMETRY ItemSymmetry
CHECK_DEADLOCK FALSE
INVARIANTS
    RollbackRestores
