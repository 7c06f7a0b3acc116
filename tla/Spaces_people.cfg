SPECIFICATION Spec
CONSTANTS
    Person = {alex, sam}
    Device = {phone}
    Code = {c1, c2}
    None = None
    PersonMax = 1
    MaxFaults = 1
SYMMETRY Symmetry
INVARIANTS OneOwner DemotionReaches ListedIsEnforced
CHECK_DEADLOCK FALSE
