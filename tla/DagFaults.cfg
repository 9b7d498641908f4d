SPECIFICATION Spec
CONSTANTS
    Nodes <- MCNodes
    Pos <- MCPos
    Kind <- MCKind
    Dtos <- MCDtos
    Calls = {c1, c2}
    Faults = {"reject", "silent", "early", "collide"}
    NoNode = NoNode
    MCConditions = {"onSuccess", "always"}
INVARIANTS TypeOK DependenciesHonoured
PROPERTIES CancelDrains
CHECK_DEADLOCK FALSE
SYMMETRY MCSymmetry
