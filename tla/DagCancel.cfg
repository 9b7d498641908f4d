SPECIFICATION Spec
CONSTANTS
    Nodes <- MCNodes
    Pos <- MCPos
    Kind <- MCKind
    Dtos <- MCDtos
    Calls = {c1, c2}
    Faults = {}
    NoNode = NoNode
    MCConditions = {"onSuccess"}
PROPERTIES CancelPreventsEnqueue
CHECK_DEADLOCK FALSE
