SPECIFICATION FairSpec
CONSTANTS
    Nodes <- MCNodes
    Pos <- MCPos
    Kind <- MCKind
    Dtos <- MCDtos
    Calls = {c1, c2}
    Faults = {}
    NoNode = NoNode
    MCConditions = {"onSuccess", "onFailure", "always"}
INVARIANTS RunningHasJob NoStrandedWorkflow
PROPERTIES WorkflowSettles
CHECK_DEADLOCK FALSE
