SPECIFICATION Spec
CONSTANTS
    Callers = {c1, c2}
    NoCaller = NoCaller
    AdminNonces = {}
    MaxNonce = 3
    Ops = {"increment", "current"}
INVARIANTS AnswerIsNext
CHECK_DEADLOCK FALSE
