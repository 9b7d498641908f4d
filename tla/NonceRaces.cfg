SPECIFICATION Spec
CONSTANTS
    Callers = {c1, c2, c3}
    NoCaller = NoCaller
    AdminNonces = {0, 1}
    MaxNonce = 2
    Ops = {"increment", "current", "admin", "cleanup", "crash"}
INVARIANTS TypeOK NoncesNeverReused CacheIsCurrent
PROPERTIES ImplementsCounter
SYMMETRY MCSymmetry
CHECK_DEADLOCK FALSE
