SPECIFICATION Spec
CONSTANTS
    Callers = {c1, c2}
    Monitors = {m1, m2}
    Txs = {t1, t2}
    NoTx = NoTx
    MaxRetries = 2
    Ops = {"sign", "submit"}
    Faults = {}
PROPERTIES SubmittedOnce
CHECK_DEADLOCK FALSE
