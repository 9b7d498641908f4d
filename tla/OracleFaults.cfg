SPECIFICATION FairSpec
CONSTANTS
    Callers = {c1}
    Monitors = {m1, m2}
    Txs = {t1, t2}
    NoTx = NoTx
    MaxRetries = 2
    Ops = {"sign", "submit", "retry", "cleanup"}
    Faults = {"lost", "rpc", "db", "crash"}
INVARIANTS SerialUseIsExact
PROPERTIES SubmittedIsResolved
CHECK_DEADLOCK FALSE
