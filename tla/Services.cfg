SPECIFICATION MCSpec
CONSTANTS
    Ids <- MCIds
    Graphs <- MCGraphs
    Jobs = {j1}
    Workers = {w1, w2}
    Calls = {c1, c2}
    MaxAttempts = 2
    MaxStalls = 2
    NumItems = 4
    Priority <- MCPriority
    Kind <- MCKind
    Payloads = {p1}
    Batches = {b1, b2}
    Retriers = {r1}
    MaxRetries = 3
    Proposals = {p1, p2}
    Keys = {k}
    MinDelay = 1
    MaxTime = 2
    Calcs = {a}
    Requests = {r1, r2}
    MaxQueue = 2
    MaxPaid = 2
    Providers = {p1}
    NoProvider = none
    Executions = {x1}
    FailureThreshold = 3
    SuccessThreshold = 2
    UnhealthyThreshold = 3
    Wallets = {w1, w2}
    NoWallet = none
    Sessions = {s1}
    Challenges = {h1, h2}
    MaxCodeAttempts = 3
    Cleaners = {c1, c2}
    MaxUpstream = 1
    Events = {e1}
    Users = {u1, u2}
    Passes = {q1, q2}
    LastTime = 2
    NumBlocks = 2
    Forks = 2
    Checkers = {i1}
    MaxEventRetries = 1
    MaxFailures = 2
    Policies <- MCPolicies
    Window = 3
    ClockEnd = 7
    MaxGranted = 4
INVARIANTS TypesOK AnswersAreTrue
     OutcomesAgree ProgressIsTrue OrderIsKept ClaimsAreExclusive TimelockHolds  CountersAreBounded
     TokensAreEarned EntriesAreFresh EventEndsOnce  
PROPERTIES ValidatorEnds JobsEnd Recovers
CHECK_DEADLOCK FALSE
