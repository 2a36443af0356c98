\* Under fair scheduling, with leases that cover the handlers, a worker that dies
\* holding a job and one operator who retries dead letters through the Node API.
CONSTANTS
    j1 = j1  j2 = j2  k1 = k1
    Jobs = {j1, j2}
    NoJob = NoJob
    Keys = {k1}
    NoKey = NoKey
    KeyOf <- MCNoKeys
    PriorityOf <- MCPriorityOf
    MaxAttempts = 2
    BatchLimit = 1
    Clients = {c1}
    NodeClients = {c1}
    KeysExpire = FALSE
    OnlyDeadLetters = TRUE
    MaxRequeues = 1
    Workers = {w1, w2}
    MaxCrashes = 1
    MaxOverruns = 0
    MaxRedisErrors = 0
SPECIFICATION FairSpec
INVARIANTS SingleHolder AttemptsBounded
PROPERTIES SettledIsFinal EveryJobSettles LeasedWorkReturns KeepsFairContract
CHECK_DEADLOCK FALSE
