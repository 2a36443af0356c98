\* Two clients enqueue under one key at once.
CONSTANTS
    j1 = j1  j2 = j2  k1 = k1
    Jobs = {j1, j2}
    NoJob = NoJob
    Keys = {k1}
    NoKey = NoKey
    KeyOf <- MCKeyOf
    PriorityOf <- MCPriorityOf
    MaxAttempts = 2
    BatchLimit = 1
    Clients = {c1, c2}
    NodeClients = {}
    KeysExpire = FALSE
    OnlyDeadLetters = TRUE
    MaxRequeues = 0
    Workers = {w1, w2}
    MaxCrashes = 1
    MaxOverruns = 0
    MaxRedisErrors = 0
SPECIFICATION Spec
INVARIANTS OneJobPerKey
CHECK_DEADLOCK FALSE
