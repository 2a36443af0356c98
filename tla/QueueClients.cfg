\* The clients at their worst: a Python and a Node client that can be cut off
\* anywhere, one key that may expire, operators who retry any job, two workers, a
\* lease that lapses under a live one, Redis errors that end loops.
CONSTANTS
    j1 = j1  j2 = j2  k1 = k1
    Jobs = {j1, j2}
    NoJob = NoJob
    Keys = {k1}
    NoKey = NoKey
    KeyOf <- MCKeyOf
    PriorityOf <- MCPriorityOf
    MaxAttempts = 1
    BatchLimit = 2
    Clients = {c1, c2}
    NodeClients = {c2}
    KeysExpire = TRUE
    OnlyDeadLetters = FALSE
    MaxRequeues = 1
    Workers = {w1, w2}
    MaxCrashes = 0
    MaxOverruns = 1
    MaxRedisErrors = 1
SYMMETRY WorkerSymmetry
SPECIFICATION Spec
INVARIANTS TypeOK NoJobLost EveryIdHasItsHash DuplicateReturnsOriginal
CHECK_DEADLOCK FALSE
