\* The queue and its history: two jobs of one key that may expire, a worker that dies,
\* a write PostgreSQL fails; no write is still pending when its job is taken up again.
CONSTANTS
    j1 = j1  j2 = j2  k1 = k1
    Jobs = {j1, j2}
    NoJob = NoJob
    Keys = {k1}
    NoKey = NoKey
    KeyOf <- MCKeyOf
    PriorityOf <- MCPriorityOf
    MaxAttempts = 2
    BatchLimit = 1
    Clients = {c1}
    NodeClients = {}
    KeysExpire = TRUE
    OnlyDeadLetters = TRUE
    MaxRequeues = 0
    Workers = {w1, w2}
    MaxCrashes = 1
    MaxOverruns = 0
    MaxRedisErrors = 0
    MaxHiccups = 1
    Prompt = TRUE
SYMMETRY WorkerSymmetry
SPECIFICATION MirrorSpec
INVARIANTS MirrorTypeOK EndedRowIsTrue SettledRowIsCurrent StoryIsWhole
PROPERTIES HistoryNeverCostsAJob
CHECK_DEADLOCK FALSE
