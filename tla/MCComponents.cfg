\* Two tokens per three seconds, clocks up to one second off; four calls of embed
\* and two loads that raise; two API threads and two workers that construct, two
\* failed requests; two pairs, three writers and two API processes that come and
\* go, one failure; health checks during three changes.
SPECIFICATION ComponentsSpec
CONSTANTS
    Limit = 2
    Window = 3
    Skew = 1
    Buffer = 2
    MaxTime = 12
    Callers = {a, b}
    Embeds = {e1, e2, e3, e4}
    Nobody = Nobody
    MaxFails = 2
    ApiThreads = {a1, a2}
    WorkerStarts = {w1, w2}
    MaxOutages = 2
    Pairs = {k1, k2}
    NoPair = NoPair
    DocIds = {d1, d2, d3, d4}
    ApiProcesses = {b1, b2}
    Writers = {x1, x2, x3}
    InitScript = FALSE
    MaxFailures = 1
    MaxChanges = 3
CHECK_DEADLOCK FALSE
INVARIANTS
    LimiterTypeOK
    RateBounded
    HintWithinASecond
    EmbeddingTypeOK
    LoadedOnce
    ServiceHasCollection
    OnlyOutagesRaise
    IndexedMeansOne
    OutagesReported
PROPERTIES
    BucketSpec
    RoundingIsSafe
    EveryEmbedEnds
    RequestsGetService
