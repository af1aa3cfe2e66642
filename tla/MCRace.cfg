\* One request, two calls for it, two workers.
SPECIFICATION HSpec
CONSTANTS
    k1 = k1  k2 = k2  k3 = k3  t1 = t1  t2 = t2  t3 = t3
    Keys = {k1}
    Texts = {t1}
    Points = {p1, p2, p3}
    Calls = {c1, c2}
    Workers = {w1, w2}
    TextsOf <- OneText
    Similar <- Exact
    NoPoint = NoPoint
    NoText = NoText
    NoJob = NoJob
    Open = Open
    MaxRetries = 1
    MaxFaults = 2
SYMMETRY Symmetry
CHECK_DEADLOCK FALSE
INVARIANTS
    TypeOK
    NoOrphan
    DuplicatesBounded
    TasksAccounted
    FailureHasCause
PROPERTIES
    SettledIsFinal
    UsesAtomicCache
