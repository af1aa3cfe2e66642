\* Three prompts t1 ~ t2 ~ t3, t1 not similar to t3, each under its own key.
SPECIFICATION Spec
CONSTANTS
    k1 = k1  k2 = k2  k3 = k3  t1 = t1  t2 = t2  t3 = t3
    Keys = {k1, k2, k3}
    Texts = {t1, t2, t3}
    Points = {p1, p2, p3}
    Calls = {c1, c2, c3}
    Workers = {w1}
    TextsOf <- OneText
    Similar <- Chain
    NoPoint = NoPoint
    NoText = NoText
    NoJob = NoJob
    MaxRetries = 0
    MaxFaults = 1
SYMMETRY Symmetry
CHECK_DEADLOCK FALSE
INVARIANTS
    AnswersItsPrompt
