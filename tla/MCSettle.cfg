\* The same as MCRace, one fault, under fairness and without symmetry.
SPECIFICATION FairSpec
CONSTANTS
    k1 = k1  k2 = k2  k3 = k3  t1 = t1  t2 = t2  t3 = t3
    Keys = {k1}
    Texts = {t1}
    Points = {p1, p2, p3}
    Calls = {c1, c2}
    Workers = {w1, w2}
    TextsOf <- OneText
    Similar <- Exact
    NoPoint = NoPoint
    NoText = NoText
    NoJob = NoJob
    MaxRetries = 1
    MaxFaults = 1

CHECK_DEADLOCK FALSE
PROPERTIES
    EventuallySettled
    SettledStaysSettled
