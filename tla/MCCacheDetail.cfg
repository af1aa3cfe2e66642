\* Two similar texts, two clients, two points with up to two hits begun one
\* after the other, a lookback window of one.
SPECIFICATION DetailSpec
CONSTANTS
    t1 = t1  t2 = t2
    Texts = {t1, t2}
    Points = {p1, p2}
    Clients = {c1, c2}
    Score <- CloseScore
    Similar <- CloseSimilar
    Threshold = 2
    Lookback = 1
    MaxTime = 3
    MaxHits = 2
    NoPoint = NoPoint
    NoText = NoText
    Open = Open
SYMMETRY Symmetry
INVARIANTS
    DetailTypeOK
    HitsCounted
PROPERTIES
    ImplementsAtomicCache
