CONSTANTS
    t1 = t1
    t2 = t2
    x1 = x1
    x2 = x2
    s1 = s1
    s2 = s2
    s3 = s3
    None = None
    TxIds = {t1}
    Hashes = {x1}
    Sales = {s1, s2}
    Handlers = {h1, h2}
    Requests <- OneOrder
    MaxPosts = 1
    MaxMishaps = 2
    Faults = {"crash", "lostResponse", "putError", "staleRead"}
    Lag = TRUE
    Advance <- Strict
SPECIFICATION Spec
SYMMETRY Symmetry
PROPERTY ImplementsFiatLeg
INVARIANT LegInv
