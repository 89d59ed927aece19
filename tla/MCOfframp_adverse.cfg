CONSTANTS
    t1 = t1
    t2 = t2
    x1 = x1
    x2 = x2
    s1 = s1
    s2 = s2
    s3 = s3
    None = None
    TxIds = {t1, t2}
    Hashes = {x1}
    Sales = {s1, s2}
    Handlers = {h1, h2}
    Requests <- SharedHash
    MaxPosts = 1
    MaxMishaps = 0
    Faults = {"overlap"}
    Lag = FALSE
    Advance <- Ties
SPECIFICATION Spec
SYMMETRY Symmetry
INVARIANTS RowsTruthful TruthInv
