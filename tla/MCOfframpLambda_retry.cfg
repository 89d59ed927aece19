CONSTANTS
    Messages = {m1}
    Users = {u1}
    UserOf <- OneUser
    Workers = {w1}
    Faults = {}
    MaxMishaps = 0
    MaxCredits = 1
    MaxLineage = 1
SPECIFICATION FairSpec
PROPERTY RetriedLater
CHECK_DEADLOCK FALSE
