SPECIFICATION FairSpec
CONSTANTS
    Auths = {a1, a2}
    Callers = {p1, p2}
    Queries = {}
    Checkins = {}
    Invalidators = {v1}
    Panels = {b1}
    None = None
    Faults = {"credits"}
    Deletions = TRUE
    TTL = 2
    Expiry = 3
    Cap = 1
    MaxNow = 8
PROPERTY CallersReturn
CHECK_DEADLOCK FALSE
