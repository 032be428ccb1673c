SPECIFICATION Spec
CONSTANTS
    Auths = {a1}
    Callers = {p1, p2}
    Queries = {q1}
    Checkins = {k1, k2}
    Invalidators = {}
    Panels = {}
    None = None
    Faults = {"status"}
    Deletions = FALSE
    TTL = 2
    Expiry = 3
    Cap = 2
    MaxNow = 12
SYMMETRY RunSymmetry
INVARIANT OneFetcher
 
 
CHECK_DEADLOCK FALSE
