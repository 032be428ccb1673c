\* Two executor calls and a billing query of one account race to mark, merge, evict and lift holds.
SPECIFICATION Spec
CONSTANTS
    Auths = {a1}
    Models = {m1, m2}
    NoModel = NoModel
    Absent = Absent
    Requests = {r1, r2}
    Queries = {q1}
    RateLimitTTL = 1
    ProbeTTL = 2
    MaxHorizon = 2
    MaxEntries = 2
    MaxNow = 1
SYMMETRY Symmetry
INVARIANTS
    TableSound
    AccountHoldProven
PROPERTIES
    HoldNeverWeakened
    
    
