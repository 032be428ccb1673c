\* Three discoveries of one account: tokens, the configured list and the generation change.
SPECIFICATION Spec
CONSTANTS
    Calls = {p1, p2, p3}
    Auths = {a1}
    t1 = t1
    t2 = t2
    i1 = i1
    Tokens = {t1, t2}
    Bad = Bad
    NoToken = NoToken
    Identities = {i1}
    IdentityOf <- SharedIdentity
    Lists = {l1}
    NoList = NoList
    Writers = {w1}
    NoCall = NoCall
    Refreshing = FALSE
    MaxGen = 1
    MaxAuth = 1
SYMMETRY TokenSymmetry
CHECK_DEADLOCK FALSE
INVARIANTS
    GenerationGate
    FlightsOwned
    
