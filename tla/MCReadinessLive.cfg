\* Refreshes and discoveries of two accounts of one identity: every one returns.
SPECIFICATION FairSpec
CONSTANTS
    Calls = {p1, p2}
    Auths = {a1, a2}
    t1 = t1
    t2 = t2
    i1 = i1
    Tokens = {t1}
    Bad = Bad
    NoToken = NoToken
    Identities = {i1}
    IdentityOf <- OneToken
    Lists = {}
    NoList = NoList
    Writers = {}
    NoCall = NoCall
    Refreshing = TRUE
    MaxGen = 1
    MaxAuth = 0
CHECK_DEADLOCK FALSE
PROPERTIES
    CallsReturn
    CatalogNeverRegresses
