SPECIFICATION FairSpec
CONSTANTS
    Reconciles = {p1}
    Keepalives = {k1}
    Operators = {o1}
    Registrars = {g1}
    None = None
    Balances = {b1}
    CN = TRUE
    Legacy = TRUE
    Hasty = FALSE
    Hosts = TRUE
    MaxTok = 3
    MaxMutex = 1
    NoNote = NoNote
    Dead = Dead
INVARIANT TypeOK
INVARIANT ReasonOnlyWhenDisabled
 
PROPERTY RunsReturn
CHECK_DEADLOCK FALSE
