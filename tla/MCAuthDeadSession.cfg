SPECIFICATION Spec
CONSTANTS
    Reconciles = {p1}
    Keepalives = {k1}
    Operators = {o1}
    Registrars = {}
    None = None
    Balances = {b1}
    CN = TRUE
    Legacy = TRUE
    Hasty = FALSE
    Hosts = TRUE
    MaxTok = 2
    MaxMutex = 0
    NoNote = NoNote
    Dead = Dead
PROPERTY DeadStaysParked
CHECK_DEADLOCK FALSE
