SPECIFICATION FairSpec
CONSTANTS
    Logins = {s1, s2}
    Polled = {s1}
    Polls = {p1, p2}
    Panel = {p1}
    Ctxs <- MCCtxs
    None = None
    MaxFiles = 1
    LoginTTL = 2
    ResultTTL = 1
    MaxNow = 3
    MaxCrashes = 1
INVARIANT NeverRepeated
INVARIANT OneConsumer
INVARIANT CheckpointFirst
 
INVARIANT DirectoryUsable
PROPERTY LoginsEnd
CHECK_DEADLOCK FALSE
