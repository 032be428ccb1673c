\* Runs of an account with check-in and of one without it share a store of one
\* record, over the end of one day and the whole of the next.
SPECIFICATION FairSpec
CONSTANTS
    a1 = a1
    a2 = a2
    m1 = m1
    Accounts = {a1, a2}
    Globals = {a2}
    Manuals = {m1}
    Cap = 1
    DayLen = 3
    RetryDelays <- MCRetryDelays
    CheckinHours = {0}
    OtherHours = {}
    Start = 1
    MaxNow = 5
    MaxMutex = 1
    MaxActs = 2
INVARIANTS
    RetryBudget
    RecordKept
PROPERTIES
    NoReplay
    RetriesEnd
