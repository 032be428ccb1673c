SPECIFICATION Spec
CONSTANTS
    Saves = {w1, w2}
    Loads = {r1}
    Missing = Missing
    Corrupt = Corrupt
    Future = Future
    MaxDoc = 4
    MaxCrashes = 1
 
 
PROPERTY FutureUntouched
CHECK_DEADLOCK FALSE
