\* pages: two tasks; a search for a run that no table holds ends the behaviour.
CONSTANTS
    Tasks = {t1, t2}
    Boot = t1
    Nothing = Nothing
    IntWidth = 4
    Words = 4
    BootWords = 1
    BootPool <- UpperBootPool
    LastSlot = 10
    Low = 4
    Threshold = 2
    PerTable = 8
    UserPages = {0, 1}
    Runs = {2, 3}
    MaxCalls = 2
SPECIFICATION Spec
INVARIANTS
    NoPageTwice
    PoolHolds
    OwnHalf
    OwnAccesses
CHECK_DEADLOCK FALSE
