SPECIFICATION Spec
CONSTANTS
    t1 = t1
    t2 = t2
    a = a
    b = b
    Tabs = {t1, t2}
    Accounts = {a}
    Abilities <- Readers
    DbMayFail = FALSE
    MaxFetch = 3
    MaxSignIns = 2
    NoAccount = NoAccount
    NoRecord = NoRecord
    Corrupt = Corrupt
    Nothing = Nothing
    NoLoad = NoLoad
    NoEpoch = NoEpoch
INVARIANTS StampsTrue
CHECK_DEADLOCK FALSE
