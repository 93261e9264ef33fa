SPECIFICATION LiveSpec
CONSTANTS
    t1 = t1
    t2 = t2
    a = a
    b = b
    Tabs = {t1}
    Accounts = {a, b}
    Abilities <- OneTab
    DbMayFail = TRUE
    MaxFetch = 2
    MaxSignIns = 2
    NoAccount = NoAccount
    NoRecord = NoRecord
    Corrupt = Corrupt
    Nothing = Nothing
    NoLoad = NoLoad
    NoEpoch = NoEpoch
INVARIANTS TypeOK ShownIsViewed
PROPERTIES GoodKept LoadingEnds
