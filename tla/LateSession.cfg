SPECIFICATION Spec
CONSTANTS
    t1 = t1
    t2 = t2
    a = a
    b = b
    Tabs = {t1}
    Accounts = {a}
    Abilities <- LogoutOnly
    DbMayFail = FALSE
    MaxFetch = 2
    MaxSignIns = 2
    NoAccount = NoAccount
    NoRecord = NoRecord
    Corrupt = Corrupt
    Nothing = Nothing
    NoLoad = NoLoad
    NoEpoch = NoEpoch
PROPERTIES SignedOutStays
CHECK_DEADLOCK FALSE
