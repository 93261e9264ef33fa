SPECIFICATION Spec
CONSTANTS
    t1 = t1
    t2 = t2
    a = a
    b = b
    Tabs = {t1, t2}
    Accounts = {a, b}
    Abilities <- Readers
    DbMayFail = FALSE
    MaxFetch = 2
    MaxSignIns = 3
    NoAccount = NoAccount
    NoRecord = NoRecord
    Corrupt = Corrupt
    Nothing = Nothing
    NoLoad = NoLoad
    NoEpoch = NoEpoch
PROPERTIES PriorAccountsStayOut
CHECK_DEADLOCK FALSE
