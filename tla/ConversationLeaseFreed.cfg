CONSTANTS
    t1 = t1
    t2 = t2
    t3 = t3
    a1 = a1
    a2 = a2
    Turn <- TwoTurns
    NoTurn = NoTurn
    Account <- TwoAccounts
    NoAccount = NoAccount
    Mortal = {t1}
    Impatient = {}
    Reviewed = {t1}
    Lossy = {t2}
    MaxConv = 3
SPECIFICATION FairSpec
PROPERTY LeaseIsFreed
CHECK_DEADLOCK FALSE
