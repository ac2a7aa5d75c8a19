CONSTANTS
    t1 = t1
    t2 = t2
    t3 = t3
    a1 = a1
    a2 = a2
    Turn <- TwoTurns
    NoTurn = NoTurn
    Account <- TwoAccounts
    NoAccount = NoAccount
    Mortal = {}
    Impatient = {}
    Reviewed = {}
    Lossy = {}
    MaxConv = 3
SPECIFICATION Spec
PROPERTY RunningTurnKept
CHECK_DEADLOCK FALSE
