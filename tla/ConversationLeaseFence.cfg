CONSTANTS
    t1 = t1
    t2 = t2
    t3 = t3
    a1 = a1
    a2 = a2
    Turn <- ThreeTurns
    NoTurn = NoTurn
    Account <- TwoAccounts
    NoAccount = NoAccount
    Mortal = {t1, t2, t3}
    Impatient = {t1, t2, t3}
    Reviewed = {}
    Lossy = {}
    MaxConv = 3
SPECIFICATION Spec
SYMMETRY Interchangeable
INVARIANTS ConversationKeepsAccount NoDoubleSubmission NoHalfTurnContinued
PROPERTY NoLostUpdate
CHECK_DEADLOCK FALSE
