\* Two accounts, one stored by an old release, imports and refreshes, no deletion.
SPECIFICATION FairSpec
CONSTANTS
    a1 = a1
    a2 = a2
    Account <- TwoAccounts
    Legacy = {a1}
    Bare = {}
    Deletable <- NoAccount
    Batches <- BothInOneBatch
    MaxVer = 2
    MaxKey = 2
INVARIANT MirrorIsCurrent
PROPERTY CiphertextAdvances
\* the bounds on ciphertexts and keys may leave nothing to do
CHECK_DEADLOCK FALSE
