\* One account through retries, evictions, deletion and new authorizations.
SPECIFICATION FairSpec
CONSTANTS
    a1 = a1
    a2 = a2
    Account <- OneAccount
    Legacy = {}
    Bare = {a1}
    Deletable <- OneAccount
    Batches <- NoBatch
    MaxVer = 4
    MaxKey = 3
INVARIANT KvMatchesAccounts
PROPERTY JobsDrain
\* the bounds on ciphertexts and keys may leave nothing to do
CHECK_DEADLOCK FALSE
