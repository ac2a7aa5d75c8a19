CONSTANTS
  a1 = a1
  a2 = a2
  c1 = c1
  c2 = c2
  c3 = c3
  Account = {a1, a2}
  NoAccount = NoAccount
  NoEpoch = NoEpoch
  MaxAccounts = 2
  Caller = {c1, c2}
  NoCaller = NoCaller
  LeaseTime = 2
  Interval = 1
  WaiterTTL = 2
  PollTime = 1
  RunTime = 1
  Fallible = {}
  Deletable = {a1}
  Imports = {a1}
  SpreadSettings = {TRUE}
  MaxEpoch = 2
  MaxSeq = 3
SPECIFICATION FairSpec
PROPERTY WaitersProceed
