CONSTANTS
  a1 = a1
  a2 = a2
  c1 = c1
  c2 = c2
  c3 = c3
  Account = {a1, a2}
  NoAccount = NoAccount
  NoEpoch = NoEpoch
  MaxAccounts = 2
  Caller = {c1, c2, c3}
  NoCaller = NoCaller
  LeaseTime = 3
  Interval = 1
  WaiterTTL = 2
  PollTime = 1
  RunTime = 2
  Fallible = {a1}
  Deletable = {a1}
  Imports = {a1}
  SpreadSettings = {}
  MaxEpoch = 3
  MaxSeq = 3
SPECIFICATION Spec
SYMMETRY Symmetry
INVARIANT HoldersSerialized
PROPERTIES GrantsAreRouted GrantsAreSpaced
