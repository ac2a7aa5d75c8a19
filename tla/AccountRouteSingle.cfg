CONSTANTS
  bg = bg
  a1 = a1
  a2 = a2
  a3 = a3
  r1 = r1
  r2 = r2
  Account = {a1, a2}
  NoAccount = NoAccount
  NoEpoch = NoEpoch
  MaxAccounts = 2
  Request = {r1, r2}
  Alarm = {}
  OAuth = {}
  Kinds = {"transient"}
  Batches <- WholePool
  SpreadSettings = {TRUE}
  MaxEpoch = 4
  MaxSeq = 2
SPECIFICATION Spec
SYMMETRY Symmetry
INVARIANT ActiveIsUsable
PROPERTIES EpochNamesRoute LateResultsAreFenced RouteSelectionIsCurrent
