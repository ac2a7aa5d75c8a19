CONSTANTS
  bg = bg
  a1 = a1
  a2 = a2
  a3 = a3
  r1 = r1
  r2 = r2
  Account = {a1, a2, a3}
  NoAccount = NoAccount
  NoEpoch = NoEpoch
  MaxAccounts = 3
  Request = {r1}
  Alarm = {bg}
  OAuth = {bg}
  Kinds = {"transient", "auth"}
  Batches <- OneOrTwo
  SpreadSettings = {FALSE}
  MaxEpoch = 3
  MaxSeq = 4
SPECIFICATION Spec
INVARIANTS AtMostTwoAccounts SequencesDistinct
PROPERTY NoHealthyAccountSkipped
