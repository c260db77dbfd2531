SPECIFICATION StSpec
CONSTANTS
  Party = {buyer, seller}
  Buyer = buyer
  Seller = seller
  Nobody = Nobody
  Amount = 1
  MaxSteps = 128
  Key = {k1, k2}
  Rand = {r1, r2}
  NoLedger = NoLedger
  NoCipher = NoCipher
  Citation = {}
  NoText = NoText
  Symbol = {}
  NoUnit = NoUnit
  SecondTicks = 1
  ContractID = id
  Created = 1
  Deadline = 2
  Time = {1, 2}
  Proc = {p1, p2}
  NoProc = NoProc
  OpID = {o1, o2}
  StoreAction = {"lock", "agree"}
  MaxCalls = 7
  MaxFaults = 2
SYMMETRY StSymmetry
INVARIANT StTypeOK
INVARIANT FilesRestore
INVARIANT AckedDurable
INVARIANT ViewedDurable
INVARIANT OneResultPerID
PROPERTY RetryHonoured
PROPERTY HistoryOnlyGrows
PROPERTY ImplementsOpLog
CHECK_DEADLOCK FALSE
