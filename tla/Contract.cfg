SPECIFICATION CSpec
CONSTANTS
  Party = {buyer, seller, other}
  Buyer = buyer
  Seller = seller
  Nobody = Nobody
  Amount = 2
  MaxSteps = 128
  Key = {k1}
  Rand = {r1, r2}
  NoLedger = NoLedger
  NoCipher = NoCipher
  Citation = {c1, c2}
  NoText = NoText
  Symbol = {}
  NoUnit = NoUnit
  SecondTicks = 2
  ContractID = id
  ForeignID = foreign
  Created = 1
  Deadline = 4
  Time = {0, 1, 3, 4, 5}
SYMMETRY CSymmetry
INVARIANT PaidByBothSignatures
INVARIANT HistoryReplays
INVARIANT ExpiryNeverBlocked
PROPERTY ImplementsLifecycle
CHECK_DEADLOCK FALSE
