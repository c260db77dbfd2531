SPECIFICATION FairStSpec
CONSTANTS
  Party = {buyer, seller}
  Buyer = buyer
  Seller = seller
  Nobody = Nobody
  Amount = 1
  MaxSteps = 128
  Key = {k1}
  Rand = {r1, r2}
  NoLedger = NoLedger
  NoCipher = NoCipher
  Citation = {}
  NoText = NoText
  Symbol = {}
  NoUnit = NoUnit
  SecondTicks = 1
  ContractID = id
  Created = 1
  Deadline = 2
  Time = {1}
  Proc = {p1, p2}
  NoProc = NoProc
  OpID = {o1}
  StoreAction = {"lock", "agree"}
  MaxCalls = 4
  MaxFaults = 2
CHECK_DEADLOCK FALSE
PROPERTY CallsReturn
