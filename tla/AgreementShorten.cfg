SPECIFICATION Spec
CONSTANTS
  Party = {buyer, seller, other}
  Buyer = buyer
  Seller = seller
  Nobody = Nobody
  Amount = 2
  MaxSteps = 3
  Key = {}
  Rand = {}
  NoLedger = NoLedger
  NoCipher = NoCipher
  Citation = {c1}
  NoText = NoText
  Symbol = {}
  NoUnit = NoUnit
  SecondTicks = 2
  Time = {1, 2}
  Due = {2, 4}
  Partial = {}
PROPERTY DeadlineNeverShortened
