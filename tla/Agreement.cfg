SPECIFICATION Spec
CONSTANTS
  Party = {buyer, seller, other}
  Buyer = buyer
  Seller = seller
  Nobody = Nobody
  Amount = 2
  MaxSteps = 5
  Key = {k1, k2}
  Rand = {r1, r2}
  NoLedger = NoLedger
  NoCipher = NoCipher
  Citation = {c1}
  NoText = NoText
  Symbol = {nex}
  NoUnit = NoUnit
  SecondTicks = 2
  Time = {1, 3}
  Due = {3, 4}
  Partial <- SomePartials
SYMMETRY Symmetry
INVARIANT TypeOK
INVARIANT ChainTellsOutcome
INVARIANT FundedExactly
INVARIANT SealsReceipted
INVARIANT ProofAvailable
INVARIANT CheckpointRestores
INVARIANT DeadlineOnLedger
PROPERTY NoSilentChange
PROPERTY NoTakeback
