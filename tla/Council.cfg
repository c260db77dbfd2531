SPECIFICATION CouncilSpec
CONSTANTS
  MaxSteps = 7
  NoText = NoText
  Party = {a, b, c, other}
  Member = {a, b, c}
  Req = {r1, r2}
  Citation = {c1, c2}
SYMMETRY Symmetry
INVARIANT CouncilTypeOK
INVARIANT UnanimousIsReady
INVARIANT ExecutionJustified
PROPERTY CouncilOutcomeFinal
