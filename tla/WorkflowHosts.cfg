SPECIFICATION WSpec
CONSTANTS
  MaxSteps = 2
  NoText = NoText
  Host = {h1, h2}
  Party = {actor, other}
  Actor = actor
  Key = {a, b, c, NoKey}
  NoKey = NoKey
  Fact = {f}
  Root = a
  Clash = b
  Third = c
  Trees <- ClashingTrees
INVARIANT SameFactsSamePath
CHECK_DEADLOCK FALSE
