SPECIFICATION WSpec
CONSTANTS
  MaxSteps = 2
  NoText = NoText
  Host = {h1}
  Party = {actor, other}
  Actor = actor
  Key = {a, b, c, NoKey}
  NoKey = NoKey
  Fact = {f}
  Root = a
  Clash = b
  Third = c
  Trees <- AllTrees
INVARIANT PathPrescribed
INVARIANT WalkSettles
INVARIANT ValidatedTreeWalks
CHECK_DEADLOCK FALSE
