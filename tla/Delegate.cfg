SPECIFICATION DelegateSpec
CONSTANTS
  MaxSteps = 8
  NoText = NoText
  Party = {parent, intern, other}
  Parent = parent
  Intern = intern
  Nobody = Nobody
  Citation = {c1, c2}
INVARIANT DelegateTypeOK
INVARIANT StoryOnChain
PROPERTY RewardAssignedOnce
