SPECIFICATION ExSpec
CONSTANTS
  alice = alice
  bob = bob
  carol = carol
  h1 = h1
  h2 = h2
  e1 = e1
  e2 = e2
  t1 = t1
  t2 = t2
  None = None
  Skew = 1
  Agent = {alice, bob, carol}
  Holder = {h1, h2}
  Studies <- SmallStudies
INVARIANT ConsentGatesText
INVARIANT ReleasedOpens
INVARIANT ExactRetryHonoured
INVARIANT TradeStory
PROPERTY ConsentFinal
CHECK_DEADLOCK FALSE
