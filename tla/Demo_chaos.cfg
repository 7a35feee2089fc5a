SPECIFICATION FairSpec
CONSTANTS
  a = a
  b = b
  c = c
  Order <- MCOrder
  Watched = b
  Origin = Origin
INVARIANTS ChaosCleansUp
PROPERTIES WalkIsHonest VisitorIsAnswered TakesTurns ComesBack
