SPECIFICATION FairSpec
CONSTANTS
  a = a
  b = b
  Member = {a, b}
  Stranger = Stranger
  MaxVersion = 1
  QueueCap = 2
  None = None
INVARIANTS TypeOK SweepSuffices
PROPERTIES PolledForever HintIsHonoured
