SPECIFICATION FairSpec
CONSTANTS
  n1 = n1
  n2 = n2
  r = r
  x = x
  y = y
  Agent = {n1, n2}
  Rogue = {r}
  Origin = Origin
  Version = {1, 2}
  FilesOf <- MCFilesOf
  Blob = {x, y}
  Junk = Junk
  None = None
INVARIANTS TypeOK OnlyGenuine
PROPERTIES NeverRollsBack ImplementsRegister Converges
