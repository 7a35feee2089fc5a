SPECIFICATION FairSpec
CONSTANTS
  r1 = r1
  r2 = r2
  r2x = r2x
  k1 = k1
  k2 = k2
  Registry = {r1, r2, r2x}
  VersionOf <- MCVersionOf
  KeyOf <- MCKeyOf
  ListsSelf = {r1, r2}
  Key = {k1, k2}
  Bundle <- MCBundle
  MaxTime = 2
  None = None
  Torn = Torn
INVARIANTS TypeOK NoUpdateMissed
PROPERTIES RegistryMovesUp FollowsFile RotationCompletes
