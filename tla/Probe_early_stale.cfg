SPECIFICATION Spec
CONSTANTS
  h1 = h1
  Holder = {h1}
  Self = Self
  Version = {1, 2}
  Tolerance = 1
  Horizon = 3
  Unknown = Unknown
  Failure = {"unreachable", "missing", "invalid"}
PROPERTIES GraceIsGiven
