SPECIFICATION ReleaseSpec
CONSTANTS
  c1 = c1
  c2 = c2
  v1 = v1
  j1 = j1
  j2 = j2
  None = None
  Edited = Edited
  Corrupt = Corrupt
  Job = {j1}
  Commit = {c1}
  Version = {v1}
  Registry = {0, 2, 11}
  Setup = {0}
  Executable = {2}
  Packaging = {11}
  MaxAttempt = 1
  VersionOf <- SameVersion
  PolicyOf <- TwoPolicies
PROPERTIES GreenHidesNothing
CHECK_DEADLOCK FALSE
