SPECIFICATION FairSpec
CONSTANTS
  t1 = t1
  t2 = t2
  Targets <- MCTargets
  Reproducible <- MCReproducible
  None = None
  Torn = Torn
  MaxAttempt = 3
  MaxFaults = 2
INVARIANTS
  VerifiedIsPacked
  PackedIsSigned
  NoStaleRestore
PROPERTIES
  RestoresInTheEnd
