SPECIFICATION Spec
CONSTANTS
  README = README
  index = index
  Runs = {r1, r2}
  Files = {README, index}
  Packs = {1, 2}
  Content <- Changing
  ByCodeUnits <- CodeUnits
  ByCollation <- Collation
  LockAttempts = 2
  None = None
  Torn = Torn
  Dead = Dead
  MaxFaults = 1
PROPERTY UnavailableIsTrue
