SPECIFICATION FairSpec
CONSTANTS
  README = README
  index = index
  Runs = {r1, r2}
  Files = {README, index}
  Packs = {1, 2}
  Content <- Adding
  ByCodeUnits <- CodeUnits
  ByCollation <- CodeUnits
  LockAttempts = 2
  None = None
  Torn = Torn
  Dead = Dead
  MaxFaults = 1
INVARIANT OneInstaller
INVARIANT NoOrphans
PROPERTY LocksKept
PROPERTY ReceiptVouches
PROPERTY NoRollback
PROPERTY Hydrates
