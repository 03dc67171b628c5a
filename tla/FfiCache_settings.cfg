SPECIFICATION FairSpec
CONSTANTS
  l1 = l1
  l2 = l2
  m1 = m1
  m2 = m2
  p1 = p1
  p2 = p2
  a = a
  b = b
  Loaders = {l1, l2}
  Images = {m1, m2}
  Pids = {p1, p2}
  Libs = {a, b}
  Settings <- AllSettings
  Inodes = {i1, i2, i3, i4, i5}
  None = None
  Fresh <- AnyOne
  Size = 1
  MaxAttempts = 3
  Wrap = 3
  MaxFaults = 1
INVARIANT NeverLoadsTorn
INVARIANT NoSpuriousFailure
INVARIANT NoTempLeftBehind
PROPERTY ImplementsCell
PROPERTY EntriesHeal
