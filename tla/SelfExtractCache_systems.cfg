SPECIFICATION FairSpec
CONSTANTS
  Loaders = {l1, l2}
  Pids = {l1, l2}
  Pid <- DistinctPids
  Inodes = {i1, i2, i3, i4}
  None = None
  Fresh <- AnyOne
  Size = 1
  Systems = {TRUE, FALSE}
  MaxFaults = 2
INVARIANT EntryNeverTorn
INVARIANT NeverLoadsTorn
INVARIANT NoSpuriousFallback
PROPERTY UnsafeDirNeverWritten
PROPERTY ImplementsCell
PROPERTY EntryHeals
