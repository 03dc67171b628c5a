SPECIFICATION Spec
CONSTANTS
  Loaders = {l1, l2}
  Pids = {p}
  Pid <- SharedPid
  Inodes = {i1, i2, i3, i4}
  None = None
  Fresh <- AnyOne
  Size = 2
  Systems = {TRUE}
  MaxFaults = 0
INVARIANT NeverLoadsTorn
