CONSTANTS
  f1 = f1  f2 = f2  f3 = f3  root = root  d = d  e = e  p = p  q = q
  ManagedFile = {f1, f2, f3}
  Dir = {root, d, e}
  Root = root
  Parent <- MCParent
  Partition = {p, q}
  Pattern <- MCPattern
  Excluded <- MCExcluded
  Protected = {f2}
  MaxActions = 3
SPECIFICATION GcSpec
CHECK_DEADLOCK FALSE
INVARIANTS EachPathOnce StillFilesAreListed RecentLostOnlyAfterScan QuietGcIsComplete
