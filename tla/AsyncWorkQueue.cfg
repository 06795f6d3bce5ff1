CONSTANTS
  i1 = i1  i2 = i2  i3 = i3  i4 = i4  i5 = i5
  Item = {i1, i2, i3, i4, i5}
  InitialItems <- MCInitialItems
  MaxConcurrency = 2
  CompactionThreshold = 2
  NoFailure = NoFailure
SPECIFICATION Spec
INVARIANTS TypeOK BoundedConcurrency ResolvedMeansAllProcessed
PROPERTIES EventuallySettled ImplementsPool
