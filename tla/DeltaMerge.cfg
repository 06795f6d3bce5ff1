CONSTANTS
  c1 = c1  c2 = c2  l1 = l1  l2 = l2
  Path = {p1}
  Content = {c1, c2}
  Time = {1, 2}
  Layout = {l1, l2}
  MaxPackages = 3
  Absent = Absent
SPECIFICATION Spec
SYMMETRY DataSymmetry
CHECK_DEADLOCK FALSE
INVARIANTS PayloadBacksEntry NewestIsApplied LosersPermitNothing StrictMergeIsOrderFree
