CONSTANTS
  p = p  q = q  old = old  new = new
  Path = {p, q}
  Content = {old, new}
  Now = 2
  Absent = Absent
  Plans <- MCPlans
  MaxForeign = 2
  MaxRuns = 2
SPECIFICATION Spec
CHECK_DEADLOCK FALSE
INVARIANTS RejectedPlanChangesNothing LostOnlyAfterSecondLook DoneMeansDesired
