CONSTANTS
  p = p  q = q  q2 = q2  r = r
  Path = {p, q, q2, r}
  Rank <- MCRank
  Version = {v1, v2}
  Absent = Absent
SPECIFICATION Spec
INVARIANTS DeltaIsDifference DeltaIsReadable
CHECK_DEADLOCK FALSE
