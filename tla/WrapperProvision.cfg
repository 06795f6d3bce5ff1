CONSTANTS
  Count = 2
  Version = {v, u}
  Bytes = {good, bad}
  Signed = {good}
  Attempts = 2
  None = None
  Malformed = Malformed
  Partial = Partial
  NotAFile = NotAFile
  Unsupported = Unsupported
  MaxRuns = 2
SPECIFICATION Spec
INVARIANTS TypeOK OnlyVerifiedIsPlaced SuccessMeansRetained
CHECK_DEADLOCK FALSE
