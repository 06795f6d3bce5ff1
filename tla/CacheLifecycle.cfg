CONSTANTS
  File = {f1, f2}
  JavaMajor = {17}
  MaxOther = 1
  MaxJobAttempt = 2
SPECIFICATION LifecycleSpec
INVARIANTS ExactBase UnsavedIsKnown SuccessIsKept SavedUnderItsBase
CHECK_DEADLOCK FALSE
