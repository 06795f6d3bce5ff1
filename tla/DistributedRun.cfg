CONSTANTS
  w1 = w1  w2 = w2
  Worker = {w1, w2}
  Aggregator = aggregator
  MaxAttempt = 2
  MaxForeign = 1
SPECIFICATION Spec
INVARIANTS TypeOK PublishedIsComplete NoNewerEnvelopePassedOver
PROPERTIES DroppedOnlyAfterEmptyMiss ImplementsAtomicStore
SYMMETRY WorkerSymmetry
CHECK_DEADLOCK FALSE
