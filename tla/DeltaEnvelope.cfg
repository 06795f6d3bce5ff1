CONSTANTS
  w1 = w1  w2 = w2
  Worker = {w1, w2}
  Aggregator = aggregator
  p = p  q = q  x = x  y = y
  f = f  g = g  l = l  k = k
  Identity <- MCIdentities
  Own <- MCOwn
  Manifest <- MCManifests
  Bytes = {x, y}
  Missing = Missing
  MaxDamage = 2
SPECIFICATION EnvelopeSpec
SYMMETRY WorkerSymmetry
INVARIANTS AcceptedIsStaged NoDirectoryLeft
CHECK_DEADLOCK FALSE
