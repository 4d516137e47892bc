SPECIFICATION Spec
CHECK_DEADLOCK FALSE
SYMMETRY WorkerSymmetry
CONSTANTS
  v = v
  x = x
  y = y
  z = z
  alwaysHit = alwaysHit
  mergedHit = mergedHit
  w1 = w1
  w2 = w2
  free = free
  Admission = {x}
  Watched = {y}
  Rules = {alwaysHit, mergedHit}
  Hits <- MCHits
  Batches <- SharedBatches
  Bad = {}
  Stuck = {}
  Workers = {w1, w2}
  MaxPending = 2
  MaxSends = 4
  MaxFails = 1
  MaxLosses = 1
  MaxCrashes = 1
INVARIANTS
  TypeOK
  OneRow
  AlertOnce
  AckedKept
