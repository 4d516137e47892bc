SPECIFICATION FairSpec
CHECK_DEADLOCK FALSE
CONSTANTS
  v = v
  x = x
  y = y
  z = z
  alwaysHit = alwaysHit
  mergedHit = mergedHit
  w1 = w1
  w2 = w2
  free = free
  Admission = {v, x, z}
  Watched = {y}
  Rules = {alwaysHit, mergedHit}
  Hits <- MCHits
  Batches <- StuckBatches
  Bad <- RefusedRecords
  Stuck = {1}
  Workers = {w1, w2}
  MaxPending = 2
  MaxSends = 3
  MaxFails = 0
  MaxLosses = 0
  MaxCrashes = 1
PROPERTY
  AckedStored
