SPECIFICATION Spec
CONSTANTS
  NumRecords = 3
  Noise = {1}
  Poison = {2}
  MaxBatch = 2
  MaxFiles = 3
  MaxKept = 1
  MaxOutages = 1
  MaxStops = 1
  RaceOpen = TRUE
  RaceStop = FALSE
INVARIANT NoneSkipped
