SPECIFICATION Spec
CONSTANTS
  NumRecords = 3
  Poison = {1, 2}
  JobsCap = 2
  MaxBatch = 2
  Limit = 8
  BlockSize = 2
  RecordBytes = 2
  PackedBytes = 1
  SegmentMax = 3
  CompactMin = 2
  CompactEager = 3
  Clock = {1}
  MaxLate = 0
  MaxFaults = 0
  MaxRot = 0
  MaxOutages = 1
  MaxStops = 1
  PowerLoss = FALSE
INVARIANTS
  RejectedKept
