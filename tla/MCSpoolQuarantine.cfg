SPECIFICATION Spec
CONSTANTS
  NumRecords = 4
  Poison = {1, 2}
  JobsCap = 2
  MaxBatch = 2
  Limit = 4
  BlockSize = 2
  RecordBytes = 2
  PackedBytes = 1
  SegmentMax = 3
  CompactMin = 2
  CompactEager = 3
  Clock = {1}
  MaxLate = 1
  MaxFaults = 0
  MaxRot = 1
  MaxOutages = 2
  MaxStops = 0
  PowerLoss = FALSE
INVARIANTS
  RejectedKept
  DeadIsRejected
  WithinLimit
  DeadCounted
  RejectedCounted
