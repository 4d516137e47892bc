SPECIFICATION FairSpec
CONSTANTS
  NumRecords = 3
  Poison = {1}
  JobsCap = 1
  MaxBatch = 1
  Limit = 8
  BlockSize = 2
  RecordBytes = 2
  PackedBytes = 1
  SegmentMax = 3
  CompactMin = 2
  CompactEager = 3
  Clock = {1}
  MaxLate = 1
  MaxFaults = 0
  MaxRot = 0
  MaxOutages = 1
  MaxStops = 1
  PowerLoss = FALSE
INVARIANTS
  CloseDrains
PROPERTIES
  EventuallySettled
  CloseReturns
