SPECIFICATION Spec
CONSTANTS
  NumRecords = 3
  Poison = {}
  JobsCap = 1
  MaxBatch = 1
  Limit = 8
  BlockSize = 2
  RecordBytes = 2
  PackedBytes = 1
  SegmentMax = 3
  CompactMin = 2
  CompactEager = 3
  Clock = {0, 1}
  MaxLate = 0
  MaxFaults = 1
  MaxRot = 0
  MaxOutages = 1
  MaxStops = 1
  PowerLoss = TRUE
INVARIANTS
  TypeOK
  SpoolInv
  AcceptedNotLost
  ListOnDisk
  BytesMatchList
  RunStaysInList
  NamesAreFresh
PROPERTIES
  FirstDeliveryInOrder
