SPECIFICATION FairSpec
CONSTANTS
  NumRecords = 3
  Noise = {1}
  Poison = {2}
  MaxBatch = 2
  MaxFiles = 3
  MaxKept = 1
  MaxOutages = 1
  MaxStops = 1
  RaceOpen = FALSE
  RaceStop = FALSE
INVARIANTS
  TypeOK
  NoneSkipped
  CheckpointAcked
  HeadroomHonest
PROPERTIES
  OldestFirst
  AllDelivered
