SPECIFICATION FairSpec
CONSTANTS
  Files <- MCFiles
  FileOf <- MCFileOf
  Mounts = {"disk"}
  NumChunks = 2
  Workers = {w1, w2}
  MaxWrites = 2
  MaxReads = 1
  MaxWait = 1
CHECK_DEADLOCK FALSE
INVARIANTS
  TypeOK
  MatchCoversCollection
  StatPathSound
  NoFalseAlarm
  MarkerMeansInFlight
PROPERTIES
  RunEnds
