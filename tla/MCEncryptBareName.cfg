SPECIFICATION Spec
CONSTANTS
  CHUNK_SIZE = 2
  BATCH_CHUNKS = 2
  TAG_SIZE = 1
  MaxLen = 5
  MaxSource = 6
  MaxEdits = 2
  Byte = {1, 2}
  FileKeys = {"this"}
  Sources <- MCSources
  Platforms = {"unix"}
  Priors = {Absent, Old}
  Absent = Absent
  Old = Old
  Torn = Torn
INVARIANT FailureLeavesPath
CHECK_DEADLOCK FALSE
