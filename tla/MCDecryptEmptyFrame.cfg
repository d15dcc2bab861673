SPECIFICATION Spec
CONSTANTS
  CHUNK_SIZE = 2
  BATCH_CHUNKS = 2
  TAG_SIZE = 1
  MaxLen = 9
  DamageLens = {0, 2, 5}
  Byte = {1, 2, 3, 4, 5, 6, 7, 8, 9}
  FileKeys = {"this", "other"}
  Stored <- MCStored
  Modes = {"file", "sink"}
  Platforms = {"unix", "windows"}
  Priors = {Absent, Old}
  Absent = Absent
  Old = Old
  Torn = Torn
INVARIANT SuccessAuthenticates
CHECK_DEADLOCK FALSE
