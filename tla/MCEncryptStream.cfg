SPECIFICATION Spec
CONSTANTS
  CHUNK_SIZE = 2
  BATCH_CHUNKS = 2
  TAG_SIZE = 1
  MaxLen = 5
  MaxSource = 6
  MaxEdits = 2
  Byte = {1, 2}
  FileKeys = {"this"}
  Sources <- MCSources
  Platforms = {"unix", "windows"}
  Priors = {Absent, Old}
  Absent = Absent
  Old = Old
  Torn = Torn
INVARIANTS TypeOK CanonicalPayload StableSource
PROPERTIES ImplementsAtomicOutput
CHECK_DEADLOCK FALSE
