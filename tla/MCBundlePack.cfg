SPECIFICATION Spec
CONSTANTS
  Names = {"a", "b", "c:", "d", "e"}
  Drives = {"c:"}
  FoldName <- MCFold
  Byte = {1, 2}
  Zero = 1
  MAX_MANIFEST_SIZE = 3
  PathOrder <- MCPathOrder
  Directories <- MCDirectories
  BUFFER_SIZE = 1
  Paddings <- MCPaddings
  Priors = {Old, NoFile}
  NoFile = NoFile
  Old = Old
  MaxEdits = 2
  MaxSize = 2
INVARIANTS TypeOK PackedVerifies StableDirectory DiffExact
PROPERTIES Terminates
CHECK_DEADLOCK FALSE
