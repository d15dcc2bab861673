SPECIFICATION Spec
CONSTANTS
  Names = {"A", "a"}
  Drives = {}
  FoldName <- MCFold
  Byte = {1, 2}
  Zero = 1
  MAX_MANIFEST_SIZE = 3
  PathOrder <- MCCaseOrder
  Directories <- MCCaseDirectories
  BUFFER_SIZE = 1
  Paddings <- MCPaddings
  Priors = {Old, NoFile}
  NoFile = NoFile
  Old = Old
  MaxEdits = 0
  MaxSize = 2
INVARIANT PackedOpens
CHECK_DEADLOCK FALSE
