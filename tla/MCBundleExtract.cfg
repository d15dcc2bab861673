SPECIFICATION Spec
CONSTANTS
  Names = {"a", "A", "b", "c:", "d"}
  Drives = {"c:"}
  FoldName <- MCFold
  Byte = {0, 1, 2}
  Zero = 0
  MAX_MANIFEST_SIZE = 4
  Platforms = {"unix", "windows"}
  Payloads <- MCPayloads
  Nodes <- MCNodes
  Trees <- MCTrees
  Foreign <- MCForeign
  MaxEdits = 1
INVARIANTS TypeOK OutputsWhole SuccessComplete WellFormedAccepted
PROPERTIES NeverOverwrites
CHECK_DEADLOCK FALSE
