SPECIFICATION Spec
CONSTANTS
  Processes = {p1, p2}
  Paths = {"doc", "c1", "c2", "x", "tmp"}
  Keys = {"ann", "bob"}
  Texts = {"old", "new"}
  Policies <- MCPolicies
  Intermediate <- MCIntermediate
  Commands <- MCCommands
  InitialFiles <- MCInitialFiles
  MAX_ENVELOPE = 2
  MaxCommands = 3
  NoKey = "none"
PROPERTY ForceRequired
CHECK_DEADLOCK FALSE
