SPECIFICATION Spec
CONSTANTS
  Processes = {p1, p2}
  Secrets = {"gold", "iron"}
  Stems = {"a", "b"}
  Outputs = {"out"}
  MaxIndex = 3
  Splits <- MCSplits
  InitialShares <- MCInitialShares
  MaxSplits = 2
  MaxCombines = 1
  MaxEdits = 1
  Garbage = "garbage"
SYMMETRY MCSymmetry
INVARIANTS TypeOK RecoveredIsSecret SplitRecoverable
PROPERTY NothingReplaced
CHECK_DEADLOCK FALSE
