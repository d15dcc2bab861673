SPECIFICATION MCSpec
CONSTANTS
  Processes = {p1, p2}
  SigningBases = {"team"}
  HybridBases = {"ann", "bob"}
  InitialPairs <- EitherPairs
  Commands <- AllCommands
  MAX_RECIPIENTS = 2
  MaxCommands = 4
  MaxDamaged = 1
INVARIANTS TypeOK PairMatches MembersOpen
SYMMETRY Symmetry
CHECK_DEADLOCK FALSE
