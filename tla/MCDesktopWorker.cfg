SPECIFICATION Spec
CONSTANTS
  Builds = {"unwind", "abort"}
  TOTAL = 2
  MaxTasks = 2
INVARIANTS TypeOK OneOutcome
PROPERTIES ProgressOfTask ResultArrives
