CONSTANTS
  Processes = {"console", "cli"}
  Console = "console"
  MaxResets = 2
  LastDay = 1
  Stories <- BothWays
SPECIFICATION Spec
INVARIANTS TypeOK OnePlanPerSignal StagedIsAnswerable LedgerAgrees UndisturbedDemosFinish
CHECK_DEADLOCK FALSE
