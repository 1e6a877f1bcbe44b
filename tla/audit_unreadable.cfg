CONSTANTS
  Processes = {"console", "cli"}
  Console = "console"
  MaxResets = 1
  LastDay = 0
  Stories <- OnlyQualityHold
SPECIFICATION Spec
INVARIANTS AuditOpens
CHECK_DEADLOCK FALSE
