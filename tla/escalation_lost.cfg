\* The requester may stop after its first transaction; nobody else crashes.
CONSTANTS
  Original = Original
  Backup = Backup
  Tasks = {esc}
  Escalation = esc
  Dispatchers = {d1, d2}
  TaskLease = 1
  ClaimLimit = 1
  EndOfDay = 1
  Expiries <- WithinAndBeyond
  MaxTime = 3
  MaxLag = 1
  MaxCrashes = 0
SPECIFICATION FairSpec
PROPERTIES UnansweredEscalates
CHECK_DEADLOCK FALSE
