\* Two approvers and two dispatchers; requests that expire within the clock's
\* range and beyond it; one dispatcher crashes.
CONSTANTS
  Original = Original
  Backup = Backup
  Tasks = {esc}
  Escalation = esc
  Dispatchers = {d1, d2}
  TaskLease = 1
  ClaimLimit = 1
  EndOfDay = 1
  Expiries <- WithinAndBeyond
  MaxTime = 3
  MaxLag = 1
  MaxCrashes = 1
SPECIFICATION FairSpec
INVARIANTS TypeOK
PROPERTIES ImplementsDecision StalePlanNeverApproved ScheduledEscalates
CHECK_DEADLOCK FALSE
