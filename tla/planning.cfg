\* Each scenario once; others change or add up to MaxEdits rows and
\* the date changes once.
CONSTANTS
  Original = Original
  Backup = Backup
  Plants = {"here"}
  Edited <- MCEdited
  Arrivals <- MCArrivals
  MaxEdits = 2
  Scopes = {"erp:read", "mail:read", "calendar:read", "erp:po:reroute", "erp:lot:write", "erp:po:hold", "production:notify"}
  ApprovalLimit = 4
  Seed <- MCSeed
  Scenarios = {"A", "B", "C"}
  Watched = "order"
  Utterances <- MCUtterances
  LastDay = 1
SPECIFICATION FairSpec
INVARIANTS TypeOK NoFalseStale ApprovedOnHeldEvidence ApprovedPlanFits WholeAnswersOnly
PROPERTIES UnchangedIsDecided
CHECK_DEADLOCK FALSE
