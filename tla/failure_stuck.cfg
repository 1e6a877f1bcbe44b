\* One crash while a refused tool is recorded and unwound.
CONSTANTS
  w1 = w1
  w2 = w2
  Workers = {w1, w2}
  NoWorker = NoWorker
  NumSteps = 3
  ToolSteps = {2, 3}
  FallibleTools = {2, 3}
  FallibleReversals = {}
  VersionedTools = {}
  LiveVersions = FALSE
  SourcesChange = FALSE
  LeaseTerms = {1}
  ApprovalExpiry = 3
  MaxTime = 2
  MaxCrashes = 1
SPECIFICATION FairSpec
PROPERTIES FailureUnwinds
CHECK_DEADLOCK FALSE
