\* Callers pass the versions they read; nobody but the workflow changes the
\* records its plan binds; one worker crashes.
CONSTANTS
  w1 = w1
  w2 = w2
  Workers = {w1, w2}
  NoWorker = NoWorker
  NumSteps = 3
  ToolSteps = {2, 3}
  FallibleTools = {}
  FallibleReversals = {}
  VersionedTools = {2}
  LiveVersions = TRUE
  SourcesChange = FALSE
  LeaseTerms = {1}
  ApprovalExpiry = 3
  MaxTime = 2
  MaxCrashes = 1
SPECIFICATION FairSpec
PROPERTIES Recovers
CHECK_DEADLOCK FALSE
