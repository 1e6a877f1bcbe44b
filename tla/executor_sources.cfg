\* Callers pass the versions they read; the bound records change under the
\* plan, for reasons of their own and through the workflow's own effects.
CONSTANTS
  w1 = w1
  w2 = w2
  Workers = {w1, w2}
  NoWorker = NoWorker
  NumSteps = 3
  ToolSteps = {2, 3}
  FallibleTools = {3}
  FallibleReversals = {}
  VersionedTools = {2}
  LiveVersions = TRUE
  SourcesChange = TRUE
  LeaseTerms = {1}
  ApprovalExpiry = 2
  MaxTime = 2
  MaxCrashes = 1
SPECIFICATION Spec
PROPERTIES StalePlanNeverRuns
CHECK_DEADLOCK FALSE
