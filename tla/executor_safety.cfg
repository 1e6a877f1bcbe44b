\* A guard and three tools; two workers; leases that run out under a stalled
\* worker; one crash; two tools and two reversals may be refused.  Workers stop
\* when the workflow is finished, and the clock and the crashes are bounded.
CONSTANTS
  w1 = w1
  w2 = w2
  Workers = {w1, w2}
  NoWorker = NoWorker
  NumSteps = 4
  ToolSteps = {2, 3, 4}
  FallibleTools = {2, 4}
  FallibleReversals = {2, 3}
  VersionedTools = {}
  LiveVersions = FALSE
  SourcesChange = FALSE
  LeaseTerms = {1, 2}
  ApprovalExpiry = 2
  MaxTime = 3
  MaxCrashes = 1
SPECIFICATION Spec
SYMMETRY WorkerSymmetry
INVARIANTS TypeOK AtMostOnceEffects RowsConsistent LedgerAgrees OneUnwinder EffectsApproved
PROPERTIES TakeoverAfterExpiry FinishedIsFinal ImplementsSaga
CHECK_DEADLOCK FALSE
