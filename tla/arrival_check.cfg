\* Two dispatchers and two tasks; the one that is due first can never be
\* handled.  One dispatcher crashes; claims run out under a stalled one.
CONSTANTS
  t1 = t1
  t2 = t2
  Tasks = {t1, t2}
  Dispatchers = {d1, d2}
  TaskLease = 1
  ClaimLimit = 1
  CheckDue <- OneAfterTheOther
  Unreadable = {t2}
  MaxVersion = 2
  MaxTime = 3
  MaxLag = 1
  MaxCrashes = 1
SPECIFICATION FairSpec
INVARIANTS TypeOK LeasedOnce FollowupsWarranted ResolvedMeansReceived ClosedHadConsequence CancelledIsQuiet
PROPERTIES ChecksEnd
CHECK_DEADLOCK FALSE
