\* Both modes: a new pull request with webhooks in order, and everything at
\* once: disorder, repeated deliveries, people.  Jobs fail in both.
CONSTANTS
  Modes = {TRUE, FALSE}
  MaxRev = 4
  MaxRevDisorderly = 2
  MaxReplays = 1
  MaxRetries = 1
CHECK_DEADLOCK FALSE
SPECIFICATION FairSpec
INVARIANTS IInv ArchivedWasMerged SettledStateAgrees OnlyStaleAnalysisMissesMerge
PROPERTIES ClosedGetsTombstone
