\* A long-running worker, a cron invocation and two faults; the
\* backoff overflows at the fourth attempt, so FailJobRejected happens.
CONSTANTS
  k1 = k1
  k2 = k2
  r1 = r1
  r2 = r2
  Keys <- MCKeys
  NoKey = NoKey
  Repos <- MCRepos
  RepoOf <- MCRepoOf
  JobIds <- MCJobIds
  Workers = {w1, w2}
  BatchWorkers = {w2}
  NoJob = NoJob
  MaxAttempts = 2
  OverflowAt = 4
  BackoffBase = 1
  BackoffCap = 2
  JobBudget = 1
  StaleAfter = 2
  AttemptBound = 5
  MaxFaults = 2
SPECIFICATION FairSpec
INVARIANTS IInv ExclusiveExecution AttemptsAccounted
PROPERTIES TerminalIsFinal ImplementsLease JobsSettle InterruptedJobsRecover
