\* One long-running worker (docker compose, Kubernetes): Run recovers stale jobs once.
CONSTANTS
  k1 = k1
  k2 = k2
  r1 = r1
  r2 = r2
  Keys <- MCKeys
  NoKey = NoKey
  Repos <- MCRepos
  RepoOf <- MCRepoOf
  JobIds <- MCJobIds
  Workers = {w1}
  BatchWorkers = {}
  NoJob = NoJob
  MaxAttempts = 2
  OverflowAt = 29
  BackoffBase = 1
  BackoffCap = 2
  JobBudget = 1
  StaleAfter = 2
  AttemptBound = 4
  MaxFaults = 2
SPECIFICATION FairSpec
PROPERTIES InterruptedJobsRecover
