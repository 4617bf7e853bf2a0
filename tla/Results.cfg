\* An old pull request and a new one; everything may fail anywhere.
CONSTANTS
  PRs = {old, new}
  AnalysedPRs = {old}
  ComparedPRs = {new}
  Retention = 1
  MaxAttempts = 3
  MaxId = 2
CHECK_DEADLOCK FALSE
SPECIFICATION FairSpec
INVARIANTS IInv WholeWhenDone EvidenceIsLostByAgeOnly MatchesOfLastComparison
PROPERTIES OrphansGo
