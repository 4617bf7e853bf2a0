\* A new pull request is closed and reopened; nothing fails.
CONSTANTS
  Modes = {TRUE}
  MaxRev = 2
  MaxRevDisorderly = 0
  MaxReplays = 0
  MaxRetries = 0
CHECK_DEADLOCK FALSE
SPECIFICATION Spec
INVARIANTS ReopenedIsSuspended
