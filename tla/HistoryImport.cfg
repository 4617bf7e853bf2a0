\* Two pages of two for a limit of three.  A tick is 45 seconds.
CONSTANTS
  PRs = {a, b, c}
  PerPage = 2
  Limit = 3
  MaxAttempts = 2
  Timeout = 2
  Margin = 2
  Life = 4
  MaxChanges = 2
CHECK_DEADLOCK FALSE
SPECIFICATION Spec
SYMMETRY Interchangeable
INVARIANTS IInv QuietAreQueued TokenOutlivesImport
