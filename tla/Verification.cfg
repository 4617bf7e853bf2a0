\* Limits of 3 items, 7 bytes, 5 bytes for each, 5 of a context file, 3 of a
\* finding, and 2 areas.
CONSTANTS
  Inputs <- MCInputs
  ModelAnswers <- MCAnswers
  MaxContext = 5
  MaxFinding = 3
  MaxItems = 3
  MaxBytes = 7
  MaxBody = 5
  MaxAreas = 2
CHECK_DEADLOCK FALSE
SPECIFICATION VSpec
INVARIANTS ResultIsWellFormed FoundedClaimsOnly RefusedForCause PromptWithinBudget
