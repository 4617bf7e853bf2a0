\* Two pull requests, a limit that ends a collection before its list, one claim per
\* answer, two edits by hand.
CONSTANTS
  p = p
  q = q
  Numbers = {p, q}
  a = a
  b = b
  typo = typo
  Reasons = {a, b}
  Unknown = Unknown
  Writings <- Lines
  Answers <- Replies
  Limit = 1
  MaxClaims = 1
  MaxChanges = 2
  MaxEdits = 2
SPECIFICATION Spec
INVARIANTS IInv ReportsScorableOnly AveragesAgree UnknownStandsAlone
