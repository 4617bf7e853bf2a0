\* One delivery: its requests overlap at will, anything fails.
CONSTANTS
  Deliveries = {d1}
  NoDelivery = NoDelivery
  Statements <- MCStatements
  Handlers = {h1, h2, h3}
  HandlerBudget = 1
  RetakeAfter = 2
  MaxHasty = 2
  MaxSends = 6
  MaxFaults = 3
SPECIFICATION FairSpec
INVARIANTS IInv ExclusiveHandling RepeatsAreAccounted PatientIsNotLost
PROPERTIES RetriesConverge
