\* Deliveries in order and in any order, statements that fail, and a login.
CONSTANTS
  Installs = {i, j}
  Repos = {r, s}
  None = None
  MaxEvents = 4
  MaxEventsDisorderly = 3
  MaxFaults = 1
  MaxLogins = 1
CHECK_DEADLOCK FALSE
SPECIFICATION Spec
SYMMETRY Interchangeable
INVARIANTS IInv SettledRowsAgree
PROPERTIES DeletedWhenLeft
