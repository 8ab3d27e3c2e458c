SPECIFICATION Spec
CONSTANTS
  Conversations = {1, 2, 3}
  Existing = {1, 2}
  Worked = {1, 2}
  Sessions = {s1, s2}
  Customers = {11, 12, 13}
  Tickets = {21}
  Cases = {1, 2, 3, 21}
  Owners <- MCOwners
  Workloads <- MCWorkloads
  Requests <- MCRequests
  Targets = {"resolved"}
  Counter = counter
  Team = team
  None = None
  MaxFaults = 1
INVARIANTS TypeOK EventsTellState ExactlyOnce InFlightHasOwner DeadlocksAreKnown CaseFollowsCustomer
PROPERTIES NumbersStay
SYMMETRY SessionSymmetry
CHECK_DEADLOCK FALSE
