SPECIFICATION Spec
CONSTANTS
  p1 = p1
  p2 = p2
  a1 = a1
  a2 = a2
  u1 = u1
  c1 = c1
  c2 = c2
  None = None
  Procs = {p1, p2}
  Admins = {a1, a2}
  Users = {u1}
  Cases = {c1}
  MaxFaults = 2
  MaxTaps = 4
SYMMETRY Interchangeable
INVARIANT OneWinnerPerCase
INVARIANT ExtraActionsAreExcused
INVARIANT AdminsAreToldTheTruth
INVARIANT HandledMeansDone
CHECK_DEADLOCK FALSE
