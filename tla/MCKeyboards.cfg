SPECIFICATION Spec
CONSTANTS
  m1 = m1
  m2 = m2
  Again = Again
  Msgs = {m1, m2}
  MaxUpdates = 5
  MaxFaults = 1
INVARIANT BlockIsToldAsItStands
INVARIANT SeenTwiceHasACause
INVARIANT SeenPromiseKept
CHECK_DEADLOCK FALSE
