SPECIFICATION Spec
CONSTANTS
  p1 = p1
  p2 = p2
  u1 = u1
  u2 = u2
  c1 = c1
  c2 = c2
  c3 = c3
  c4 = c4
  None = None
  Procs = {p1, p2}
  Users = {u1, u2}
  Cids = {c1, c2, c3, c4}
  Chevalets = {c4}
  MaxLimit = 2
  MaxUpdates = 4
SYMMETRY Interchangeable
INVARIANT LimitKept
INVARIANT NoLinkHasAnExcuse
PROPERTY HandlersStartWithALink
PROPERTY RemovalsAreOwn
