SPECIFICATION Spec
CONSTANTS
  x = x
  y = y
  mx = mx
  my = my
  cx = cx
  cy = cy
  l1 = l1
  t1 = t1
  t2 = t2
  Blank = Blank
  None = None
  Contacts = {x, y}
  Msgs = {mx, my}
  Sender <- MCSender
  Cids = {cx}
  MyCids = {l1}
  Texts = {t1}
INVARIANT TypedTextAnswersLastQuestion
