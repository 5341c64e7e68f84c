SPECIFICATION Spec
CONSTANTS
  b1 = b1
  b2 = b2
  h1 = h1
  m1 = m1
  None = None
  Bots = {b1, b2}
  Threads = {h1}
  BotOf <- OneThread
  Msgs = {m1}
  Queueable = {m1}
  Env = {"ok", "lost", "network", "refused", "dbError"}
  MaxTries = 2
  Batch = 2
  MaxRows = 2
  MaxCrashes = 1
INVARIANT DuplicatesHaveACause
PROPERTY ImplementsDurableQueue
