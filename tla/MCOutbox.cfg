SPECIFICATION FairSpec
CONSTANTS
  b1 = b1
  b2 = b2
  h1 = h1
  m1 = m1
  None = None
  Bots = {b1}
  Threads = {h1}
  BotOf <- OneThread
  Msgs = {m1}
  Queueable = {m1}
  Env = {"ok", "lost", "network", "shortFlood", "longFlood", "refused", "other"}
  MaxTries = 3
  Batch = 2
  MaxRows = 2
  MaxCrashes = 1
INVARIANT DuplicatesHaveACause
INVARIANT SentIsNotQueued
INVARIANT FailedSendIsQueued
PROPERTY RowsDrain
