SPECIFICATION Spec
CONSTANTS
  u1 = u1
  None = None
  Users = {u1}
  MaxQuestions = 2
  Sends = {u1, 1, 2}
  QueueMax = 1
  Loops = {1, 2}
  Own = 1
  MaxRows = 1
  MaxFaults = 2
  MaxLives = 2
CONSTRAINT Corners
INVARIANT PoolOutlivesItsUsers
INVARIANT EveryoneMeansEveryone
INVARIANT TwiceHasACause
INVARIANT QuestionsAreLookedAfter
INVARIANT NightlyIsSettled
INVARIANT OneBackupANight
CHECK_DEADLOCK FALSE
