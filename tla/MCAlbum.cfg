SPECIFICATION AlbumSpec
CONSTANTS
  N = 3
  MaxAgain = 1
  MaxFaults = 1
INVARIANT EachItemOnce
INVARIANT CompleteAlbumArrives
INVARIANT DeleteReachesAll
CHECK_DEADLOCK FALSE
