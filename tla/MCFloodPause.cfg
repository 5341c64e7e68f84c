SPECIFICATION FairSpec
CONSTANTS
  t1 = t1
  t2 = t2
  Threads = {t1, t2}
  Secs = {0, 1, 3}
  DefaultWait = 2
  MaxInlineRetry = 1
  ReportGap = 3
  MaxFloods = 4
INVARIANT BoundedPileOn
PROPERTY PauseOnlyAfter429
PROPERTY EventuallyUnmuted
