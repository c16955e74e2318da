SPECIFICATION SafeSpec
CONSTANTS
  Threads = {t1, t2}
  NoThread = NoThread
  MAX_TRY_COUNT = 2
INVARIANTS
  StopReachesCapture
