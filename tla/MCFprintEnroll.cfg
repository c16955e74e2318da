SPECIFICATION Spec
CONSTANTS
  f1 = f1
  f2 = f2
  Fingers <- MCFingers
  EarlierTemplates <- MCEarlierTemplates
  Ids = {id1}
  NewId = new
  Nameless = nameless
  NoId = none
  StrayId = stray
  MAX_TRY_COUNT = 14
  SUPPORT_FINGER_NUMBER = 2
INVARIANTS
  DoneOnce
  SuccessRecognised
  StoreWithinLimit
PROPERTIES
  KeepsPromise
  OneFingerStored
  NoDuplicateFinger
  ProgressFallsOnRestart
  Terminates
