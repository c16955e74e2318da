SPECIFICATION Spec
CONSTANTS
  Threads = {t1, t2}
  NoThread = NoThread
  Dangling = Dangling
  ENROLL_FACE_NUM = 2
INVARIANTS
  OneCapture
  SaveHasImages
  NoFalseCompletion
PROPERTIES
  StopReleasesCamera
  StopReturns
CHECK_DEADLOCK FALSE
