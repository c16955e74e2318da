SPECIFICATION Spec
CONSTANTS
  Threads = {t1, t2}
  NoThread = NoThread
  Dangling = Dangling
  ENROLL_FACE_NUM = 2
PROPERTY
  StoredFacesOfSession
CHECK_DEADLOCK FALSE
