SPECIFICATION Spec
CONSTANTS
  Persons = {p1, p2}
  Unreadable = unreadable
  NULL = NULL
  NoId = NoId
  ENROLL_FACE_NUM = 1
  MAX_IMAGES = 2
  MAX_ENROLLS = 2
  HWM = 2
INVARIANTS
  AnnouncedComplete
  MatchIsGenuine
PROPERTIES
  HandlerReturns
