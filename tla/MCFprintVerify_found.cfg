SPECIFICATION Spec
CONSTANTS
  f1 = f1
  f2 = f2
  Fingers <- MCFingers
  EarlierTemplates <- MCEarlierTemplates
  Ids = {id1, id2}
  NoId = none
  StrayId = stray
  Garbage = garbage
  MAX_TRY_COUNT = 4
  SUPPORT_FINGER_NUMBER = 2
PROPERTIES
  FoundMeansMatched
