SPECIFICATION Spec
CONSTANTS
  Fingers = {f1}
  TICKS = 8
  TIMEOUT = 4
  POLL = 2
  LONG = 12
INVARIANTS
  AcquirePromise
  GivesUpInTime
PROPERTIES
  CaptureEnds
