SPECIFICATION Spec
CONSTANTS
  Threads = {t1, t2, t3}
  NoThread = NoThread
  MAX_TRY_COUNT = 1
INVARIANTS
  DeviceExclusive
  BusyIffSession
  StopFindsWorker
  SessionIsCurrent
  AttemptsBounded
PROPERTIES
  StopFreesDevice
  StopReturns
  SessionEnds
  LeaseSpec
