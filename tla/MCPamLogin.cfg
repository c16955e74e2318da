SPECIFICATION Spec
CONSTANTS
  Clients = {c1}
  NoClient = NoClient
  Stranger = stranger
  NoId = none
  MAX_TRY_COUNT = 2
  MAX_CALLS = 2
  MAX_SIGNALS = 1
INVARIANTS
  NoModeSkipped
  NoSessionLeft
  SilenceOnlyIfDisturbed
PROPERTIES
  LoginEnds
CHECK_DEADLOCK FALSE
