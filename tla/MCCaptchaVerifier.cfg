CONSTANTS
  Settings <- MCSettings
  NoSettings = NoSettings
  MaxFailCount = 3
  MaxRequests = 3
  MaxChanges = 3
SPECIFICATION Spec
INVARIANTS
  VerifierSound
PROPERTIES
  EveryRequestAnswered
CHECK_DEADLOCK FALSE
