CONSTANTS
  Settings <- MCSettings
  NoSettings = NoSettings
  MaxFailCount = 3
  MaxRequests = 3
  MaxChanges = 3
SPECIFICATION Spec
PROPERTY SentUnderNewSettings
CHECK_DEADLOCK FALSE
