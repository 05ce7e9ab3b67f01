CONSTANTS
  Settings <- MCSettings
  NoSettings = NoSettings
  MaxFailCount = 3
  MaxRequests = 1
  MaxChanges = 1
SPECIFICATION FailingService
PROPERTY GivesUp
CHECK_DEADLOCK FALSE
