CONSTANTS
  MaxMessages = 5
  MaxTasks = 3
  Batches <- MCBatches
SPECIFICATION Spec
INVARIANT NoNullMessage
CHECK_DEADLOCK FALSE
