CONSTANTS
  MaxMessages = 5
  MaxTasks = 3
  Batches <- MCBatches
SPECIFICATION Spec
INVARIANTS
  OneWriteAtATime
  QueueHasSender
PROPERTIES
  ImplementsFifo
  AcceptedIsSent
CHECK_DEADLOCK FALSE
