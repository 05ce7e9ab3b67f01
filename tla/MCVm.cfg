SPECIFICATION Spec
CONSTANTS
  Parts = {"life", "recording", "filter", "list"}
\* Four clients: a first one, one for a reconnection, and the same again after
\* a stop.
  MaxClients = 4
  Patience = "all"
\* Files with no and with two keyframes; three of them, so that one is replaced
\* while the handlers of another one are late.
  Durations = {0, 2}
  Intervals = {0, 1}
  MaxFiles = 3
  MaxReady = 2
  LateHandlers = TRUE
  Opens = {TRUE, FALSE}
\* Two streams, whose numbers are used again and again.
  Streams = {1, 2}
\* A VM of the database and one that is created.
  Vms = {"v1", "v2"}
  Initial = {"v1"}
  OneThread = TRUE
  Patient = TRUE
  MaxListTasks = 2
INVARIANTS LifecycleSound    ListsAreCurrent
PROPERTIES ClientFollowsVm StatusIsShown FilesEnd 
CHECK_DEADLOCK FALSE
