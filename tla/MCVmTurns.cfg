CONSTANTS
  s1 = s1
  s2 = s2
  vm1 = vm1
  vm2 = vm2
  Sockets <- MCSockets
  Vms <- MCVms
  NoVm = NoVm
  NoSocket = NoSocket
  MaxTasks = 2
SPECIFICATION Spec
PROPERTY RemovesTheUser
CHECK_DEADLOCK FALSE
