SPECIFICATION Spec
CONSTANTS
  Parts = {"accounts"}
  Names = {"n1", "n2"}
  Empty = ""
  Invites = {"i1", "i2"}
  None = "none"
  MaxUsers = 3
  Patient = FALSE
  MayCrash = FALSE
  Accounts = {"a1", "a2"}
  TwoFactor = {"a2"}
  LoginSockets = {"s1", "s2"}
  Nobody = "nobody"
  Passwords = {"p1", "p2"}
  MaxSessions = 3
  MaxLoginTasks = 2
  OneThread = TRUE
  AddressSockets = {"s1", "s2", "s3", "s4"}
  Limits = {1, 2}
  Wrap = 16
  MayDisable = FALSE
  TurnSockets = {"s1", "s2", "s3"}
  Vms = {"vm"}
  NoVm = "none"
  NoSocket = "nobody"
  MaxTurnTasks = 3
  ChannelSockets = {"s1", "s2"}
  NoName = ""
  Statuses = {"old", "new"}
  Prompt = TRUE
  MaxChannelTasks = 2
INVARIANT UniqueUsernames
