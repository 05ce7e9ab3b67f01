SPECIFICATION Spec
CONSTANTS
  Parts = {"accounts", "sessions", "address", "turns", "channel"}
\* Two names, two invites and three accounts, so that a name can be registered,
\* invited and renamed to.
  Names = {"n1", "n2"}
  Empty = ""
  Invites = {"i1", "i2"}
  None = "none"
  MaxUsers = 3
  Patient = TRUE
  MayCrash = TRUE
\* An account that two sockets use, and one with a TOTP key.
  Accounts = {"a1", "a2"}
  TwoFactor = {"a2"}
  LoginSockets = {"s1", "s2"}
  Nobody = "nobody"
  Passwords = {"p1", "p2"}
  MaxSessions = 3
  MaxLoginTasks = 2
  OneThread = TRUE
\* Four sockets of an address: one more than the highest limit, and one that
\* takes the place of another.
  AddressSockets = {"s1", "s2", "s3", "s4"}
  Limits = {1, 2}
  Wrap = 16
  MayDisable = FALSE
\* A head, a middle and an end of the queue.
  TurnSockets = {"s1", "s2", "s3"}
  Vms = {"vm"}
  NoVm = "none"
  NoSocket = "nobody"
  MaxTurnTasks = 3
\* A member that watches while another one joins, changes its name and leaves;
\* two logins of an account have the same name.
  ChannelSockets = {"s1", "s2"}
  NoName = ""
  Statuses = {"old", "new"}
  Prompt = TRUE
  MaxChannelTasks = 2
INVARIANTS   ConnectionsCounted PositionsAgree ChannelSound
 
CHECK_DEADLOCK FALSE
