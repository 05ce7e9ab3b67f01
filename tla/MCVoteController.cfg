CONSTANTS
  u1 = u1
  u2 = u2
  u3 = u3
  ip1 = ip1
  ip2 = ip2
  Users <- MCUsers
  Ips <- MCIps
  IpOf <- MCIpOf
  Registered <- MCRegistered
  Settings <- MCSettings
  VoteLimit = 2
  Wrap = 4
  MaxRefs = 3
SPECIFICATION Spec
INVARIANTS
  VotesSound
  OneBallotPerAddress
  NobodyLockedOut
PROPERTIES
  MajorityRestarts
  VotesEnd
