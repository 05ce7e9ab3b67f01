CONSTANTS
  u1 = u1
  u2 = u2
  u3 = u3
  Users <- MCUsers
  Admins <- MCAdmins
  TurnTimes <- MCTurnTimes
  NoUser = NoUser
  MaxReady = 2
SPECIFICATION Spec
INVARIANTS
  QueueMatchesPositions
  TurnIsTimed
  DisabledIsEmpty
  ClientsSeeQueue
PROPERTIES
  NoOvertaking
  QueueDrains
