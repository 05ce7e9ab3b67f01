SPECIFICATION SocketsSpec
CONSTANTS
  Parts = {"web", "names", "room", "direct"}
\* Two sockets, of which one is accepted while the other is used or closed.
  WebSockets = {"s1", "s2"}
  AcceptErrors = TRUE
\* Two guests, an account, and a name that is free beside the guests' names.
  NameSockets = {"s1", "s2"}
  GuestNames = {"g1", "g2", "g3"}
  Accounts = {"a1"}
  NoName = ""
  Nobody = "nobody"
  Patient = TRUE
  MaxNameRequests = 2
\* Three sockets with two rooms each and three requests, so that rooms fill up
\* while others are being opened.
  ChatSockets = {"s1", "s2", "s3"}
  Limit = 2
  MaxRequests = 3
  Texts = {t1, t2, t3}
  Senders = {s1}
  Types = {guest, admin}
  Capacity = 4
  Blank = Blank
INVARIANTS ConnectionsListed  
PROPERTIES    ImplementsLog 
CHECK_DEADLOCK FALSE
