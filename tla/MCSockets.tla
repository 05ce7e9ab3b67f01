------------------------------ MODULE MCSockets ------------------------------
(***************************************************************************)
(* What the server does for its sockets, in one specification: connections *)
(* from accept to close, usernames, the history of a chat room and direct  *)
(* chats.  As in MCVm the models share no variable, and a behaviour is one *)
(* of a single part.                                                       *)
(***************************************************************************)
EXTENDS ChatRoom, FiniteSets

CONSTANTS
  Parts,  \* the parts to be checked
  \* see WebServer
  WebSockets, AcceptErrors,
  \* see Usernames
  NameSockets, GuestNames, Accounts, NoName, Nobody, Patient, MaxNameRequests,
  \* see DirectChat
  ChatSockets, Limit, MaxRequests

VARIABLES
  part,
  list, made, stopping, acceptor, accepts, stop_task, phase, connected,
  callback, closing, removing, web, disconnects, expired,
  guests, username, is_logged_in, closed, tasks, map_tasks,
  rooms, next_id, chat_tasks, requests, answers

Web == INSTANCE WebServer WITH Sockets <- WebSockets
Names == INSTANCE Usernames WITH
  Sockets <- NameSockets, Capacity <- MaxNameRequests
Direct == INSTANCE DirectChat WITH
  Sockets <- ChatSockets, next <- next_id, tasks <- chat_tasks

ASSUME PartsAssumption ==
  /\ Parts \subseteq {"web", "names", "room", "direct"}
  /\ Web!WebServerAssumption
  /\ Names!UsernamesAssumption
  /\ Direct!DirectChatAssumption

web_vars == <<list, made, stopping, acceptor, accepts, stop_task, phase,
              connected, callback, closing, removing, web, disconnects,
              expired>>
names_vars == <<guests, username, is_logged_in, closed, tasks, map_tasks>>
direct_vars == <<rooms, next_id, chat_tasks, requests, answers>>
all_vars == <<part, vars, web_vars, names_vars, direct_vars>>

SocketsInit ==
  /\ part \in Parts
  /\ Init /\ Web!Init /\ Names!Init /\ Direct!Init

SocketsNext ==
  /\ UNCHANGED part
  /\ \/ /\ part = "web" /\ Web!Next
        /\ UNCHANGED <<vars, names_vars, direct_vars>>
     \/ /\ part = "names" /\ Names!Next
        /\ UNCHANGED <<vars, web_vars, direct_vars>>
     \/ /\ part = "room" /\ Next
        /\ UNCHANGED <<web_vars, names_vars, direct_vars>>
     \/ /\ part = "direct" /\ Direct!Next
        /\ UNCHANGED <<vars, web_vars, names_vars>>

\* Every part has the fairness of its module.  At rest only the web server has
\* something to do, its first accept.
SocketsFairness ==
  /\ part # "web" \/ Web!Fairness
  /\ Names!Fairness /\ Direct!Fairness

SocketsSpec == SocketsInit /\ [][SocketsNext]_all_vars /\ SocketsFairness

-----------------------------------------------------------------------------
(* Properties *)

\* An open connection is in the list, and one that ended is erased from it
\* once.
ConnectionsListed == Web!TypeOK /\ Web!ErasesListed /\ Web!OpenIsListed

\* A connection that ended is taken off the list, and OnDisconnect() is called
\* for it; after an interrupt every connection is closed and no operation is
\* left.
ConnectionsEnd == Web!ClosedIsForgotten /\ Web!StopEnds

\* No two guests are left with the same name, and each holds its name, and no
\* other, in guests_.
NamesSound == Names!TypeOK /\ Names!UniqueNames /\ Names!HoldsItsName

\* A registered user keeps the name of the account.
KeepsAccountName == Names!KeepsAccountName

\* A guest that disconnects gives back the names it held.
NamesReturn == Names!NamesReturn

\* Direct chats keep the limit and are not doubled, and every request is
\* answered, or its two ends are linked.
DirectChatsSound ==
  /\ Direct!TypeOK /\ Direct!LimitHolds /\ Direct!OneRoomEach
  /\ Direct!AnsweredOrLinked

\* Every request for a direct chat comes to an end.
RequestsEnd == Direct!RequestsEnd

(* Properties that are checked with other constants; see the README. *)

\* A running server goes on accepting: holds without errors of accept itself.
GoesOnAccepting == Web!GoesOnAccepting

\* A request is given up after sixty seconds: violated.
DeadlineIsKept == Web!DeadlineIsKept

\* No two guests are left with the same name: violated unless clients wait.
UniqueNames == Names!UniqueNames
=============================================================================
