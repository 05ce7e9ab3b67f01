----------------------------- MODULE Usernames ------------------------------
(***************************************************************************)
(* The names of the users: every socket has a username_ with a strand of   *)
(* its own, and the server has a map guests_, with another strand, from    *)
(* the names that guests hold to their sockets.  A guest is given a name   *)
(* when it first connects to a channel, may change it, takes the name of   *)
(* its account when it logs in, and gives its name back when it            *)
(* disconnects.  Each of these is a chain of tasks on the two strands, and *)
(* the tasks of two chains interleave.                                     *)
(*                                                                         *)
(* Names that differ in case only are one name here, as they are one key   *)
(* of guests_.                                                             *)
(***************************************************************************)
EXTENDS Naturals, Sequences, FiniteSets

CONSTANTS
  Sockets,
  GuestNames,   \* bound: names "guest<n>" and names that guests ask for
  Accounts,     \* usernames of accounts
  NoName,       \* the empty username
  Nobody,       \* no socket
  Patient,      \* sockets wait until one request is done before the next
  Capacity      \* bound: requests of a socket that are under way

Names == GuestNames \cup Accounts

\* What the constants are.
UsernamesAssumption ==
  /\ NoName \notin Names /\ Nobody \notin Sockets
  /\ Patient \in BOOLEAN /\ Capacity \in Nat

VARIABLES
  guests,       \* guests_: the socket that holds each name, or Nobody
  username,     \* username_ of each socket, or NoName
  is_logged_in, \* is_logged_in_ of each socket
  closed,       \* sockets that are closed
  tasks,        \* tasks on the strand of each username_
  map_tasks     \* tasks on the strand of guests_

vars == <<guests, username, is_logged_in, closed, tasks, map_tasks>>

Task(op, n) == [op |-> op, name |-> n]
MapTask(op, s, n, current) ==
  [op |-> op, socket |-> s, name |-> n, current |-> current]

Init ==
  /\ guests = [n \in Names |-> Nobody]
  /\ username = [s \in Sockets |-> NoName]
  /\ is_logged_in = [s \in Sockets |-> FALSE]
  /\ closed = {}
  /\ tasks = [s \in Sockets |-> <<>>]
  /\ map_tasks = <<>>

-----------------------------------------------------------------------------
(* The socket's strand *)

\* Nothing that s asked for is still to be done.
Idle(s) ==
  tasks[s] = <<>> /\ \A i \in DOMAIN map_tasks : map_tasks[i].socket # s

\* s is open, and is ready for its next message (the latter a choice of the
\* client, and not of the code).
MaySend(s) ==
  /\ s \notin closed
  /\ Patient => Idle(s)
  /\ Len(tasks[s])
       + Cardinality({i \in DOMAIN map_tasks : map_tasks[i].socket = s})
       < Capacity

Dispatch(s, task) == tasks' = [tasks EXCEPT ![s] = Append(@, task)]

\* CONNECT_TO_CHANNEL
ConnectToChannel(s) ==
  /\ MaySend(s)
  /\ Dispatch(s, Task("connect", NoName))
  /\ UNCHANGED <<guests, username, is_logged_in, closed, map_tasks>>

\* Faulty variant: registered users are not refused.
ChangeUsername_Anyone(s, n) ==
  /\ MaySend(s)
  /\ Dispatch(s, Task("change", n))
  /\ UNCHANGED <<guests, username, is_logged_in, closed, map_tasks>>

\* CHANGE_USERNAME; last_username_change_ is never assigned, so that the rate
\* limit refuses nothing.
ChangeUsername(s, n) ==
  /\ MaySend(s) /\ ~is_logged_in[s]
  /\ Dispatch(s, Task("change", n))
  /\ UNCHANGED <<guests, username, is_logged_in, closed, map_tasks>>

\* CreateSession() after a LOGIN_REQUEST or a registration, on the strand of
\* the sessions.
CreateSession(s, n) ==
  /\ MaySend(s)
  /\ is_logged_in' = [is_logged_in EXCEPT ![s] = TRUE]
  /\ Dispatch(s, Task("set", n))
  /\ UNCHANGED <<guests, username, closed, map_tasks>>

OnDisconnect(s) ==
  /\ MaySend(s)
  /\ closed' = closed \cup {s}
  /\ Dispatch(s, Task("disconnect", NoName))
  /\ UNCHANGED <<guests, username, is_logged_in, map_tasks>>

-----------------------------------------------------------------------------
(* The strand of a username_ *)

Run(s, op) ==
  /\ tasks[s] # <<>> /\ Head(tasks[s]).op = op
  /\ tasks' = [tasks EXCEPT ![s] = Tail(@)]

\* A task is given to the strand of guests_ if the condition holds.
DispatchIf(condition, task) ==
  map_tasks' = IF condition THEN Append(map_tasks, task) ELSE map_tasks

\* Only a socket without a name is given one.
Connect(s) ==
  /\ Run(s, "connect")
  /\ DispatchIf(username[s] = NoName, MapTask("generate", s, NoName, NoName))
  /\ UNCHANGED <<guests, username, is_logged_in, closed>>

Change(s) ==
  LET n == Head(tasks[s]).name IN
  /\ Run(s, "change")
  /\ DispatchIf(username[s] # n, MapTask("change", s, n, username[s]))
  /\ UNCHANGED <<guests, username, is_logged_in, closed>>

\* SetUserData()
Set(s) ==
  /\ Run(s, "set")
  /\ username' = [username EXCEPT ![s] = Head(tasks[s]).name]
  /\ UNCHANGED <<guests, is_logged_in, closed, map_tasks>>

\* Faulty variant: the name is not given back.
Disconnect_Keeps(s) ==
  /\ Run(s, "disconnect")
  /\ UNCHANGED <<guests, username, is_logged_in, closed, map_tasks>>

\* The name is moved out of username_, and given back.
Disconnect(s) ==
  /\ Run(s, "disconnect")
  /\ DispatchIf(username[s] # NoName,
                MapTask("erase", s, username[s], NoName))
  /\ username' = [username EXCEPT ![s] = NoName]
  /\ UNCHANGED <<guests, is_logged_in, closed>>

-----------------------------------------------------------------------------
(* The strand of guests_ *)

RunMap(op) ==
  /\ map_tasks # <<>> /\ Head(map_tasks).op = op
  /\ map_tasks' = Tail(map_tasks)

Free(n) == guests[n] = Nobody

\* A random number, incremented until "guest<number>" is free.
GenerateUsername ==
  LET s == Head(map_tasks).socket IN
  /\ RunMap("generate")
  /\ \E n \in GuestNames :
       /\ Free(n)
       /\ guests' = [guests EXCEPT ![n] = s]
       /\ Dispatch(s, Task("set", n))
  /\ UNCHANGED <<username, is_logged_in, closed>>

\* Faulty variant: the old name is erased before the new one is known to be
\* free.
ChangeGuest_EraseFirst ==
  LET t == Head(map_tasks) IN
  /\ RunMap("change")
  /\ \/ /\ Free(t.name)
        /\ guests' = [n \in Names |-> IF n = t.name THEN t.socket
                                      ELSE IF n = t.current THEN Nobody
                                      ELSE guests[n]]
        /\ Dispatch(t.socket, Task("set", t.name))
     \/ /\ ~Free(t.name)
        /\ guests' = [n \in Names |-> IF n = t.current THEN Nobody
                                      ELSE guests[n]]
        /\ UNCHANGED tasks
  /\ UNCHANGED <<username, is_logged_in, closed>>

\* A name that is taken is refused.
ChangeGuest ==
  LET t == Head(map_tasks) IN
  /\ RunMap("change")
  /\ \/ /\ Free(t.name)
        /\ guests' = [n \in Names |-> IF n = t.name THEN t.socket
                                      ELSE IF n = t.current THEN Nobody
                                      ELSE guests[n]]
        /\ Dispatch(t.socket, Task("set", t.name))
     \/ ~Free(t.name) /\ UNCHANGED <<guests, tasks>>
  /\ UNCHANGED <<username, is_logged_in, closed>>

\* The entry is erased, whoever's it is.
EraseGuest ==
  /\ RunMap("erase")
  /\ guests' = [guests EXCEPT ![Head(map_tasks).name] = Nobody]
  /\ UNCHANGED <<username, is_logged_in, closed, tasks>>

-----------------------------------------------------------------------------
MapStep == GenerateUsername \/ ChangeGuest \/ EraseGuest
SocketStep(s) == Connect(s) \/ Change(s) \/ Set(s) \/ Disconnect(s)

\* A server whose sockets are all closed has nothing left to do.
Done ==
  /\ closed = Sockets /\ \A s \in Sockets : Idle(s)
  /\ UNCHANGED vars

Next ==
  \/ \E s \in Sockets :
       \/ ConnectToChannel(s) \/ OnDisconnect(s) \/ SocketStep(s)
       \/ \E n \in GuestNames : ChangeUsername(s, n)
       \/ \E n \in Accounts : CreateSession(s, n)
  \/ MapStep
  \/ Done

\* The I/O threads run what is on the strands.
Fairness == WF_vars(MapStep) /\ \A s \in Sockets : WF_vars(SocketStep(s))

Spec == Init /\ [][Next]_vars /\ Fairness

-----------------------------------------------------------------------------
(* Properties *)

TaskOK(t) ==
  /\ t.op \in {"connect", "change", "set", "disconnect"}
  /\ t.op = "set" => t.name \in Names

MapTaskOK(t) ==
  /\ t.op \in {"generate", "change", "erase"}
  /\ t.socket \in Sockets
  /\ t.op = "erase" => t.name \in Names

\* The type of every variable.
TypeOK ==
  /\ guests \in [Names -> Sockets \cup {Nobody}]
  /\ username \in [Sockets -> Names \cup {NoName}]
  /\ is_logged_in \in [Sockets -> BOOLEAN]
  /\ closed \subseteq Sockets
  /\ \A s \in Sockets : \A i \in DOMAIN tasks[s] : TaskOK(tasks[s][i])
  /\ \A i \in DOMAIN map_tasks : MapTaskOK(map_tasks[i])

\* No two guests are left with the same name ("Increment the number until a
\* username is found that is not taken", and a change to a name that is taken
\* is refused).  A guest whose change is under way still shows the name that
\* it has given back already.
UniqueNames ==
  \A s, t \in {u \in Sockets : ~is_logged_in[u] /\ Idle(u)} :
    s # t /\ username[s] # NoName => username[s] # username[t]

\* The name of a guest with nothing under way is held by it in guests_, and it
\* holds no other, so that no name is lost to the server.
HoldsItsName ==
  \A s \in Sockets : Idle(s) /\ ~is_logged_in[s]
    => {n \in Names : guests[n] = s} = {username[s]} \ {NoName}

AccountNameStays ==
  \A s \in Sockets :
    is_logged_in[s] /\ username[s] \in Accounts
      => username'[s] \in Accounts \cup {NoName}

\* "Registered users can't change their usernames": once a user has the name
\* of its account, it never has a guest's.
KeepsAccountName == [][AccountNameStays]_vars

\* A guest that disconnects gives back the names it held.
NamesReturn ==
  \A s \in Sockets :
    s \in closed /\ ~is_logged_in[s] ~> \A n \in Names : guests[n] # s
=============================================================================
