---------------------------- MODULE UserChannel ----------------------------
(***************************************************************************)
(* The users of a channel, as the clients of its members see them:         *)
(* UserChannel, with the sockets that join it, leave it, change their      *)
(* names and disconnect.  A socket's requests go through other strands to  *)
(* the channel's, which is the strand of its VM, with what they captured:  *)
(* a join the name of the socket, a change of name the new one.            *)
(*                                                                         *)
(* Every member is sent the list of the users when it joins, and then each *)
(* change.  A socket's messages are delivered in order (SendQueue), so     *)
(* that `view` is what the messages to a member add up to.  What else a    *)
(* member is told when it joins, the turn queue, the votes and the         *)
(* description, is written by a task on its send strand, which reads the   *)
(* VM's state without the VM's strand; all of that is one `status` here.   *)
(***************************************************************************)
EXTENDS Naturals, Sequences, SequencesExt, FiniteSets

CONSTANTS
  Sockets,
  Names, NoName,  \* usernames; "not a member"
  Statuses,       \* what a VM tells its users
  Prompt,         \* nobody holds a strand for long: what a socket asked for
                  \* is done before its next message and before its end, and
                  \* a dispatch within the strand of the VMs runs at once
  MaxTasks        \* bound: tasks on the channel's strand or on a send strand

\* What the constants are.
UserChannelAssumption ==
  /\ IsFiniteSet(Sockets) /\ NoName \notin Names /\ "join" \notin Statuses
  /\ Prompt \in BOOLEAN /\ MaxTasks \in Nat

VARIABLES
  username,        \* username_ of each socket
  connected,       \* sockets whose connected_vm_id_ is the channel's id
  closed,          \* sockets that are closed
  users,           \* users_: the name of each member
  strand,          \* tasks on the channel's strand
  view,            \* how often the list of each client shows each name
  status, writing, \* what is told; it was changed and not broadcast yet
  pending,         \* tasks on each socket's send strand
  seen,            \* the status each client was told last
  gone             \* the VM was deleted

vars == <<username, connected, closed, users, strand, view, status, writing,
          pending, seen, gone>>
told == <<status, writing, seen>>

Task(op, s, n) == [op |-> op, socket |-> s, name |-> n]
NoUsers == [n \in Names |-> 0]
Members == {s \in Sockets : users[s] # NoName}

\* How often each name is in users_.
Listed(u) == [n \in Names |-> Cardinality({s \in Sockets : u[s] = n})]

Init ==
  /\ username \in [Sockets -> Names]
  /\ connected = {} /\ closed = {}
  /\ users = [s \in Sockets |-> NoName]
  /\ strand = <<>>
  /\ view = [s \in Sockets |-> NoUsers]
  /\ status \in Statuses /\ writing = FALSE
  /\ pending = [s \in Sockets |-> <<>>]
  /\ seen = [s \in Sockets |-> status]
  /\ gone = FALSE

-----------------------------------------------------------------------------
(* What sockets do, on their own strands. *)

Outstanding(s) == {i \in DOMAIN strand : strand[i].socket = s}

MayAct(s) == s \notin closed /\ (Prompt => Outstanding(s) = {})

\* A task for the channel of a VM that was deleted finds no VM.
Dispatch(task) ==
  /\ Len(strand) < MaxTasks
  /\ strand' = IF gone THEN strand ELSE Append(strand, task)

\* CONNECT_TO_CHANNEL, for a VM that lets the socket in.
ConnectToChannel(s) ==
  /\ MayAct(s)
  /\ Dispatch(Task("join", s, username[s]))
  /\ UNCHANGED <<username, connected, closed, users, view, told, pending, gone>>

\* The socket's join of another channel is run by that channel's strand.
ConnectElsewhere(s) ==
  /\ MayAct(s) /\ s \in connected
  /\ connected' = connected \ {s}
  /\ Dispatch(Task("leave", s, NoName))
  /\ UNCHANGED <<username, closed, users, view, told, pending, gone>>

\* A change of name or a login ends in SetUserData().
SetUserData(s, n) ==
  /\ MayAct(s) /\ n # username[s]
  /\ username' = [username EXCEPT ![s] = n]
  /\ IF s \in connected THEN Dispatch(Task("update", s, n)) ELSE UNCHANGED strand
  /\ UNCHANGED <<connected, closed, users, view, told, pending, gone>>

OnDisconnect(s) ==
  /\ MayAct(s)
  /\ closed' = closed \cup {s}
  /\ IF s \in connected THEN Dispatch(Task("leave", s, NoName))
                        ELSE UNCHANGED strand
  /\ UNCHANGED <<username, connected, users, view, told, pending, gone>>

-----------------------------------------------------------------------------
(* The channel's strand.  It runs one task at a time, and none between the  *)
(* change of a status and its broadcast.                                    *)

Run(op) == ~writing /\ strand # <<>> /\ Head(strand).op = op

\* Every one of ms is sent that n is, or is no longer, in the list.
Shows(v, ms, n) == [m \in Sockets |->
  IF m \in ms THEN [v[m] EXCEPT ![n] = @ + 1] ELSE v[m]]
Hides(v, ms, n) == [m \in Sockets |->
  IF m \in ms /\ v[m][n] > 0 THEN [v[m] EXCEPT ![n] = @ - 1] ELSE v[m]]

\* AddUser(): emplace() keeps what it has of a socket that is a member.
AddUser(s, n, us, v) ==
  LET name == IF us[s] = NoName THEN n ELSE us[s]
      others == {m \in Sockets : us[m] # NoName} \ {s}
  IN /\ Len(pending[s]) < MaxTasks
     /\ pending' = [pending EXCEPT ![s] = Append(@, "join")]
     /\ users' = [us EXCEPT ![s] = name]
     /\ view' = [Shows(v, others, name) EXCEPT ![s] = Listed(users')]

\* RemoveUser(): of a socket that is no member nothing is removed.  A client
\* that has left shows no list.
Without(s) == [users EXCEPT ![s] = NoName]
ViewWithout(s) ==
  IF users[s] = NoName THEN view
  ELSE [Hides(view, Members, users[s]) EXCEPT ![s] = NoUsers]

\* A socket that was not in this channel, or whose leave has to wait for the
\* strand of the VMs.
Join ==
  LET s == Head(strand).socket IN
  /\ Run("join") /\ (Prompt => s \notin connected)
  /\ strand' = IF s \in connected THEN Append(Tail(strand), Task("leave", s, NoName))
                                  ELSE Tail(strand)
  /\ connected' = connected \cup {s}
  /\ AddUser(s, Head(strand).name, users, view)
  /\ UNCHANGED <<username, closed, told, gone>>

\* A socket that was in this channel leaves it first, when all of this runs
\* inside the strand of the VMs.
Rejoin ==
  LET s == Head(strand).socket IN
  /\ Run("join") /\ s \in connected
  /\ strand' = Tail(strand)
  /\ AddUser(s, Head(strand).name, Without(s), ViewWithout(s))
  /\ UNCHANGED <<username, connected, closed, told, gone>>

\* The VM has been stopped or does not let guests in.
JoinFails ==
  /\ Run("join")
  /\ strand' = Tail(strand)
  /\ UNCHANGED <<username, connected, closed, users, view, told, pending, gone>>

Leave ==
  LET s == Head(strand).socket IN
  /\ Run("leave")
  /\ strand' = Tail(strand)
  /\ users' = Without(s) /\ view' = ViewWithout(s)
  /\ UNCHANGED <<username, connected, closed, told, pending, gone>>

\* Faulty variant: the change is announced, but the member keeps its old name.
Update_Keeps ==
  LET s == Head(strand).socket n == Head(strand).name IN
  /\ Run("update")
  /\ strand' = Tail(strand)
  /\ view' = IF users[s] = NoName THEN view
             ELSE Shows(Hides(view, Members, users[s]), Members, n)
  /\ UNCHANGED <<username, connected, closed, users, told, pending, gone>>

\* The rest of SetUserData(): the old name is the one the channel has.
Update ==
  LET s == Head(strand).socket n == Head(strand).name IN
  /\ Run("update")
  /\ strand' = Tail(strand)
  /\ IF users[s] = NoName THEN UNCHANGED <<users, view>>
     ELSE /\ users' = [users EXCEPT ![s] = n]
          /\ view' = Shows(Hides(view, Members, users[s]), Members, n)
  /\ UNCHANGED <<username, connected, closed, told, pending, gone>>

\* The queue, the votes or the description changes, and is then broadcast.
ChangeStatus(v) ==
  /\ ~writing /\ ~gone /\ v # status
  /\ status' = v /\ writing' = TRUE
  /\ UNCHANGED <<username, connected, closed, users, strand, view, pending, seen,
                 gone>>

BroadcastMessage ==
  /\ writing /\ writing' = FALSE
  /\ \A m \in Members : Len(pending[m]) < MaxTasks
  /\ pending' = [m \in Sockets |-> IF m \in Members THEN Append(pending[m], status)
                                                    ELSE pending[m]]
  /\ UNCHANGED <<username, connected, closed, users, strand, view, status, seen,
                 gone>>

\* The VM is deleted while nothing waits for its strand; what would run on it
\* later uses an object that has gone, and is not modelled.
Clear ==
  /\ ~gone /\ ~writing /\ strand = <<>>
  /\ gone' = TRUE
  /\ users' = [s \in Sockets |-> NoName]
  /\ view' = [s \in Sockets |-> NoUsers]
  /\ UNCHANGED <<username, connected, closed, strand, told, pending>>

-----------------------------------------------------------------------------
(* The send strand of a socket.  The messages of a join are written with    *)
(* what is read then, which is anything if it is being changed.             *)

WriteChannelJoinMessages(s) ==
  /\ pending[s] # <<>> /\ Head(pending[s]) = "join"
  /\ pending' = [pending EXCEPT ![s] = Tail(@)]
  /\ \E v \in IF writing \/ gone THEN Statuses ELSE {status} :
       seen' = [seen EXCEPT ![s] = v]
  /\ UNCHANGED <<username, connected, closed, users, strand, view, status,
                 writing, gone>>

QueueMessage(s) ==
  /\ pending[s] # <<>> /\ Head(pending[s]) # "join"
  /\ pending' = [pending EXCEPT ![s] = Tail(@)]
  /\ seen' = [seen EXCEPT ![s] = Head(pending[s])]
  /\ UNCHANGED <<username, connected, closed, users, strand, view, status,
                 writing, gone>>

Next ==
  \/ \E s \in Sockets : \/ ConnectToChannel(s) \/ ConnectElsewhere(s)
                        \/ \E n \in Names : SetUserData(s, n)
                        \/ OnDisconnect(s)
                        \/ WriteChannelJoinMessages(s) \/ QueueMessage(s)
  \/ Join \/ Rejoin \/ JoinFails \/ Leave \/ Update
  \/ \E v \in Statuses : ChangeStatus(v)
  \/ BroadcastMessage \/ Clear

Spec == Init /\ [][Next]_vars

-----------------------------------------------------------------------------
(* Properties *)

\* The type of every variable.
TypeOK ==
  /\ username \in [Sockets -> Names]
  /\ connected \subseteq Sockets /\ closed \subseteq Sockets
  /\ users \in [Sockets -> Names \cup {NoName}]
  /\ Len(strand) <= MaxTasks
  /\ \A i \in DOMAIN strand : strand[i] \in
       [op: {"join", "leave", "update"}, socket: Sockets, name: Names \cup {NoName}]
  /\ view \in [Sockets -> [Names -> Nat]]
  /\ status \in Statuses /\ writing \in BOOLEAN /\ gone \in BOOLEAN
  /\ \A s \in Sockets : ToSet(pending[s]) \subseteq Statuses \cup {"join"}
  /\ seen \in [Sockets -> Statuses]

\* The list that a member's client shows is the list of the channel's users,
\* however joins, leaves and changes of names were interleaved.
ListsAgree == \A s \in Members : view[s] = Listed(users)

\* A member is listed under its socket's name once all of its changes were
\* handled.
NamesAreCurrent ==
  \A s \in Members : Outstanding(s) = {} => users[s] = username[s]

\* A socket that was closed does not stay in the channel.
NoGhosts ==
  \A s \in Members \cap closed : \E i \in Outstanding(s) : strand[i].op = "leave"

\* A member whose messages were sent was told the status last that there is,
\* although the messages of its join may have been written while the status
\* was being changed.
StatusIsSeen ==
  \A s \in Members : pending[s] = <<>> /\ ~writing => seen[s] = status
=============================================================================
