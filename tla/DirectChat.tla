----------------------------- MODULE DirectChat -----------------------------
(***************************************************************************)
(* Direct chats between sockets.  Every socket keeps its own rooms, on a   *)
(* strand of its own: a room has an id of that socket, the socket it leads *)
(* to and the id of the room at the other end, 0 while it is not known.    *)
(* Opening a chat is a conversation of tasks on the two strands; both ends *)
(* may start one at the same time.                                         *)
(***************************************************************************)
EXTENDS Naturals, Sequences, Functions, FiniteSets

CONSTANTS
  Sockets,
  Limit,         \* rooms of a socket (10)
  MaxRequests    \* bound: messages to new direct chats

\* What the constants are.
DirectChatAssumption ==
  /\ Limit \in Nat /\ MaxRequests \in Nat

VARIABLES
  rooms,     \* of each socket: chat_rooms_, from ids to [peer, other]
  next,      \* of each socket: chat_rooms_id_
  tasks,     \* of each socket: tasks dispatched to the strand of chat_rooms_
  requests,  \* the requests so far, [from, to]
  answers    \* of each request: what its socket was sent, as a sequence

vars == <<rooms, next, tasks, requests, answers>>

Ids  == 1 .. 2 * MaxRequests
Room == [peer: Sockets, other: Ids \cup {0}]
Task == [step: {"open", "accept", "link", "full"}, req: 1 .. MaxRequests,
         id: Ids \cup {0}, other: Ids \cup {0}]
Answer == [kind: {"not_found", "limit", "recipient_limit"}]
            \cup [kind: {"channel"}, id: Ids \cup {0}]

Init ==
  /\ rooms = [s \in Sockets |-> <<>>]
  /\ next = [s \in Sockets |-> 1]
  /\ tasks = [s \in Sockets |-> <<>>]
  /\ requests = <<>>
  /\ answers = <<>>

-----------------------------------------------------------------------------
(* Helpers *)

Size(s) == Cardinality(DOMAIN rooms[s])

\* The rooms of a socket that lead to another one.
RoomsTo(s, t) == {id \in DOMAIN rooms[s] : rooms[s][id].peer = t}

\* chat_rooms.emplace(id, {peer, other}), the rest of the map unchanged.
With(map, id, peer, other) ==
  [i \in DOMAIN map \cup {id} |->
     IF i = id THEN [peer |-> peer, other |-> other] ELSE map[i]]

\* The task at the head of s's strand; its requester and its recipient.
Current(s) == Head(tasks[s])
From(s)    == requests[Current(s).req].from
To(s)      == requests[Current(s).req].to

At(s, step) == tasks[s] # <<>> /\ Current(s).step = step

\* The task of s is done and t's strand gets one for the same request.
Passes(s, t, step, id, other) ==
  LET rest == [tasks EXCEPT ![s] = Tail(@)]
      task == [Current(s) EXCEPT !.step = step, !.id = id, !.other = other]
  IN  tasks' = [rest EXCEPT ![t] = Append(@, task)]

Done(s) == tasks' = [tasks EXCEPT ![s] = Tail(@)]

\* SendChatMessageResponse(), SendChatChannelId(): what the requester is sent.
Tell(s, answer) ==
  answers' = [answers EXCEPT ![Current(s).req] = Append(@, answer)]
TellChannel(s, id) == Tell(s, [kind |-> "channel", id |-> id])

-----------------------------------------------------------------------------
(* Steps *)

\* A message for a new direct chat with a name that nobody has.
NewDirectNotFound(s) ==
  /\ Len(requests) < MaxRequests
  /\ requests' = Append(requests, [from |-> s, to |-> s])
  /\ answers' = Append(answers, <<[kind |-> "not_found"]>>)
  /\ UNCHANGED <<rooms, next, tasks>>

\* A message for a new direct chat with the guest t.
NewDirect(s, t) ==
  /\ Len(requests) < MaxRequests
  /\ requests' = Append(requests, [from |-> s, to |-> t])
  /\ answers' = Append(answers, <<>>)
  /\ tasks' = [tasks EXCEPT ![s] =
       Append(@, [step |-> "open", req |-> Len(requests) + 1,
                  id |-> 0, other |-> 0])]
  /\ UNCHANGED <<rooms, next>>

OpenLimit(s) ==
  /\ At(s, "open") /\ Size(s) >= Limit
  /\ Tell(s, [kind |-> "limit"]) /\ Done(s)
  /\ UNCHANGED <<rooms, next, requests>>

\* The client is told the id of the room at the other end.
OpenExisting(s) ==
  /\ At(s, "open") /\ Size(s) < Limit
  /\ \E id \in RoomsTo(s, To(s)) : TellChannel(s, rooms[s][id].other)
  /\ Done(s)
  /\ UNCHANGED <<rooms, next, requests>>

Open(s) ==
  /\ At(s, "open") /\ Size(s) < Limit /\ RoomsTo(s, To(s)) = {}
  /\ rooms' = [rooms EXCEPT ![s] = With(@, next[s], To(s), 0)]
  /\ next' = [next EXCEPT ![s] = @ + 1]
  /\ Passes(s, To(s), "accept", next[s], 0)
  /\ UNCHANGED <<requests, answers>>

\* Faulty variant: the recipient's own room is not told of the sender's.
AcceptExisting_NoLink(r) ==
  /\ At(r, "accept")
  /\ \E id \in RoomsTo(r, From(r)) :
       /\ UNCHANGED rooms
       /\ IF rooms[r][id].other = 0 THEN UNCHANGED answers
          ELSE TellChannel(r, Current(r).id)
  /\ Done(r)
  /\ UNCHANGED <<next, requests>>

\* Faulty variant: the task waits for the recipient's room to be linked.
AcceptExisting_Waits(r) ==
  /\ At(r, "accept")
  /\ \E id \in RoomsTo(r, From(r)) :
       rooms[r][id].other # 0 /\ TellChannel(r, Current(r).id)
  /\ Done(r)
  /\ UNCHANGED <<rooms, next, requests>>

\* The recipient has a room to the sender: it is linked, and nobody told; or
\* it was linked already, and the sender is told its id.
AcceptExisting(r) ==
  /\ At(r, "accept")
  /\ \E id \in RoomsTo(r, From(r)) :
       IF rooms[r][id].other = 0
       THEN /\ rooms' = [rooms EXCEPT ![r][id].other = Current(r).id]
            /\ UNCHANGED answers
       ELSE UNCHANGED rooms /\ TellChannel(r, Current(r).id)
  /\ Done(r)
  /\ UNCHANGED <<next, requests>>

AcceptLimit(r) ==
  /\ At(r, "accept") /\ RoomsTo(r, From(r)) = {} /\ Size(r) >= Limit
  /\ Passes(r, From(r), "full", Current(r).id, 0)
  /\ UNCHANGED <<rooms, next, requests, answers>>

\* The recipient's room is made to lead to the recipient itself.
Accept(r) ==
  /\ At(r, "accept") /\ RoomsTo(r, From(r)) = {} /\ Size(r) < Limit
  /\ rooms' = [rooms EXCEPT ![r] = With(@, next[r], r, Current(r).id)]
  /\ next' = [next EXCEPT ![r] = @ + 1]
  /\ Passes(r, From(r), "link", Current(r).id, next[r])
  /\ UNCHANGED <<requests, answers>>

RecipientLimit(s) ==
  /\ At(s, "full")
  /\ rooms' = [rooms EXCEPT ![s] = Restrict(@, DOMAIN @ \ {Current(s).id})]
  /\ Tell(s, [kind |-> "recipient_limit"]) /\ Done(s)
  /\ UNCHANGED <<next, requests>>

\* The sender's room is linked and both clients are sent the message.
Link(s) ==
  LET id == Current(s).id IN
  /\ At(s, "link")
  /\ IF id \in DOMAIN rooms[s] /\ rooms[s][id].other = 0
     THEN /\ rooms' = [rooms EXCEPT ![s][id].other = Current(s).other]
          /\ TellChannel(s, id)
     ELSE UNCHANGED <<rooms, answers>>
  /\ Done(s)
  /\ UNCHANGED <<next, requests>>

-----------------------------------------------------------------------------
Run(s) ==
  \/ OpenLimit(s) \/ OpenExisting(s) \/ Open(s)
  \/ AcceptExisting(s) \/ AcceptLimit(s) \/ Accept(s)
  \/ RecipientLimit(s) \/ Link(s)

Next ==
  \E s \in Sockets :
    \/ NewDirectNotFound(s) \/ Run(s)
    \/ \E t \in Sockets : NewDirect(s, t)

\* The I/O threads run what is on the strands.
Fairness == \A s \in Sockets : WF_vars(Run(s))

Spec == Init /\ [][Next]_vars /\ Fairness

-----------------------------------------------------------------------------
(* Properties *)

\* The type of every variable.
TypeOK ==
  /\ \A s \in Sockets :
       /\ DOMAIN rooms[s] \subseteq 1 .. next[s] - 1
       /\ \A id \in DOMAIN rooms[s] : rooms[s][id] \in Room
       /\ \A i \in DOMAIN tasks[s] : tasks[s][i] \in Task
  /\ next \in [Sockets -> 1 .. 2 * MaxRequests + 1]
  /\ Len(requests) <= MaxRequests
  /\ DOMAIN answers = DOMAIN requests
  /\ \A k \in DOMAIN answers : \A i \in DOMAIN answers[k] :
       answers[k][i] \in Answer

Pending(k) ==
  \E s \in Sockets : \E i \in DOMAIN tasks[s] : tasks[s][i].req = k

\* No request between the two sockets is pending.
Quiet(s, t) ==
  \A k \in DOMAIN requests :
    {requests[k].from, requests[k].to} = {s, t} => ~Pending(k)

\* No socket has more rooms than the limit, however the requests of others
\* that fill its rooms interleave with its own.
LimitHolds == \A s \in Sockets : Size(s) <= Limit

\* A socket has at most one room to another one, whoever opened it.
OneRoomEach ==
  \A s, t \in Sockets : s # t => Cardinality(RoomsTo(s, t)) <= 1

\* A request is answered once, or, if both ends wrote to each other at the same
\* time, not at all: then the sender's room and the recipient's lead to each
\* other once both requests are done, so that the chat exists.
AnsweredOrLinked ==
  \A k \in DOMAIN requests : Quiet(requests[k].from, requests[k].to) =>
    LET s == requests[k].from
        t == requests[k].to
    IN  \/ Len(answers[k]) = 1
        \/ /\ answers[k] = <<>>
           /\ \E id \in RoomsTo(s, t) :
                /\ rooms[s][id].other \in RoomsTo(t, s)
                /\ rooms[t][rooms[s][id].other].other = id

\* Every request comes to an end: no two sockets wait for each other.
RequestsEnd == \A k \in 1 .. MaxRequests : Pending(k) ~> ~Pending(k)
=============================================================================
