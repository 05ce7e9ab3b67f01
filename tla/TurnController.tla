--------------------------- MODULE TurnController ---------------------------
(***************************************************************************)
(* The queue of users waiting for the keyboard and mouse of one virtual    *)
(* machine: class TurnController, with the wrappers in AdminVirtualMachine *)
(* that guard it and the broadcast of the queue to the VM's channel.       *)
(*                                                                         *)
(* Everything runs on the VM's strand, so each action is one strand task.  *)
(* What is concurrent is turn_timer_: its wait expires on its own, and     *)
(* from then on its handler is a task queued on the strand that neither    *)
(* expires_after() nor cancel() can recall.  A wait aborted before it      *)
(* expires also queues its handler, which returns at once (`if (!ec)`);    *)
(* such a task has no effect and is left out.                              *)
(***************************************************************************)
EXTENDS Integers, SequencesExt

CONSTANTS
  Users,      \* the sockets that may be in this VM's channel
  Admins,     \* those for which the VM's IsAdmin() holds
  TurnTimes,  \* the values of the TURN_TIME setting, in ticks
  NoUser,     \* no wait is pending
  MaxReady    \* bound: expired waits whose handler has not run yet

ASSUME UsersAssumption == NoUser \notin Users /\ Admins \subseteq Users
ASSUME TimesAssumption == TurnTimes \subseteq Nat /\ MaxReady \in Nat

NotQueued == -1   \* turn_queue_position_ is nullopt
NotPaused == -1   \* paused_time_ is nullopt

VARIABLES
  turn_queue,     \* turn_queue_
  position,       \* each user's turn_queue_position_, counted from 0
  paused_time,    \* paused_time_
  turn_time,      \* turn_time_
  armed,          \* the user captured by the pending wait of turn_timer_
  left,           \* ticks until that wait expires
  ready,          \* the users captured by expired waits, in handler order
  turns_enabled,  \* the TURNS_ENABLED setting
  shown           \* the last VmTurnInfo broadcast to the channel

vars == <<turn_queue, position, paused_time, turn_time, armed, left, ready,
          turns_enabled, shown>>

timer == <<armed, left>>
settings == <<turn_time, turns_enabled>>

-----------------------------------------------------------------------------

InQueue(u) == position[u] # NotQueued
IsPaused == paused_time # NotPaused
HasCurrentTurn(u) == turn_queue # <<>> /\ Head(turn_queue) = u

\* The message GetTurnQueue() builds, without the time it shows.
GetTurnQueue ==
  [users |-> turn_queue,
   state |-> IF ~turns_enabled THEN "Disabled"
             ELSE IF IsPaused THEN "Paused" ELSE "Enabled"]

\* OnCurrentUserChanged, OnUserAdded and OnUserRemoved all broadcast the
\* queue as the step leaves it.
BroadcastTurnQueue == shown' = GetTurnQueue'

\* expires_after() aborts the pending wait; async_wait() captures the user.
StartTimer(user, time) == armed' = user /\ left' = time

CancelTimer == armed' = NoUser /\ left' = 0

\* Faulty variant: the pause is tested before the step that ends it.
UpdateCurrentTurn_StalePause(time) ==
  /\ IF turn_queue' = <<>> \/ IsPaused
       THEN UNCHANGED timer
       ELSE StartTimer(Head(turn_queue'), time)
  /\ BroadcastTurnQueue

\* Faulty variant: an empty queue is not broadcast.
UpdateCurrentTurn_SilentWhenEmpty(time) ==
  IF turn_queue' = <<>>
    THEN UNCHANGED <<timer, shown>>
    ELSE /\ IF IsPaused' THEN UNCHANGED timer
                         ELSE StartTimer(Head(turn_queue'), time)
         /\ BroadcastTurnQueue

\* Gives the turn to the head of the queue the step leaves.  An empty queue
\* leaves a pending wait running.
UpdateCurrentTurn(time) ==
  /\ IF turn_queue' = <<>> \/ IsPaused'
       THEN UNCHANGED timer
       ELSE StartTimer(Head(turn_queue'), time)
  /\ BroadcastTurnQueue

Init ==
  /\ turn_queue = <<>>
  /\ position = [u \in Users |-> NotQueued]
  /\ paused_time = NotPaused
  /\ turn_time \in TurnTimes
  /\ armed = NoUser
  /\ left = 0
  /\ ready = <<>>
  /\ turns_enabled \in BOOLEAN
  /\ shown = GetTurnQueue

-----------------------------------------------------------------------------

RequestTurn(u) ==
  /\ turns_enabled
  /\ ~InQueue(u)
  /\ turn_queue' = Append(turn_queue, u)
  /\ position' = [position EXCEPT ![u] = Len(turn_queue)]
  /\ UNCHANGED <<paused_time, ready, settings>>
  /\ IF position'[u] = 0
       THEN UpdateCurrentTurn(turn_time)
       ELSE UNCHANGED timer /\ BroadcastTurnQueue

\* The users from index k on, counted from 1.
From(k) == {turn_queue[i] : i \in k .. Len(turn_queue)}

\* The positions once u has lost its own and the users in behind moved up.
MoveUp(u, behind) ==
  [v \in Users |-> IF v = u THEN NotQueued
                   ELSE IF v \in behind THEN position[v] - 1 ELSE position[v]]

\* Faulty variant: the first user behind the removed one is skipped.
PositionsWithout_SkipsOne(u) == MoveUp(u, From(position[u] + 3))

PositionsWithout(u) == MoveUp(u, From(position[u] + 2))

\* The body of RemoveUser(user) for a user that has a position: the entry at
\* that position goes, and the users behind it move up.
Erase(u) ==
  /\ turn_queue' = RemoveAt(turn_queue, position[u] + 1)
  /\ position' = PositionsWithout(u)
  /\ UNCHANGED <<paused_time, settings>>
  /\ IF position[u] = 0
       THEN UpdateCurrentTurn(turn_time)
       ELSE UNCHANGED timer /\ BroadcastTurnQueue

\* A queued user leaves the channel or disconnects (OnRemoveUser).
RemoveUser(u) ==
  /\ InQueue(u)
  /\ Erase(u)
  /\ UNCHANGED ready

\* The user at the head gives up the turn, or an admin ends it.
EndCurrentTurn(u) ==
  /\ turns_enabled
  /\ HasCurrentTurn(u) \/ u \in Admins
  /\ turn_queue # <<>>
  /\ Erase(Head(turn_queue))
  /\ UNCHANGED ready

\* cancel() returns the number of waits it aborted, and GetTimeRemaining()
\* is 0 for an empty queue.  Pausing twice therefore restores turn_time.
PauseTurnTimer ==
  LET was_running == armed # NoUser
      remaining == IF turn_queue = <<>> THEN 0 ELSE left
  IN /\ turns_enabled
     /\ paused_time' = IF was_running /\ remaining > 0
                         THEN remaining ELSE turn_time
     /\ CancelTimer
     /\ UNCHANGED <<turn_queue, position, ready, settings>>
     /\ BroadcastTurnQueue

ResumeTurnTimer ==
  /\ turns_enabled
  /\ IsPaused
  /\ paused_time' = NotPaused
  /\ UNCHANGED <<turn_queue, position, ready, settings>>
  /\ UpdateCurrentTurn(paused_time)

EmptyQueue ==
  /\ turn_queue' = <<>>
  /\ position' = [u \in Users |-> IF u \in ToSet(turn_queue)
                                    THEN NotQueued ELSE position[u]]
  /\ IF turn_queue = <<>> THEN UNCHANGED shown ELSE BroadcastTurnQueue

\* Faulty variant: the timer keeps running.
Clear_NoCancel == EmptyQueue /\ UNCHANGED timer

\* Clear(): empties the queue; an empty one is not broadcast again.  A pause
\* outlives it.
Clear == EmptyQueue /\ CancelTimer

\* UpdateSettings() with settings that ValidateSettings() accepts.
ApplySettings(time, enabled) ==
  /\ enabled => time > 0
  /\ turn_time' = time
  /\ turns_enabled' = enabled
  /\ UNCHANGED <<paused_time, ready>>
  /\ IF turns_enabled /\ ~enabled
       THEN Clear
       ELSE UNCHANGED <<turn_queue, position, timer, shown>>

-----------------------------------------------------------------------------
(* The timer, as boost::asio runs it. *)

Tick ==
  /\ armed # NoUser /\ left > 0
  /\ left' = left - 1
  /\ UNCHANGED <<turn_queue, position, paused_time, armed, ready, settings,
                 shown>>

\* The wait completes without error: its handler is queued on the strand.
TimerExpires ==
  /\ armed # NoUser /\ left = 0
  /\ Len(ready) < MaxReady
  /\ ready' = Append(ready, armed)
  /\ armed' = NoUser
  /\ UNCHANGED <<turn_queue, position, paused_time, left, settings, shown>>

\* The handler removes the user it captured, who may have left the queue
\* since, and may have joined it again.
RunTimerHandler ==
  /\ ready # <<>>
  /\ ready' = Tail(ready)
  /\ IF InQueue(Head(ready))
       THEN Erase(Head(ready))
       ELSE UNCHANGED <<turn_queue, position, paused_time, timer, settings,
                        shown>>

Next ==
  \/ \E u \in Users : RequestTurn(u) \/ RemoveUser(u) \/ EndCurrentTurn(u)
  \/ PauseTurnTimer
  \/ ResumeTurnTimer
  \/ \E time \in TurnTimes, enabled \in BOOLEAN : ApplySettings(time, enabled)
  \/ Tick
  \/ TimerExpires
  \/ RunTimerHandler

\* Time passes, and the io_context's threads run what is queued on it.
\* Nothing makes a user or an administrator do anything.
Fairness == WF_vars(Tick) /\ WF_vars(TimerExpires) /\ WF_vars(RunTimerHandler)

Spec == Init /\ [][Next]_vars /\ Fairness

-----------------------------------------------------------------------------
(* Properties *)

\* Types of the variables; a position is an index or absent, never negative.
TypeOK ==
  /\ turn_queue \in Seq(Users)
  /\ position \in [Users -> Nat \cup {NotQueued}]
  /\ paused_time \in Nat \cup {NotPaused}
  /\ turn_time \in TurnTimes
  /\ armed \in Users \cup {NoUser}
  /\ left \in Nat
  /\ ready \in Seq(Users)
  /\ turns_enabled \in BOOLEAN
  /\ shown \in [users : Seq(Users), state : {"Enabled", "Paused", "Disabled"}]

\* The position a socket carries is always the index of its only entry in
\* the queue, whatever was removed in front of it: RemoveUser() erases by
\* that index, so a wrong one would take the turn of somebody else.
QueueMatchesPositions ==
  /\ \A i \in 1 .. Len(turn_queue) : position[turn_queue[i]] = i - 1
  /\ \A u \in Users : InQueue(u) =>
       /\ position[u] < Len(turn_queue)
       /\ turn_queue[position[u] + 1] = u

\* A turn that is not paused is always going to end: the pending wait is the
\* one of the user at the head of the queue, or a handler that removes that
\* user is queued.  No order of leaving, pausing, resuming, disabling and
\* late handlers leaves a user at the head without a timer.
TurnIsTimed ==
  turn_queue # <<>> /\ ~IsPaused =>
    armed = Head(turn_queue) \/ Head(turn_queue) \in ToSet(ready)

\* While turns are disabled nobody holds or waits for a turn, and no wait is
\* pending that could end a turn of a later session.
DisabledIsEmpty ==
  ~turns_enabled => turn_queue = <<>> /\ armed = NoUser

\* Every change of the queue is broadcast: the queue the clients were last
\* told is the queue, and a pause or resume they can see is the one in force.
ClientsSeeQueue ==
  /\ shown.users = turn_queue
  /\ shown.state # "Disabled" => (shown.state = "Paused" <=> IsPaused)

\* Nobody is overtaken: two users that are queued before and after a step
\* keep their order.
NoOvertaking ==
  [][\A u, v \in Users :
       /\ InQueue(u) /\ InQueue(v) /\ position[u] < position[v]
       /\ InQueue(u)' /\ InQueue(v)'
       => position'[u] < position'[v]]_vars

\* Once pausing stops, everyone in the queue leaves it: each turn ends by
\* itself and moves the queue up.
QueueDrains ==
  <>[]~IsPaused => \A u \in Users : InQueue(u) ~> ~InQueue(u)

=============================================================================
