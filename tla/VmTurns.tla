------------------------------- MODULE VmTurns -------------------------------
(***************************************************************************)
(* Sockets that move between virtual machines while they wait for a turn.  *)
(* Each VM has a strand, a channel and a turn queue of its own, but a      *)
(* socket carries one turn_queue_position_ for all of them, and leaves one *)
(* VM and joins the next in tasks of two different strands.                *)
(*                                                                         *)
(* TurnController is the queue of one VM in full; here it has no pause and *)
(* no settings, and a wait may expire at any time.                         *)
(***************************************************************************)
EXTENDS Integers, SequencesExt

CONSTANTS
  Sockets,
  Vms,
  NoVm,      \* connected_vm_id_ is 0
  NoSocket,  \* no wait is pending
  MaxTasks   \* bound: tasks queued on a VM's strand

\* What the constants are.
VmTurnsAssumption ==
  NoVm \notin Vms /\ NoSocket \notin Sockets /\ MaxTasks \in Nat

NotQueued == -1

VARIABLES
  connected_vm_id,  \* connected_vm_id_ of each socket
  closed,           \* the sockets whose OnDisconnect() has run
  position,         \* turn_queue_position_ of each socket
  members,          \* users_ of each VM
  turn_queue,       \* turn_queue_ of each VM
  armed,            \* the socket captured by the pending wait of each VM
  tasks             \* the tasks of each VM's strand

vars == <<connected_vm_id, closed, position, members, turn_queue, armed, tasks>>

Init ==
  /\ connected_vm_id = [s \in Sockets |-> NoVm]
  /\ closed = {}
  /\ position = [s \in Sockets |-> NotQueued]
  /\ members = [vm \in Vms |-> {}]
  /\ turn_queue = [vm \in Vms |-> <<>>]
  /\ armed = [vm \in Vms |-> NoSocket]
  /\ tasks = [vm \in Vms |-> <<>>]

Task(kind, s) == [kind |-> kind, socket |-> s]

HasRoom(vm) == Len(tasks[vm]) < MaxTasks

-----------------------------------------------------------------------------
(* Messages of the clients, handled on other strands. *)

Dispatch(vm, task) ==
  /\ HasRoom(vm)
  /\ tasks' = [tasks EXCEPT ![vm] = Append(@, task)]

ConnectToChannel(s, vm) ==
  /\ s \notin closed
  /\ Dispatch(vm, Task("join", s))
  /\ UNCHANGED <<connected_vm_id, closed, position, members, turn_queue, armed>>

TurnRequest(s) ==
  /\ s \notin closed
  /\ connected_vm_id[s] # NoVm
  /\ Dispatch(connected_vm_id[s], Task("turn", s))
  /\ UNCHANGED <<connected_vm_id, closed, position, members, turn_queue, armed>>

OnDisconnect(s) ==
  /\ s \notin closed
  /\ closed' = closed \cup {s}
  /\ IF connected_vm_id[s] # NoVm
       THEN Dispatch(connected_vm_id[s], Task("leave", s))
       ELSE UNCHANGED tasks
  /\ UNCHANGED <<connected_vm_id, position, members, turn_queue, armed>>

-----------------------------------------------------------------------------
(* Tasks of a VM's strand. *)

Runs(vm, kind) == tasks[vm] # <<>> /\ Head(tasks[vm]).kind = kind

\* The task leaves the strand and changes nothing else.
NoEffect(vm) ==
  /\ tasks' = [tasks EXCEPT ![vm] = Tail(@)]
  /\ UNCHANGED <<connected_vm_id, closed, position, members, turn_queue, armed>>

\* The leave of the VM the socket comes from is dispatched to that VM.  It waits
\* there, also if it is the same VM, when another thread holds the strand of the
\* VMs.
Join(vm) ==
  LET s == Head(tasks[vm]).socket
      old == connected_vm_id[s]
      rest == [tasks EXCEPT ![vm] = Tail(@)]
  IN /\ Runs(vm, "join")
     /\ old # NoVm => Len(rest[old]) < MaxTasks
     /\ tasks' = IF old = NoVm THEN rest
                 ELSE [rest EXCEPT ![old] = Append(@, Task("leave", s))]
     /\ connected_vm_id' = [connected_vm_id EXCEPT ![s] = vm]
     /\ members' = [members EXCEPT ![vm] = @ \cup {s}]
     /\ UNCHANGED <<closed, position, turn_queue, armed>>

\* UpdateCurrentTurn() of the VM whose queue the step changed.
UpdateCurrentTurn(vm) ==
  armed' = [armed EXCEPT ![vm] =
              IF turn_queue'[vm] = <<>> THEN @ ELSE Head(turn_queue'[vm])]

RequestTurn(vm) ==
  LET s == Head(tasks[vm]).socket
  IN /\ Runs(vm, "turn")
     /\ IF position[s] # NotQueued
          THEN NoEffect(vm)
          ELSE /\ turn_queue' = [turn_queue EXCEPT ![vm] = Append(@, s)]
               /\ position' = [position EXCEPT ![s] = Len(turn_queue[vm])]
               /\ IF turn_queue[vm] = <<>> THEN UpdateCurrentTurn(vm)
                                           ELSE UNCHANGED armed
               /\ tasks' = [tasks EXCEPT ![vm] = Tail(@)]
               /\ UNCHANGED <<connected_vm_id, closed, members>>

\* Faulty variant: the user at the front is taken for the one that leaves.
Erase_Front(vm, s) ==
  /\ turn_queue' = [turn_queue EXCEPT ![vm] = Tail(@)]
  /\ position' = [v \in Sockets |->
                    IF v = s THEN NotQueued
                    ELSE IF v \in ToSet(turn_queue'[vm]) THEN position[v] - 1
                    ELSE position[v]]
  /\ UpdateCurrentTurn(vm)

\* RemoveUser() of TurnController, for an index inside the queue: erasing any
\* other is undefined, and nothing that could follow it is modelled.
Erase(vm, s) ==
  LET behind == {turn_queue[vm][i] : i \in position[s] + 2 .. Len(turn_queue[vm])}
  IN /\ position[s] < Len(turn_queue[vm])
     /\ turn_queue' = [turn_queue EXCEPT ![vm] = RemoveAt(@, position[s] + 1)]
     /\ position' = [v \in Sockets |->
                       IF v = s THEN NotQueued
                       ELSE IF v \in behind THEN position[v] - 1
                       ELSE position[v]]
     /\ IF position[s] = 0 THEN UpdateCurrentTurn(vm) ELSE UNCHANGED armed

RemoveFromQueue(vm, s) ==
  IF position[s] = NotQueued
    THEN UNCHANGED <<position, turn_queue, armed>>
    ELSE Erase(vm, s)

\* The join of the VM the socket is in, when all of it runs inside the strand of
\* the VMs: the leave is run at once, before the socket is added again.
Rejoin(vm) ==
  LET s == Head(tasks[vm]).socket
  IN /\ Runs(vm, "join") /\ connected_vm_id[s] = vm
     /\ IF s \in members[vm] THEN RemoveFromQueue(vm, s)
                             ELSE UNCHANGED <<position, turn_queue, armed>>
     /\ members' = [members EXCEPT ![vm] = @ \cup {s}]
     /\ tasks' = [tasks EXCEPT ![vm] = Tail(@)]
     /\ UNCHANGED <<connected_vm_id, closed>>

\* RemoveUser() of the channel, for a socket that is still in it or not.
Leave(vm) ==
  LET s == Head(tasks[vm]).socket
  IN /\ Runs(vm, "leave")
     /\ IF s \notin members[vm]
          THEN NoEffect(vm)
          ELSE /\ RemoveFromQueue(vm, s)
               /\ members' = [members EXCEPT ![vm] = @ \ {s}]
               /\ tasks' = [tasks EXCEPT ![vm] = Tail(@)]
               /\ UNCHANGED <<connected_vm_id, closed>>

\* The wait of a turn expires, and its handler is queued.
TimerExpires(vm) ==
  /\ armed[vm] # NoSocket
  /\ Dispatch(vm, Task("timer", armed[vm]))
  /\ armed' = [armed EXCEPT ![vm] = NoSocket]
  /\ UNCHANGED <<connected_vm_id, closed, position, members, turn_queue>>

TimerHandler(vm) ==
  /\ Runs(vm, "timer")
  /\ RemoveFromQueue(vm, Head(tasks[vm]).socket)
  /\ tasks' = [tasks EXCEPT ![vm] = Tail(@)]
  /\ UNCHANGED <<connected_vm_id, closed, members>>

Next ==
  \/ \E s \in Sockets, vm \in Vms : ConnectToChannel(s, vm)
  \/ \E s \in Sockets : TurnRequest(s) \/ OnDisconnect(s)
  \/ \E vm \in Vms : \/ Join(vm) \/ Rejoin(vm) \/ RequestTurn(vm) \/ Leave(vm)
                     \/ TimerExpires(vm) \/ TimerHandler(vm)

Spec == Init /\ [][Next]_vars

-----------------------------------------------------------------------------
(* Properties *)

\* Every position is the index of the socket in the queue of one VM: holds as
\* long as there is a single VM, also for sockets that join it twice, ask for
\* a turn after they left, or disconnect with tasks still queued.
PositionsAgree ==
  /\ \A vm \in Vms : \A i \in 1 .. Len(turn_queue[vm]) :
       position[turn_queue[vm][i]] = i - 1
  /\ \A s \in Sockets : position[s] # NotQueued =>
       \E vm \in Vms : Contains(turn_queue[vm], s)

\* Who leaves the queue of a VM is the socket of the task that is run.
OnlyTheUserLeaves ==
  \A vm \in Vms : \A s \in ToSet(turn_queue[vm]) \ ToSet(turn_queue'[vm]) :
    Head(tasks[vm]).socket = s

\* "Remove the user and update the queue position for all users behind them",
\* says RemoveUser(): nobody but the user it is called for leaves the queue.
RemovesTheUser == [][OnlyTheUserLeaves]_vars

=============================================================================
