------------------------------ MODULE SendQueue ------------------------------
(***************************************************************************)
(* The outgoing side of one client connection: CollabVmSocket's            *)
(* QueueMessage, QueueMessageBatch and SendMessageCallback, which keep at  *)
(* most one websocket write in flight and collect what is queued meanwhile *)
(* into the next one.                                                      *)
(*                                                                         *)
(* send_queue_ is a StrandGuard: a task dispatched to it runs inline when  *)
(* no other thread holds the strand, and is queued behind the others when  *)
(* one does.  The task at the head of strand is the one being run; its     *)
(* effect is the action that takes it off.                                 *)
(***************************************************************************)
EXTENDS Integers, SequencesExt

CONSTANTS
  MaxMessages,  \* bound: messages created
  MaxTasks,     \* bound: tasks dispatched to the strand and not finished
  Batches       \* the sizes of the batches queued

ASSUME BoundsAssumption ==
  MaxMessages \in Nat /\ MaxTasks \in Nat /\ Batches \subseteq Nat

VARIABLES
  strand,      \* the tasks of send_queue_'s strand, the running one first
  send_queue,  \* the queue send_queue_ guards
  sending,     \* sending_
  writes,      \* messages of each async_write() that has not completed
  wire,        \* messages of the writes that completed without error
  open,        \* the connection can carry data
  created,     \* messages created so far; message n is the n-th
  frame,       \* the activation of AdminVirtualMachine::OnStart()
  null_read    \* a batch callback came upon a null message

vars == <<strand, send_queue, sending, writes, wire, open, created, frame,
          null_read>>

Init ==
  /\ strand = <<>> /\ send_queue = <<>> /\ writes = <<>> /\ wire = <<>>
  /\ sending = FALSE /\ open = TRUE
  /\ created = 0
  /\ frame = "none"
  /\ null_read = FALSE

-----------------------------------------------------------------------------
(* Callers, on strands and threads of their own. *)

\* The next n messages.
Fresh(n) == [i \in 1 .. n |-> created + i]

Dispatch(task) ==
  /\ Len(strand) < MaxTasks
  /\ created + Len(task.msgs) <= MaxMessages
  /\ created' = created + Len(task.msgs)
  /\ strand' = Append(strand, task)
  /\ UNCHANGED <<send_queue, sending, writes, wire, open, null_read>>

QueueMessage ==
  /\ Dispatch([kind |-> "one", msgs |-> Fresh(1), ok |-> TRUE])
  /\ UNCHANGED frame

QueueMessageBatch(n) ==
  /\ Dispatch([kind |-> "batch", msgs |-> Fresh(n), ok |-> TRUE])
  /\ UNCHANGED frame

\* OnStart() queues a batch whose callback refers to its local vector
\* `messages`.  Run inline, the callback ends before OnStart() returns.  One
\* such batch at a time is enough to see the reference outlive the vector.
OnStart(n) ==
  /\ frame = "none"
  /\ \A i \in 1 .. Len(strand) : strand[i].kind # "onstart"
  /\ Dispatch([kind |-> "onstart", msgs |-> Fresh(n), ok |-> TRUE])
  /\ frame' = IF strand = <<>> THEN "inline" ELSE "running"

OnStartReturns ==
  /\ frame = "running"
  /\ frame' = "none"
  /\ UNCHANGED <<strand, send_queue, sending, writes, wire, open, created,
                 null_read>>

\* Close() from anywhere else: a read error, a ban, the admin panel.
Close ==
  /\ open
  /\ open' = FALSE
  /\ UNCHANGED <<strand, send_queue, sending, writes, wire, created, frame,
                 null_read>>

-----------------------------------------------------------------------------
(* Tasks of the strand. *)

Runs(kind) ==
  /\ strand # <<>>
  /\ Head(strand).kind = kind
  /\ strand' = Tail(strand)
  /\ UNCHANGED <<wire, created>>

\* SendMessage() and SendMessageBatch() hand the messages to WriteMessage().
StartWrite(msgs) == writes' = Append(writes, msgs)

\* Faulty variant: sending_ is not set.
RunQueueMessage_NoFlag ==
  /\ Runs("one")
  /\ IF sending
       THEN /\ send_queue' = send_queue \o Head(strand).msgs
            /\ UNCHANGED writes
       ELSE /\ StartWrite(Head(strand).msgs)
            /\ UNCHANGED send_queue
  /\ UNCHANGED <<sending, open, frame, null_read>>

RunQueueMessage ==
  /\ Runs("one")
  /\ sending' = TRUE
  /\ IF sending
       THEN /\ send_queue' = send_queue \o Head(strand).msgs
            /\ UNCHANGED writes
       ELSE /\ StartWrite(Head(strand).msgs)
            /\ UNCHANGED send_queue
  /\ UNCHANGED <<open, frame, null_read>>

\* Faulty variant: the batch waits for a write that is not there.
PushBatch_NoStart(msgs) ==
  /\ send_queue' = send_queue \o msgs
  /\ UNCHANGED <<sending, writes>>

\* The batch's messages are pushed; they are sent at once if nothing is.
PushBatch(msgs) ==
  LET queue == send_queue \o msgs
  IN IF queue # <<>> /\ ~sending
       THEN /\ sending' = TRUE
            /\ StartWrite(queue)
            /\ send_queue' = <<>>
       ELSE /\ send_queue' = queue
            /\ UNCHANGED <<sending, writes>>

RunBatch ==
  /\ Runs("batch")
  /\ PushBatch(Head(strand).msgs)
  /\ UNCHANGED <<open, frame, null_read>>

Null == 0   \* a null shared_ptr in the place of a message

\* `if (!socket_message) return;`, for messages that are all null or none.
SkipNull(msgs) == IF Null \in ToSet(msgs) THEN <<>> ELSE msgs

\* OnStart()'s callback.  Once OnStart() has returned, the vector it reads is
\* destroyed: the elements may still look intact, or they may be null.
RunOnStartBatch ==
  LET msgs == Head(strand).msgs
      nulls == [i \in 1 .. Len(msgs) |-> Null]
  IN /\ Runs("onstart")
     /\ frame' = IF frame = "inline" THEN "running" ELSE frame
     /\ \E read \in {msgs} \cup (IF frame = "none" THEN {nulls} ELSE {}) :
          /\ PushBatch(SkipNull(read))
          /\ null_read' = (null_read \/ Null \in ToSet(read))
     /\ UNCHANGED open

\* Faulty variant: sending_ is cleared although messages are waiting.
RunWritten_Forgets ==
  /\ Runs("written")
  /\ sending' = FALSE
  /\ UNCHANGED <<send_queue, writes, open, frame, null_read>>

\* SendMessageCallback(): an error closes the socket and leaves sending_ set.
RunWritten ==
  /\ Runs("written")
  /\ UNCHANGED <<frame, null_read>>
  /\ IF ~Head(strand).ok
       THEN open' = FALSE /\ UNCHANGED <<send_queue, sending, writes>>
       ELSE /\ UNCHANGED open
            /\ IF send_queue = <<>>
                 THEN sending' = FALSE /\ UNCHANGED <<send_queue, writes>>
                 ELSE /\ StartWrite(send_queue)
                      /\ send_queue' = <<>>
                      /\ UNCHANGED sending

-----------------------------------------------------------------------------
(* The websocket stream: a write completes, and its handler is dispatched. *)

Completes(i, ok) ==
  /\ writes' = RemoveAt(writes, i)
  /\ strand' = Append(strand, [kind |-> "written", msgs |-> <<>>, ok |-> ok])
  /\ UNCHANGED <<send_queue, sending, created, frame, null_read>>

WriteSucceeds(i) ==
  /\ open
  /\ Completes(i, TRUE)
  /\ wire' = wire \o writes[i]
  /\ UNCHANGED open

WriteFails(i) ==
  /\ Completes(i, FALSE)
  /\ open' = FALSE
  /\ UNCHANGED wire

WriteCompletes == \E i \in 1 .. Len(writes) : WriteSucceeds(i) \/ WriteFails(i)

RunTask == RunQueueMessage \/ RunBatch \/ RunOnStartBatch \/ RunWritten

Next ==
  \/ QueueMessage
  \/ \E n \in Batches : QueueMessageBatch(n) \/ OnStart(n)
  \/ OnStartReturns
  \/ Close
  \/ RunTask
  \/ WriteCompletes

\* The threads of the io_context run the strand's tasks, and a write ends:
\* the client reads, or the connection breaks.
Fairness == WF_vars(RunTask) /\ WF_vars(WriteCompletes)

Spec == Init /\ [][Next]_vars /\ Fairness

-----------------------------------------------------------------------------
(* Properties *)

Message == Nat \ {0}
Task == [kind : {"one", "batch", "onstart", "written"},
         msgs : Seq(Message), ok : BOOLEAN]

\* Types of the variables: no null message is ever queued or written.
TypeOK ==
  /\ strand \in Seq(Task)
  /\ send_queue \in Seq(Message)
  /\ sending \in BOOLEAN
  /\ writes \in Seq(Seq(Message))
  /\ wire \in Seq(Message)
  /\ open \in BOOLEAN
  /\ created \in Nat
  /\ frame \in {"none", "inline", "running"}
  /\ null_read \in BOOLEAN

\* A write's handler is among the tasks, and no two are.
Written(tasks) == \E i \in 1 .. Len(tasks) : tasks[i].kind = "written"
OneWritten(tasks) ==
  \A i, j \in 1 .. Len(tasks) :
    tasks[i].kind = "written" /\ tasks[j].kind = "written" => i = j

\* The stream allows one async_write() at a time: a second one is never
\* started before the handler of the first has run.
OneWriteAtATime ==
  /\ Len(writes) <= 1
  /\ OneWritten(strand)
  /\ writes # <<>> => ~Written(strand)

\* No message is stranded: while one is queued, a write is in flight or its
\* handler is about to look at the queue, unless the connection is gone.
QueueHasSender ==
  /\ sending /\ open => writes # <<>> \/ Written(strand)
  /\ ~sending => send_queue = <<>> /\ writes = <<>> /\ ~Written(strand)

\* The messages handed over and not written, oldest first.
InFlight == IF writes = <<>> THEN <<>> ELSE Head(writes)

Pending == InFlight \o send_queue

\* The connection keeps the promise of MessageFifo: writes that collect
\* whatever was queued lose, repeat and reorder nothing.
Fifo == INSTANCE MessageFifo
          WITH delivered <- wire, pending <- Pending

ImplementsFifo == Fifo!Spec

\* A message that is accepted is written, unless the connection breaks.
AcceptedIsSent ==
  \A m \in 1 .. MaxMessages :
    Contains(Pending, m) ~> (Contains(wire, m) \/ ~open)

\* "This shouldn't happen", says QueueMessageBatch() of a null message.
NoNullMessage == ~null_read

=============================================================================
