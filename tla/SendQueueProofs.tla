--------------------------- MODULE SendQueueProofs ---------------------------
(***************************************************************************)
(* Proofs about SendQueue, for any number of messages, tasks and any batch *)
(* sizes: one write at a time, no stranded message, and the connection     *)
(* implements MessageFifo.                                                 *)
(***************************************************************************)
EXTENDS SendQueue, SequenceTheorems, TLAPS

\* The inductive invariant.  One token circulates while sending_ is set: a
\* write in flight, or its handler on the strand.
Inv == TypeOK /\ OneWriteAtATime /\ QueueHasSender

\* An index into a sequence of at most one element.
LEMMA AtMostOne ==
  ASSUME NEW n \in Nat, n <= 1, NEW i \in 1 .. n
  PROVE  i = 1 /\ n = 1
OBVIOUS

\* Moving the boundary inside a concatenation.
LEMMA Regroup ==
  \A a, b, c \in Seq(Message) : (a \o b) \o c = a \o (b \o c)
<1> TAKE a, b, c \in Seq(Message)
<1> QED BY ConcatAssociative

\* What is left of a concatenation behind its first part is the second.
LEMMA SuffixOfConcat ==
  ASSUME NEW S, NEW s \in Seq(S), NEW t \in Seq(S)
  PROVE  t = SubSeq(s \o t, Len(s) + 1, Len(s \o t))
<1> DEFINE u == SubSeq(s \o t, Len(s) + 1, Len(s \o t))
<1>1. /\ s \o t \in Seq(S) /\ Len(s \o t) = Len(s) + Len(t)
      /\ Len(s) \in Nat /\ Len(t) \in Nat
      /\ \A i \in 1 .. Len(s) + Len(t) :
           (s \o t)[i] = IF i <= Len(s) THEN s[i] ELSE t[i - Len(s)]
  BY ConcatProperties
<1>2. /\ u \in Seq(S) /\ Len(u) = Len(t)
      /\ \A i \in 1 .. Len(t) : u[i] = (s \o t)[Len(s) + i]
  BY <1>1
<1>3. \A i \in 1 .. Len(t) : u[i] = t[i]
  <2> TAKE i \in 1 .. Len(t)
  <2>1. /\ Len(s) + i \in 1 .. Len(s) + Len(t) /\ ~(Len(s) + i <= Len(s))
        /\ Len(s) + i - Len(s) = i
    BY <1>1
  <2> HIDE DEF u
  <2> QED BY <1>1, <1>2, <2>1
<1> HIDE DEF u
<1>4. t = u
  BY <1>2, <1>3, SeqEqual
<1> QED
  BY <1>4 DEF u

\* Queueing a task that is not a write's handler.
LEMMA AppendOther ==
  ASSUME NEW tasks \in Seq(Task), NEW t \in Task, t.kind # "written"
  PROVE  /\ Append(tasks, t) \in Seq(Task)
         /\ Written(Append(tasks, t)) <=> Written(tasks)
         /\ OneWritten(tasks) => OneWritten(Append(tasks, t))
<1> DEFINE new == Append(tasks, t)
<1>1. /\ new \in Seq(Task) /\ Len(new) = Len(tasks) + 1
      /\ \A i \in 1 .. Len(tasks) : new[i] = tasks[i]
      /\ new[Len(tasks) + 1] = t
  BY AppendProperties
<1>2. Len(tasks) \in Nat
  OBVIOUS
<1> HIDE DEF new
<1>3. \A i \in 1 .. Len(new) :
        new[i].kind = "written" <=>
          i \in 1 .. Len(tasks) /\ tasks[i].kind = "written"
  BY <1>1, <1>2
<1>4. \A i \in 1 .. Len(tasks) : i \in 1 .. Len(new)
  BY <1>1, <1>2
<1>5. Written(new) <=> Written(tasks)
  BY <1>3, <1>4 DEF Written
<1>6. OneWritten(tasks) => OneWritten(new)
  BY <1>3 DEF OneWritten
<1> QED
  BY <1>1, <1>5, <1>6 DEF new

\* Queueing a write's handler when there is none.
LEMMA AppendHandler ==
  ASSUME NEW tasks \in Seq(Task), NEW t \in Task, t.kind = "written",
         ~Written(tasks)
  PROVE  /\ Append(tasks, t) \in Seq(Task)
         /\ Written(Append(tasks, t))
         /\ OneWritten(Append(tasks, t))
<1> DEFINE new == Append(tasks, t)
<1>1. /\ new \in Seq(Task) /\ Len(new) = Len(tasks) + 1
      /\ \A i \in 1 .. Len(tasks) : new[i] = tasks[i]
      /\ new[Len(tasks) + 1] = t
  BY AppendProperties
<1>2. Len(tasks) \in Nat
  OBVIOUS
<1> HIDE DEF new
<1>3. \A i \in 1 .. Len(new) :
        new[i].kind = "written" <=> i = Len(tasks) + 1
  BY <1>1, <1>2 DEF Written
<1>4. Len(tasks) + 1 \in 1 .. Len(new)
  BY <1>1, <1>2
<1> QED
  BY <1>1, <1>3, <1>4 DEF Written, OneWritten, new

\* Taking off the task that has run.
LEMMA TailWritten ==
  ASSUME NEW tasks \in Seq(Task), tasks # <<>>, OneWritten(tasks)
  PROVE  /\ Tail(tasks) \in Seq(Task)
         /\ Head(tasks) \in Task
         /\ OneWritten(Tail(tasks))
         /\ IF Head(tasks).kind = "written"
              THEN Written(tasks) /\ ~Written(Tail(tasks))
              ELSE Written(Tail(tasks)) <=> Written(tasks)
<1> DEFINE rest == Tail(tasks)
<1>1. /\ rest \in Seq(Task) /\ Head(tasks) \in Task
      /\ Len(rest) = Len(tasks) - 1
      /\ \A i \in 1 .. Len(rest) : rest[i] = tasks[i + 1]
  BY HeadTailProperties
<1>2. Len(tasks) \in Nat \ {0} /\ Head(tasks) = tasks[1]
  BY EmptySeq
<1> HIDE DEF rest
<1>3. \A i \in 1 .. Len(rest) : i + 1 \in 1 .. Len(tasks) /\ i + 1 # 1
  BY <1>1, <1>2
<1>4. OneWritten(rest)
  BY <1>1, <1>2, <1>3 DEF OneWritten
<1>5. CASE Head(tasks).kind = "written"
  <2>1. Written(tasks)
    BY <1>2, <1>5 DEF Written
  <2>2. ASSUME NEW i \in 1 .. Len(rest), rest[i].kind = "written"
        PROVE  FALSE
    <3>1. i + 1 \in 1 .. Len(tasks) /\ tasks[i + 1].kind = "written"
      BY <1>1, <1>3, <2>2
    <3>2. 1 \in 1 .. Len(tasks) /\ tasks[1].kind = "written"
      BY <1>2, <1>5
    <3>3. i + 1 = 1
      BY <3>1, <3>2 DEF OneWritten
    <3> QED BY <1>3, <3>3
  <2> QED BY <1>1, <1>4, <1>5, <2>1, <2>2 DEF Written, rest
<1>6. CASE Head(tasks).kind # "written"
  <2>1. ASSUME NEW i \in 1 .. Len(rest), rest[i].kind = "written"
        PROVE  Written(tasks)
    BY <1>1, <1>3, <2>1 DEF Written
  <2>2. ASSUME NEW i \in 1 .. Len(tasks), tasks[i].kind = "written"
        PROVE  Written(rest)
    <3>1. i # 1
      BY <1>2, <1>6, <2>2
    <3>2. i - 1 \in 1 .. Len(rest) /\ rest[i - 1] = tasks[i]
      BY <1>1, <1>2, <3>1
    <3> QED BY <2>2, <3>2 DEF Written
  <2>3. Written(rest) <=> Written(tasks)
    BY <2>1, <2>2 DEF Written
  <2> QED BY <1>1, <1>4, <1>6, <2>3 DEF rest
<1> QED
  BY <1>5, <1>6

-----------------------------------------------------------------------------

\* What QueueMessage() and QueueMessageBatch() do with their messages in a
\* state that satisfies the invariant.
Pushes(msgs) ==
  \/ /\ sending /\ sending' = TRUE /\ writes' = writes
     /\ send_queue' = send_queue \o msgs
  \/ /\ ~sending /\ sending' = TRUE /\ writes' = Append(writes, msgs)
     /\ send_queue' = <<>>
  \/ /\ ~sending /\ sending' = FALSE /\ writes' = writes /\ msgs = <<>>
     /\ send_queue' = <<>>

\* Pushing a batch is one of those three.
LEMMA PushBatchPushes ==
  ASSUME Inv, NEW msgs \in Seq(Message), PushBatch(msgs)
  PROVE  Pushes(msgs)
<1>1. CASE sending
  BY <1>1 DEF PushBatch, Pushes, Inv, TypeOK
<1>2. CASE ~sending
  <2>1. send_queue = <<>> /\ send_queue \o msgs = msgs
    BY <1>2, ConcatEmptySeq DEF Inv, QueueHasSender, TypeOK
  <2> QED BY <1>2, <2>1 DEF PushBatch, Pushes, StartWrite, Inv, TypeOK
<1> QED
  BY <1>1, <1>2 DEF Inv, TypeOK

\* A task that pushes messages keeps the invariant, and accepts them behind
\* those that are pending.
LEMMA PushStep ==
  ASSUME Inv, NEW msgs \in Seq(Message), Pushes(msgs),
         strand # <<>>, Head(strand).kind # "written", strand' = Tail(strand),
         wire' = wire, open' = open, created' = created,
         frame' \in {"none", "inline", "running"}, null_read' \in BOOLEAN
  PROVE  Inv' /\ Fifo!Accept
<1>1. /\ strand' \in Seq(Task) /\ OneWritten(strand')
      /\ Written(strand') <=> Written(strand)
  BY TailWritten DEF Inv, OneWriteAtATime, QueueHasSender, TypeOK
<1>2. /\ Len(writes) <= 1 /\ writes \in Seq(Seq(Message))
      /\ send_queue \in Seq(Message)
      /\ writes # <<>> => ~Written(strand)
      /\ sending /\ open => writes # <<>> \/ Written(strand)
      /\ ~sending => send_queue = <<>> /\ writes = <<>> /\ ~Written(strand)
  BY DEF Inv, OneWriteAtATime, QueueHasSender, TypeOK
<1>3. send_queue' \in Seq(Message) /\ writes' \in Seq(Seq(Message))
  <2>1. send_queue \o msgs \in Seq(Message)
    BY <1>2, ConcatProperties
  <2>2. Append(writes, msgs) \in Seq(Seq(Message))
    BY <1>2, AppendProperties
  <2>3. <<>> \in Seq(Message)
    OBVIOUS
  <2> QED BY <1>2, <2>1, <2>2, <2>3 DEF Pushes
<1>4. TypeOK'
  BY <1>1, <1>3 DEF Inv, TypeOK, Pushes
<1>5. CASE sending
  <2>1. sending' /\ writes' = writes /\ send_queue' = send_queue \o msgs
    BY <1>5 DEF Pushes
  <2>2. Inv'
    BY <1>1, <1>2, <1>4, <1>5, <2>1 DEF Inv, OneWriteAtATime, QueueHasSender
  <2>3. InFlight' = InFlight /\ InFlight \in Seq(Message)
    BY <1>2, <2>1 DEF InFlight
  <2>4. Pending' = Pending \o msgs /\ Pending \in Seq(Message)
    <3>1. Pending' = InFlight \o (send_queue \o msgs)
      BY <2>1, <2>3 DEF Pending
    <3>2. InFlight \o (send_queue \o msgs) = (InFlight \o send_queue) \o msgs
      BY <1>2, <2>3, Regroup, Zenon
    <3>3. InFlight \o send_queue \in Seq(Message)
      BY <1>2, <2>3, ConcatProperties
    <3> QED BY <3>1, <3>2, <3>3 DEF Pending
  <2>5. Fifo!IsPrefix(Pending, Pending')
    BY <2>4, ConcatProperties DEF Fifo!IsPrefix
  <2> QED BY <2>2, <2>5 DEF Fifo!Accept
<1>6. CASE ~sending
  <2>1. writes = <<>> /\ send_queue = <<>> /\ ~Written(strand')
    BY <1>1, <1>2, <1>6
  <2>2. \/ sending' = TRUE /\ writes' = <<msgs>> /\ send_queue' = <<>>
        \/ sending' = FALSE /\ writes' = <<>> /\ send_queue' = <<>>
    BY <1>6, <2>1 DEF Pushes
  <2>3. Inv'
    <3>1. Len(writes') <= 1 /\ (sending' => writes' # <<>>)
      <4>1. CASE writes' = <<msgs>>
        BY <4>1
      <4>2. CASE writes' = <<>> /\ ~sending'
        BY <4>2
      <4> QED BY <2>2, <4>1, <4>2
    <3>2. OneWriteAtATime'
      BY <1>1, <2>1, <3>1 DEF OneWriteAtATime
    <3>3. QueueHasSender'
      BY <2>1, <2>2, <3>1 DEF QueueHasSender
    <3> QED BY <1>4, <3>2, <3>3 DEF Inv
  <2>4. Pending = <<>>
    BY <2>1 DEF Pending, InFlight
  <2>5. InFlight' \in Seq(Message) /\ Pending' \in Seq(Message)
    <3>1. InFlight' = msgs \/ InFlight' = <<>>
      BY <2>2 DEF InFlight
    <3>2. Pending' = InFlight' \o <<>>
      BY <2>2 DEF Pending
    <3>3. InFlight' \in Seq(Message)
      BY <3>1, EmptySeq, Zenon
    <3>4. Pending' = InFlight'
      BY <3>2, <3>3, ConcatEmptySeq
    <3> QED BY <3>3, <3>4
  <2>6. Fifo!IsPrefix(Pending, Pending')
    BY <2>4, <2>5 DEF Fifo!IsPrefix
  <2> QED BY <2>3, <2>6 DEF Fifo!Accept
<1> QED
  BY <1>5, <1>6 DEF Inv, TypeOK

\* The messages of a dispatched task are new ones.
LEMMA DispatchStep ==
  ASSUME Inv, NEW kind \in {"one", "batch", "onstart"}, NEW n \in Nat,
         Dispatch([kind |-> kind, msgs |-> Fresh(n), ok |-> TRUE]),
         frame' \in {"none", "inline", "running"}
  PROVE  Inv' /\ UNCHANGED Fifo!vars
<1> DEFINE t == [kind |-> kind, msgs |-> Fresh(n), ok |-> TRUE]
<1>1. Fresh(n) \in Seq(Message) /\ Len(Fresh(n)) = n
  BY DEF Fresh, Message, Inv, TypeOK
<1>2. t \in Task /\ t.kind # "written" /\ Len(t.msgs) = n
  BY <1>1 DEF Task
<1>3. /\ strand' = Append(strand, t) /\ created' = created + Len(t.msgs)
      /\ send_queue' = send_queue /\ sending' = sending /\ writes' = writes
      /\ wire' = wire /\ open' = open /\ null_read' = null_read
  BY DEF Dispatch
<1> HIDE DEF t
<1>4. /\ strand' \in Seq(Task)
      /\ Written(strand') <=> Written(strand)
      /\ OneWritten(strand) => OneWritten(strand')
  BY <1>2, <1>3, AppendOther DEF Inv, TypeOK
<1>5. TypeOK'
  BY <1>2, <1>3, <1>4 DEF Inv, TypeOK
<1>6. Inv'
  BY <1>3, <1>4, <1>5 DEF Inv, OneWriteAtATime, QueueHasSender
<1> QED
  BY <1>3, <1>6 DEF Fifo!vars, Pending, InFlight

\* SendMessageCallback() passes the token on, or gives it up.
LEMMA RunWrittenStep ==
  ASSUME Inv, RunWritten
  PROVE  Inv' /\ (Fifo!Lose \/ UNCHANGED Fifo!vars)
<1>1. /\ strand # <<>> /\ Head(strand).kind = "written"
      /\ strand' = Tail(strand) /\ wire' = wire /\ created' = created
      /\ frame' = frame /\ null_read' = null_read
  BY DEF RunWritten, Runs
<1>2. /\ strand' \in Seq(Task) /\ OneWritten(strand')
      /\ Written(strand) /\ ~Written(strand')
  BY <1>1, TailWritten DEF Inv, OneWriteAtATime, QueueHasSender, TypeOK
<1>3. /\ writes = <<>> /\ sending = TRUE
  BY <1>2 DEF Inv, OneWriteAtATime, QueueHasSender, TypeOK
<1>4. Pending = send_queue /\ send_queue \in Seq(Message)
  BY <1>3, ConcatEmptySeq DEF Pending, InFlight, Inv, TypeOK
<1>5. CASE ~Head(strand).ok
  <2>1. /\ open' = FALSE /\ send_queue' = send_queue /\ sending' = sending
        /\ writes' = writes
    BY <1>5 DEF RunWritten
  <2>2. TypeOK'
    BY <1>1, <1>2, <2>1 DEF Inv, TypeOK
  <2>3. Inv'
    BY <1>2, <1>3, <2>1, <2>2 DEF Inv, OneWriteAtATime, QueueHasSender
  <2>4. Pending' = Pending
    BY <2>1 DEF Pending, InFlight
  <2>5. Pending' = SubSeq(Pending, 1, Len(Pending))
    BY <1>4, <2>4, SubSeqFull
  <2>6. Fifo!Lose
    BY <1>1, <1>4, <2>1, <2>5 DEF Fifo!Lose
  <2> QED BY <2>3, <2>6
<1>6. CASE Head(strand).ok /\ send_queue = <<>>
  <2>1. /\ open' = open /\ send_queue' = send_queue /\ sending' = FALSE
        /\ writes' = writes
    BY <1>6 DEF RunWritten
  <2>2. TypeOK'
    BY <1>1, <1>2, <2>1 DEF Inv, TypeOK
  <2>3. Inv'
    BY <1>2, <1>3, <1>6, <2>1, <2>2 DEF Inv, OneWriteAtATime, QueueHasSender
  <2> QED BY <1>1, <2>1, <2>3 DEF Fifo!vars, Pending, InFlight
<1>7. CASE Head(strand).ok /\ send_queue # <<>>
  <2>1. /\ open' = open /\ send_queue' = <<>> /\ sending' = sending
        /\ writes' = <<send_queue>>
    BY <1>3, <1>7 DEF RunWritten, StartWrite
  <2>2. TypeOK'
    BY <1>1, <1>2, <1>4, <2>1 DEF Inv, TypeOK
  <2>3. Inv'
    BY <1>2, <1>3, <2>1, <2>2 DEF Inv, OneWriteAtATime, QueueHasSender
  <2>4. Pending' = send_queue
    BY <1>4, <2>1, ConcatEmptySeq DEF Pending, InFlight
  <2> QED BY <1>1, <1>4, <2>1, <2>3, <2>4 DEF Fifo!vars
<1> QED
  BY <1>5, <1>6, <1>7

\* A write that ends hands its token to its handler.
LEMMA CompletesStep ==
  ASSUME Inv, NEW i \in 1 .. Len(writes), NEW ok \in BOOLEAN,
         Completes(i, ok), wire' \in Seq(Message), open' \in BOOLEAN,
         open' => open
  PROVE  /\ Inv'
         /\ i = 1 /\ writes[1] \in Seq(Message)
         /\ Pending = writes[1] \o send_queue
         /\ Pending' = send_queue
<1> DEFINE t == [kind |-> "written", msgs |-> <<>>, ok |-> ok]
<1>1. i = 1 /\ Len(writes) = 1 /\ writes # <<>> /\ ~Written(strand)
  <2>1. Len(writes) \in Nat /\ Len(writes) <= 1
    BY DEF Inv, TypeOK, OneWriteAtATime
  <2>2. i \in 1 .. Len(writes)
    OBVIOUS
  <2>3. i = 1 /\ Len(writes) = 1
    BY <2>1, <2>2, AtMostOne, Zenon
  <2>4. writes # <<>>
    BY <2>3, EmptySeq
  <2> QED BY <2>3, <2>4 DEF Inv, OneWriteAtATime
<1>2. /\ writes' = <<>> /\ strand' = Append(strand, t)
      /\ send_queue' = send_queue /\ sending' = sending
      /\ created' = created /\ frame' = frame /\ null_read' = null_read
  BY <1>1 DEF Completes, RemoveAt, Inv, TypeOK
<1>3. t \in Task /\ t.kind = "written"
  BY DEF Task
<1> HIDE DEF t
<1>4. strand' \in Seq(Task) /\ Written(strand') /\ OneWritten(strand')
  BY <1>1, <1>2, <1>3, AppendHandler DEF Inv, TypeOK
<1>5. TypeOK'
  BY <1>2, <1>4 DEF Inv, TypeOK
<1>6. sending
  BY <1>1 DEF Inv, OneWriteAtATime, QueueHasSender, TypeOK
<1>7. Inv'
  BY <1>2, <1>4, <1>5, <1>6 DEF Inv, OneWriteAtATime, QueueHasSender
<1>8. writes[1] \in Seq(Message) /\ Head(writes) = writes[1]
  BY <1>1 DEF Inv, TypeOK
<1>9. Pending = writes[1] \o send_queue
  BY <1>1, <1>8 DEF Pending, InFlight
<1>10. Pending' = send_queue
  BY <1>2, ConcatEmptySeq DEF Pending, InFlight, Inv, TypeOK
<1> QED
  BY <1>1, <1>7, <1>8, <1>9, <1>10

-----------------------------------------------------------------------------

\* A new connection satisfies the invariant and is a new MessageFifo.
LEMMA InitInv == Init => Inv /\ Fifo!Init
<1> SUFFICES ASSUME Init PROVE Inv /\ Fifo!Init
  OBVIOUS
<1>1. TypeOK
  <2>1. /\ strand \in Seq(Task) /\ send_queue \in Seq(Message)
        /\ writes \in Seq(Seq(Message)) /\ wire \in Seq(Message)
    BY EmptySeq, Zenon DEF Init
  <2>2. /\ sending \in BOOLEAN /\ open \in BOOLEAN /\ null_read \in BOOLEAN
        /\ created \in Nat /\ frame \in {"none", "inline", "running"}
    BY DEF Init
  <2> QED BY <2>1, <2>2 DEF TypeOK
<1>2. Len(strand) = 0 /\ Len(writes) = 0
  BY EmptySeq DEF Init
<1>3. OneWriteAtATime /\ QueueHasSender
  BY <1>2 DEF Init, OneWriteAtATime, QueueHasSender, Written, OneWritten
<1>4. Pending = <<>>
  BY DEF Init, Pending, InFlight
<1> QED
  BY <1>1, <1>3, <1>4 DEF Inv, Init, Fifo!Init

\* OnStart()'s callback pushes its own messages or none.
LEMMA OnStartPushes ==
  ASSUME Inv, RunOnStartBatch
  PROVE  /\ \E msgs \in Seq(Message) : PushBatch(msgs)
         /\ frame' \in {"none", "inline", "running"}
         /\ null_read' \in BOOLEAN
<1>1. Head(strand) \in Task
  BY HeadTailProperties DEF RunOnStartBatch, Runs, Inv, TypeOK
<1> DEFINE msgs == Head(strand).msgs
           nulls == [i \in 1 .. Len(msgs) |-> Null]
<1>2. msgs \in Seq(Message)
  BY <1>1 DEF Task
<1>3. PICK read \in {msgs, nulls} :
        /\ PushBatch(SkipNull(read))
        /\ null_read' = (null_read \/ Null \in ToSet(read))
  BY DEF RunOnStartBatch
<1>4. SkipNull(msgs) \in Seq(Message)
  BY <1>2 DEF SkipNull
<1>5. SkipNull(nulls) \in Seq(Message)
  <2>1. CASE Len(msgs) = 0
    <3>1. nulls = <<>>
      BY <2>1
    <3> QED BY <3>1 DEF SkipNull
  <2>2. CASE Len(msgs) # 0
    <3>1. Len(msgs) \in Nat /\ 1 \in 1 .. Len(msgs)
      BY <1>2, <2>2
    <3>2. Null \in ToSet(nulls)
      BY <3>1 DEF ToSet
    <3> QED BY <3>2 DEF SkipNull
  <2> QED BY <2>1, <2>2
<1> QED
  BY <1>3, <1>4, <1>5 DEF RunOnStartBatch, Inv, TypeOK

\* Every step keeps the invariant and is a step of MessageFifo, or none.
LEMMA NextStep ==
  ASSUME Inv, [Next]_vars
  PROVE  Inv' /\ [Fifo!Next]_(Fifo!vars)
<1>1. CASE QueueMessage
  BY <1>1, DispatchStep DEF QueueMessage, Inv, TypeOK
<1>2. ASSUME NEW n \in Batches, QueueMessageBatch(n)
      PROVE  Inv' /\ [Fifo!Next]_(Fifo!vars)
  BY <1>2, DispatchStep, BoundsAssumption DEF QueueMessageBatch, Inv, TypeOK
<1>3. ASSUME NEW n \in Batches, OnStart(n)
      PROVE  Inv' /\ [Fifo!Next]_(Fifo!vars)
  BY <1>3, DispatchStep, BoundsAssumption DEF OnStart
<1>4. CASE OnStartReturns \/ UNCHANGED vars
  <2>1. /\ strand' = strand /\ send_queue' = send_queue /\ sending' = sending
        /\ writes' = writes /\ wire' = wire /\ open' = open
        /\ created' = created /\ null_read' = null_read
        /\ frame' \in {"none", "inline", "running"}
    BY <1>4 DEF OnStartReturns, vars, Inv, TypeOK
  <2> QED BY <2>1 DEF Inv, TypeOK, OneWriteAtATime, QueueHasSender,
                      Fifo!vars, Pending, InFlight
<1>5. CASE Close
  <2>1. /\ strand' = strand /\ send_queue' = send_queue /\ sending' = sending
        /\ writes' = writes /\ wire' = wire /\ open' = FALSE
        /\ created' = created /\ null_read' = null_read /\ frame' = frame
    BY <1>5 DEF Close
  <2>2. Inv'
    BY <2>1 DEF Inv, TypeOK, OneWriteAtATime, QueueHasSender
  <2>3. Pending \in Seq(Message) /\ Pending' = Pending
    <3>1. InFlight \in Seq(Message)
      BY DEF InFlight, Inv, TypeOK
    <3> QED BY <2>1, <3>1, ConcatProperties DEF Pending, InFlight, Inv, TypeOK
  <2>4. Pending' = SubSeq(Pending, 1, Len(Pending)) /\ Len(Pending) \in Nat
    BY <2>3, SubSeqFull
  <2>5. Fifo!Lose
    BY <2>1, <2>4 DEF Fifo!Lose
  <2> QED BY <2>2, <2>5 DEF Fifo!Next
<1>6. CASE RunQueueMessage
  <2>1. Head(strand) \in Task /\ Head(strand).msgs \in Seq(Message)
    <3>1. strand # <<>> /\ strand \in Seq(Task)
      BY <1>6 DEF RunQueueMessage, Runs, Inv, TypeOK
    <3>2. Head(strand) \in Task
      BY <3>1, HeadTailProperties
    <3> QED BY <3>2 DEF Task
  <2>2. Pushes(Head(strand).msgs)
    BY <1>6 DEF RunQueueMessage, Pushes, StartWrite, Inv, TypeOK,
                QueueHasSender
  <2> QED BY <1>6, <2>1, <2>2, PushStep
          DEF RunQueueMessage, Runs, Inv, TypeOK, Fifo!Next
<1>7. CASE RunBatch
  <2>1. Head(strand) \in Task /\ Head(strand).msgs \in Seq(Message)
    <3>1. strand # <<>> /\ strand \in Seq(Task)
      BY <1>7 DEF RunBatch, Runs, Inv, TypeOK
    <3>2. Head(strand) \in Task
      BY <3>1, HeadTailProperties
    <3> QED BY <3>2 DEF Task
  <2>2. Pushes(Head(strand).msgs)
    BY <1>7, <2>1, PushBatchPushes DEF RunBatch
  <2> QED BY <1>7, <2>1, <2>2, PushStep
          DEF RunBatch, Runs, Inv, TypeOK, Fifo!Next
<1>8. CASE RunOnStartBatch
  <2>1. PICK msgs \in Seq(Message) : Pushes(msgs)
    BY <1>8, OnStartPushes, PushBatchPushes
  <2> QED BY <1>8, <2>1, OnStartPushes, PushStep
          DEF RunOnStartBatch, Runs, Fifo!Next
<1>9. CASE RunWritten
  BY <1>9, RunWrittenStep DEF Fifo!Next
<1>10. ASSUME NEW i \in 1 .. Len(writes), WriteSucceeds(i)
       PROVE  Inv' /\ [Fifo!Next]_(Fifo!vars)
  <2>1. writes[i] \in Seq(Message) /\ wire \in Seq(Message)
        /\ send_queue \in Seq(Message)
    BY DEF Inv, TypeOK
  <2>2. wire' = wire \o writes[i] /\ wire' \in Seq(Message) /\ open' = open
        /\ open
    BY <1>10, <2>1, ConcatProperties DEF WriteSucceeds
  <2>3. /\ Inv' /\ i = 1
        /\ Pending = writes[1] \o send_queue /\ Pending' = send_queue
    BY <1>10, <2>2, CompletesStep DEF WriteSucceeds, Inv, TypeOK
  <2>4. wire' \o Pending' = wire \o Pending
    <3>1. /\ wire' \o Pending' = (wire \o writes[1]) \o send_queue
          /\ wire \o Pending = wire \o (writes[1] \o send_queue)
      BY <2>2, <2>3
    <3>2. writes[1] \in Seq(Message)
      BY <2>1, <2>3
    <3>3. (wire \o writes[1]) \o send_queue = wire \o (writes[1] \o send_queue)
      BY <2>1, <3>2, Regroup, Zenon
    <3> QED BY <3>1, <3>3, Zenon
  <2>5. Fifo!IsPrefix(wire, wire')
    BY <2>1, <2>2, ConcatProperties DEF Fifo!IsPrefix
  <2>6. Fifo!Deliver
    BY <2>2, <2>4, <2>5 DEF Fifo!Deliver
  <2> QED BY <2>3, <2>6 DEF Fifo!Next
<1>11. ASSUME NEW i \in 1 .. Len(writes), WriteFails(i)
       PROVE  Inv' /\ [Fifo!Next]_(Fifo!vars)
  <2>1. wire' = wire /\ open' = FALSE /\ Completes(i, FALSE)
    BY <1>11 DEF WriteFails
  <2>2. /\ Inv' /\ i = 1 /\ writes[1] \in Seq(Message)
        /\ Pending = writes[1] \o send_queue /\ Pending' = send_queue
    BY <2>1, CompletesStep DEF Inv, TypeOK
  <2> DEFINE k == Len(writes[1]) + 1
  <2>3. /\ k \in 1 .. Len(Pending) + 1
        /\ send_queue = SubSeq(Pending, k, Len(Pending))
    <3>1. send_queue \in Seq(Message)
      BY DEF Inv, TypeOK
    <3>2. Len(Pending) = Len(writes[1]) + Len(send_queue)
      BY <2>2, <3>1, ConcatProperties
    <3>3. k \in 1 .. Len(Pending) + 1
      BY <2>2, <3>1, <3>2
    <3>4. send_queue = SubSeq(Pending, k, Len(Pending))
      BY <2>2, <3>1, SuffixOfConcat
    <3> QED BY <3>3, <3>4
  <2>4. Fifo!Lose
    BY <2>1, <2>2, <2>3 DEF Fifo!Lose
  <2> QED BY <2>2, <2>4 DEF Fifo!Next
<1> QED
  BY <1>1, <1>2, <1>3, <1>4, <1>5, <1>6, <1>7, <1>8, <1>9, <1>10, <1>11
  DEF Next, RunTask, WriteCompletes

\* The invariant holds in every state of every behaviour.
LEMMA InvHolds == Spec => []Inv
<1>1. Inv /\ [Next]_vars => Inv'
  BY NextStep
<1> QED
  BY InitInv, <1>1, PTL DEF Spec

\* Every variable keeps its type in every behaviour.
THEOREM TypeCorrect == Spec => []TypeOK
BY InvHolds, PTL DEF Inv

\* For any number of callers and messages: never two writes on the stream.
THEOREM OneWrite == Spec => []OneWriteAtATime
BY InvHolds, PTL DEF Inv

\* sending_ is never left set, nor a message queued, without somebody who
\* will look at the queue again.
THEOREM NeverStranded == Spec => []QueueHasSender
BY InvHolds, PTL DEF Inv

\* The connection implements MessageFifo: in order, once, nothing skipped.
THEOREM FifoImplemented == Spec => ImplementsFifo
<1>1. Inv /\ [Next]_vars => [Fifo!Next]_(Fifo!vars)
  BY NextStep
<1>2. Init => Fifo!Init
  BY InitInv
<1> QED
  BY InvHolds, <1>1, <1>2, PTL DEF Spec, ImplementsFifo, Fifo!Spec

=============================================================================
