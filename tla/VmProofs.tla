------------------------------ MODULE VmProofs ------------------------------
(***************************************************************************)
(* Proofs about the parts of MCVm: what a recording takes in, the life of  *)
(* a VM and its client, the recording's files and the list of the VMs.     *)
(* Each part has an inductive invariant of its own; a step of the whole is *)
(* one of the part or leaves its variables alone.                          *)
(***************************************************************************)
EXTENDS MCVm, FiniteSetTheorems, SequenceTheorems, TLAPS

-----------------------------------------------------------------------------
(* What a recording takes in: RecordingFilter. *)

\* The streams that are ignored are those whose sound is not captured, and the
\* sound that is captured has its opening in the file.
FilterInv ==
  /\ kind \in [Streams -> {"closed", "audio", "image"}]
  /\ audio \in BOOLEAN
  /\ ignored = IF audio THEN {} ELSE Filter!AudioStreams
  /\ audio => Filter!AudioStreams \subseteq begun
  /\ Filter!StreamsAreWhole

\* A keyframe announces the open audio streams again.
LEMMA KeyframeStep ==
  ASSUME FilterInv, NEW file, Filter!Keyframe(file), audio' \in BOOLEAN
  PROVE  FilterInv'
<1>1. Filter!AudioStreams' = Filter!AudioStreams /\ UNCHANGED kind
      /\ last'.what = "none"
  BY DEF Filter!Keyframe, Filter!AudioStreams, Filter!None
<1> QED BY <1>1 DEF FilterInv, Filter!Keyframe, Filter!StreamsAreWhole

\* ShouldRecordMessage() keeps ignored_streams_ exact.
LEMMA FilterStep ==
  ASSUME FilterInv, [Filter!Next]_filter_vars
  PROVE  FilterInv'
<1>1. CASE UNCHANGED filter_vars
  BY <1>1 DEF filter_vars, FilterInv, Filter!AudioStreams, Filter!StreamsAreWhole
<1>2. ASSUME NEW s \in Streams, Filter!OpenAudio(s) PROVE FilterInv'
  <2>1. /\ kind[s] = "closed" /\ kind' = [kind EXCEPT ![s] = "audio"]
        /\ UNCHANGED audio /\ last'.what = "open"
        /\ ignored' = IF audio THEN ignored ELSE ignored \cup {s}
        /\ begun' = IF audio THEN begun \cup {s} ELSE begun
    BY <1>2 DEF Filter!OpenAudio, Filter!Did
  <2>2. /\ Filter!AudioStreams' = Filter!AudioStreams \cup {s}
        /\ kind' \in [Streams -> {"closed", "audio", "image"}]
    BY <2>1 DEF FilterInv, Filter!AudioStreams
  <2> QED BY <2>1, <2>2 DEF FilterInv, Filter!StreamsAreWhole
<1>3. ASSUME NEW s \in Streams, Filter!OpenImage(s) PROVE FilterInv'
  <2>1. /\ kind[s] = "closed" /\ kind' = [kind EXCEPT ![s] = "image"]
        /\ UNCHANGED <<audio, ignored>> /\ last'.what = "open"
        /\ begun \subseteq begun'
    BY <1>3 DEF Filter!OpenImage, Filter!Did
  <2>2. /\ Filter!AudioStreams' = Filter!AudioStreams
        /\ kind' \in [Streams -> {"closed", "audio", "image"}]
    BY <2>1 DEF FilterInv, Filter!AudioStreams
  <2> QED BY <2>1, <2>2 DEF FilterInv, Filter!StreamsAreWhole
<1>4. ASSUME NEW s \in Streams, Filter!Blob(s) PROVE FilterInv'
  <2>1. /\ UNCHANGED <<kind, audio, ignored, begun>>
        /\ last'.stream = s /\ last'.recorded = (s \notin ignored)
    BY <1>4 DEF Filter!Blob, Filter!Did, Filter!RecordBlob
  <2>2. Filter!StreamsAreWhole'
    BY <2>1 DEF FilterInv, Filter!StreamsAreWhole, Filter!AudioStreams
  <2> QED BY <2>1, <2>2 DEF FilterInv, Filter!AudioStreams
<1>5. ASSUME NEW s \in Streams, Filter!EndStream(s) PROVE FilterInv'
  <2>1. /\ kind' = [kind EXCEPT ![s] = "closed"]
        /\ UNCHANGED audio /\ last'.what = "end"
        /\ ignored' = ignored \ {s} /\ begun' = begun \ {s}
    BY <1>5 DEF Filter!EndStream, Filter!Did
  <2>2. /\ Filter!AudioStreams' = Filter!AudioStreams \ {s}
        /\ kind' \in [Streams -> {"closed", "audio", "image"}]
    BY <2>1 DEF FilterInv, Filter!AudioStreams
  <2> QED BY <2>1, <2>2 DEF FilterInv, Filter!StreamsAreWhole
<1>6. ASSUME NEW file, Filter!NextKeyframe(file) PROVE FilterInv'
  BY <1>6, KeyframeStep DEF Filter!NextKeyframe, FilterInv
<1>7. ASSUME NEW file, NEW d \in BOOLEAN, NEW a \in BOOLEAN,
             Filter!SetCapture(d, a, file)
      PROVE  FilterInv'
  BY <1>7, KeyframeStep DEF Filter!SetCapture
<1> QED BY <1>1, <1>2, <1>3, <1>4, <1>5, <1>6, <1>7 DEF Filter!Next

\* Across keyframes, new files and changes of the settings, sound is in the
\* file only if it is to be captured and after its opening, and an image whose
\* opening ShouldRecordMessage() let through is whole: for any streams.
THEOREM StreamsStayWhole == Spec => []StreamsAreWhole
<1>1. Init => FilterInv
  BY DEF Init, Filter!Init, FilterInv, Filter!AudioStreams, Filter!StreamsAreWhole,
         Filter!None
<1>2. FilterInv /\ [Next]_vars => FilterInv'
  <2>1. [Next]_vars => [Filter!Next]_filter_vars
    BY DEF Next, vars, filter_vars
  <2> QED BY <2>1, FilterStep
<1>3. FilterInv => StreamsAreWhole
  BY DEF FilterInv, StreamsAreWhole
<1> QED BY <1>1, <1>2, <1>3, PTL DEF Spec

-----------------------------------------------------------------------------
(* The life of a VM and its client: VmLifecycle, with administrators that   *)
(* start a VM again when its client and all tasks for it have gone.         *)

\* Without a client: a delay is pending or its handler queued, or the VM is
\* not active.
NoClientLeft ==
  /\ connected = FALSE /\ state # "running"
  /\ \A c \in Life!Clients : thread[c] \notin Life!Alive
  /\ \/ timer /\ active /\ strand = <<>>
     \/ ~timer /\ strand = <<"timer">>
     \/ ~timer /\ ~active /\ strand \in {<<>>, <<"aborted">>}

\* With a client: its thread runs and may have posted the start, or has ended
\* and has posted that last.
ClientRuns ==
  /\ ~timer /\ client \notin freed
  /\ \A c \in Life!Clients \ {client} : thread[c] \notin Life!Alive
  /\ \/ thread[client] \in Life!Alive /\ strand = <<>>
     \/ thread[client] = "shown" /\ strand = <<"OnStart">>
     \/ /\ thread[client] = "ended" /\ state # "running"
        /\ strand \in {<<"ThreadEnded">>, <<"OnStart", "ThreadEnded">>}

\* Inductive for patient administrators.
LifeInv ==
  /\ Life!TypeOK
  /\ \A c \in Life!Clients :
       /\ thread[c] \in {"known", "shown"} <=> c \in keyed
       /\ c > created => thread[c] = "none" /\ c \notin freed
  /\ client = 0 => NoClientLeft
  /\ client # 0 => ClientRuns

\* What is assumed of the constants.
LEMMA LifeConstants == MaxClients \in Nat
BY PartsAssumption DEF Life!LifecycleAssumption

\* A queue of one task or of two.
LEMMA ShortQueues ==
  ASSUME NEW x, NEW y
  PROVE  /\ Head(<<x>>) = x /\ Tail(<<x>>) = <<>> /\ Append(<<>>, x) = <<x>>
         /\ Head(<<x, y>>) = x /\ Tail(<<x, y>>) = <<y>>
         /\ Append(<<x>>, y) = <<x, y>> /\ <<x>> # <<>> /\ <<x, y>> # <<>>
<1>1. Head(<<x>>) = x /\ Head(<<x, y>>) = x
  OBVIOUS
<1>2. Append(<<>>, x) = <<x>>
  OBVIOUS
<1>3. Append(<<x>>, y) = <<x, y>>
  <2> DEFINE a == Append(<<x>>, y)
  <2>1. <<x>> \in Seq({x, y}) /\ y \in {x, y} /\ Len(<<x>>) = 1 /\ <<x>>[1] = x
    OBVIOUS
  <2>2. /\ a \in Seq({x, y}) /\ Len(a) = 2 /\ a[2] = y /\ a[1] = x
    BY <2>1, AppendProperties
  <2>3. /\ <<x, y>> \in Seq({x, y}) /\ Len(<<x, y>>) = 2
        /\ <<x, y>>[1] = x /\ <<x, y>>[2] = y
    OBVIOUS
  <2> HIDE DEF a
  <2>4. \A i \in 1 .. 2 : a[i] = <<x, y>>[i]
    BY <2>2, <2>3
  <2> QED BY <2>2, <2>3, <2>4, SeqEqual DEF a
<1>4. Tail(<<x>>) = <<>>
  OBVIOUS
<1>5. Tail(<<x, y>>) = <<y>>
  OBVIOUS
<1>6. <<x>> # <<>> /\ <<x, y>> # <<>>
  OBVIOUS
<1> QED BY <1>1, <1>2, <1>3, <1>4, <1>5, <1>6

\* The queues that there are.
LEMMA QueuesDiffer ==
  /\ <<"timer">> # <<>> /\ <<"aborted">> # <<>> /\ <<"OnStart">> # <<>>
  /\ <<"ThreadEnded">> # <<>> /\ <<"OnStart", "ThreadEnded">> # <<>>
  /\ <<>> \in Seq(Life!Tasks) /\ <<"timer">> \in Seq(Life!Tasks)
  /\ <<"aborted">> \in Seq(Life!Tasks) /\ <<"OnStart">> \in Seq(Life!Tasks)
  /\ <<"ThreadEnded">> \in Seq(Life!Tasks)
  /\ <<"OnStart", "ThreadEnded">> \in Seq(Life!Tasks)
BY DEF Life!Tasks

\* The sets of the model are constants.
LEMMA LifeRigid ==
  /\ Life!Clients' = Life!Clients /\ Life!States' = Life!States
  /\ Life!Alive' = Life!Alive /\ Life!Tasks' = Life!Tasks
BY DEF Life!Clients, Life!States, Life!Alive, Life!Tasks

\* Steps that leave the clients and their threads alone: the strand, the delay
\* and what is known of the VM must fit the client.
LEMMA ClientKept ==
  ASSUME LifeInv, UNCHANGED <<client, created, freed, thread, key, keyed>>,
         active' \in BOOLEAN, connected' \in BOOLEAN, state' \in Life!States,
         halted' \subseteq Life!Clients, timer' \in BOOLEAN, update' \in BOOLEAN,
         strand' \in Seq(Life!Tasks), joining' \in 0 .. MaxClients,
         shown' \in {"stopped", "starting", "running"},
         client = 0 =>
           /\ connected' = FALSE /\ state' # "running"
           /\ \/ timer' /\ active' /\ strand' = <<>>
              \/ ~timer' /\ strand' = <<"timer">>
              \/ ~timer' /\ ~active' /\ strand' \in {<<>>, <<"aborted">>},
         client # 0 =>
           /\ ~timer'
           /\ \/ thread[client] \in Life!Alive /\ strand' = <<>>
              \/ thread[client] = "shown" /\ strand' = <<"OnStart">>
              \/ /\ thread[client] = "ended" /\ state' # "running"
                 /\ strand' \in {<<"ThreadEnded">>, <<"OnStart", "ThreadEnded">>}
  PROVE  LifeInv'
<1>1. Life!TypeOK'
  BY LifeRigid DEF LifeInv, Life!TypeOK
<1>2. client = 0 => NoClientLeft'
  BY LifeRigid DEF LifeInv, NoClientLeft
<1>3. client # 0 => ClientRuns'
  BY LifeRigid DEF LifeInv, ClientRuns
<1> QED BY <1>1, <1>2, <1>3, LifeRigid DEF LifeInv

\* CreateClient() where there is no client.
LEMMA ClientStarts ==
  ASSUME LifeInv, client = 0, Life!StartGuacamoleClient, timer' = FALSE,
         strand' = <<>>, active' \in BOOLEAN, update' \in BOOLEAN,
         UNCHANGED <<connected, shown, joining>>
  PROVE  LifeInv'
<1> DEFINE new == created + 1
<1>1. /\ created \in Nat /\ created < MaxClients /\ new \in Life!Clients /\ new # 0
      /\ new \in 0 .. MaxClients
  BY LifeConstants DEF LifeInv, Life!TypeOK, Life!StartGuacamoleClient, Life!Clients
<1>2. /\ created' = new /\ client' = new /\ state' = "starting"
      /\ freed' = freed /\ thread' = [thread EXCEPT ![new] = "new"]
      /\ UNCHANGED <<halted, key, keyed>>
  BY DEF Life!StartGuacamoleClient, Life!ResetClient
<1>3. \A c \in Life!Clients : thread[c] \notin Life!Alive
  BY DEF LifeInv, NoClientLeft
<1>4. thread[new] = "none" /\ new \notin freed /\ new \notin keyed
  <2>1. new > created
    BY <1>1
  <2>2. thread[new] = "none" /\ new \notin freed
    BY <1>1, <2>1 DEF LifeInv
  <2> QED BY <1>1, <2>2 DEF LifeInv
<1>5. new \in 0 .. new
  BY <1>1
<1> HIDE DEF new
<1>6. /\ thread' \in [Life!Clients -> Life!Alive \cup {"none", "ended"}]
      /\ thread'[new] = "new"
      /\ \A c \in Life!Clients \ {new} : thread'[c] = thread[c]
  BY <1>1, <1>2 DEF LifeInv, Life!TypeOK, Life!Alive
<1>7. Life!TypeOK'
  <2>1. <<>> \in Seq(Life!Tasks)
    BY QueuesDiffer
  <2> QED BY <1>1, <1>2, <1>5, <1>6, <2>1, LifeRigid
          DEF LifeInv, Life!TypeOK, Life!States
<1>8. ASSUME NEW c \in Life!Clients
      PROVE  /\ thread'[c] \in {"known", "shown"} <=> c \in keyed
             /\ c > created' => thread'[c] = "none" /\ c \notin freed
  <2>1. CASE c = new
    BY <1>1, <1>2, <1>4, <1>6, <2>1 DEF Life!Clients
  <2>2. CASE c # new
    <3>1. c > created' => c > created
      BY <1>1, <1>2 DEF new, Life!Clients
    <3> QED BY <1>6, <2>2, <3>1 DEF LifeInv
  <2> QED BY <2>1, <2>2
<1>9. ClientRuns'
  BY <1>2, <1>3, <1>4, <1>6, LifeRigid DEF ClientRuns, Life!Alive
<1> QED BY <1>1, <1>2, <1>7, <1>8, <1>9, LifeRigid DEF LifeInv

\* The client's thread writes something or ends.
LEMMA ThreadStep ==
  ASSUME LifeInv, NEW c \in Life!Clients, thread[c] \in Life!Alive,
         NEW t \in {"known", "shown", "ended"},
         thread' = [thread EXCEPT ![c] = t],
         UNCHANGED <<active, connected, client, created, freed, timer, update,
                     shown, joining>>,
         state' \in Life!States, t = "ended" => state' # "running",
         halted' \subseteq Life!Clients, key' \in 0 .. MaxClients,
         keyed' = IF t = "ended" THEN keyed \ {c, key} ELSE keyed \cup {c},
         \/ strand' = strand /\ (t = "known" => thread[c] = "new")
              /\ t \in {"known", "shown"}
         \/ t = "shown" /\ thread[c] = "known" /\ strand' = Append(strand, "OnStart")
         \/ t = "ended" /\ strand' = Append(strand, "ThreadEnded")
  PROVE  LifeInv'
<1>1. client # 0 /\ c = client /\ ClientRuns
  BY DEF LifeInv, NoClientLeft, ClientRuns
<1>2. /\ thread' \in [Life!Clients -> Life!Alive \cup {"none", "ended"}]
      /\ thread'[c] = t /\ \A d \in Life!Clients \ {c} : thread'[d] = thread[d]
  BY DEF LifeInv, Life!TypeOK, Life!Alive
<1>3. ASSUME NEW d \in Life!Clients
      PROVE  /\ thread'[d] \in {"known", "shown"} <=> d \in keyed'
             /\ d > created => thread'[d] = "none" /\ d \notin freed
  <2>1. CASE d = c
    BY <1>2, <2>1 DEF LifeInv, Life!Alive
  <2>2. CASE d # c
    <3>1. thread[d] \notin Life!Alive /\ thread'[d] = thread[d]
      BY <1>1, <1>2, <2>2 DEF ClientRuns
    <3> QED BY <2>2, <3>1 DEF LifeInv, Life!Alive
  <2> QED BY <2>1, <2>2
<1>4. \/ strand = <<>> \/ (thread[c] = "shown" /\ strand = <<"OnStart">>)
  BY <1>1 DEF ClientRuns, Life!Alive
<1>5. \/ t \in Life!Alive /\ strand' = <<>>
      \/ t = "shown" /\ strand' = <<"OnStart">>
      \/ t = "ended" /\ strand' \in {<<"ThreadEnded">>, <<"OnStart", "ThreadEnded">>}
  <2>1. CASE strand = <<>>
    BY <2>1, ShortQueues DEF Life!Alive
  <2>2. CASE strand = <<"OnStart">> /\ thread[c] = "shown"
    <3>1. Append(strand, "ThreadEnded") = <<"OnStart", "ThreadEnded">>
      BY <2>2, ShortQueues
    <3> QED BY <2>2, <3>1
  <2> QED BY <1>4, <2>1, <2>2
<1>6. ClientRuns'
  BY <1>1, <1>2, <1>5, LifeRigid DEF ClientRuns
<1>7. strand' \in Seq(Life!Tasks)
  BY <1>5, QueuesDiffer
<1>8. keyed' \subseteq Life!Clients
  BY DEF LifeInv, Life!TypeOK
<1>9. Life!TypeOK'
  BY <1>2, <1>7, <1>8, LifeRigid DEF LifeInv, Life!TypeOK
<1> QED BY <1>1, <1>3, <1>6, <1>9, LifeRigid DEF LifeInv

\* Every step of the VM and its client keeps the invariant.
LEMMA LifeStep ==
  ASSUME LifeInv, Patience = "all", [Life!Next]_life_vars
  PROVE  LifeInv'
<1>1. /\ active \in BOOLEAN /\ connected \in BOOLEAN /\ state \in Life!States
      /\ halted \subseteq Life!Clients /\ timer \in BOOLEAN /\ update \in BOOLEAN
      /\ strand \in Seq(Life!Tasks) /\ joining \in 0 .. MaxClients
      /\ shown \in {"stopped", "starting", "running"}
      /\ client \in 0 .. created /\ created \in 0 .. MaxClients
      /\ key \in 0 .. MaxClients /\ "stopping" \in Life!States
      /\ "running" \in Life!States /\ "stopped" \in Life!States
  BY DEF LifeInv, Life!TypeOK, Life!States
<1>2. client = 0 => NoClientLeft
  BY DEF LifeInv
<1>3. client # 0 => ClientRuns /\ client \in Life!Clients
  BY <1>1, LifeConstants DEF LifeInv, Life!Clients
<1>4. CASE UNCHANGED life_vars
  BY <1>1, <1>2, <1>3, <1>4, ClientKept DEF life_vars, NoClientLeft, ClientRuns
<1>5. CASE Life!Start
  <2>1. client = 0 /\ strand = <<>> /\ ~active
    BY <1>5 DEF Life!Start, Life!MayStart
  <2>2. timer = FALSE
    BY <1>2, <2>1, QueuesDiffer DEF NoClientLeft
  <2> QED BY <1>5, <2>1, <2>2, ClientStarts DEF Life!Start
<1>6. CASE Life!Stop
  <2>1. /\ active /\ active' = FALSE /\ timer' = FALSE /\ state' = "stopping"
        /\ strand' = IF timer THEN Append(strand, "aborted") ELSE strand
        /\ halted' \subseteq halted \cup {client}
        /\ state # "running" => halted' = halted
        /\ UNCHANGED <<client, created, freed, thread, key, keyed, connected,
                       update, shown, joining>>
    BY <1>6 DEF Life!Stop, Life!CancelDelay, Life!StopClient
  <2>2. CASE client = 0
    <3>1. halted' \subseteq Life!Clients
      BY <1>1, <1>2, <2>1, <2>2 DEF NoClientLeft
    <3>2. /\ strand' \in Seq(Life!Tasks)
          /\ strand' = <<"timer">> \/ strand' \in {<<>>, <<"aborted">>}
      BY <1>1, <1>2, <2>1, <2>2, ShortQueues, QueuesDiffer DEF NoClientLeft
    <3> QED BY <1>1, <1>2, <2>1, <2>2, <3>1, <3>2, ClientKept DEF NoClientLeft
  <2>3. CASE client # 0
    <3>1. halted' \subseteq Life!Clients
      BY <1>1, <1>3, <2>1, <2>3
    <3>2. strand' = strand
      BY <1>3, <2>1, <2>3 DEF ClientRuns
    <3> QED BY <1>1, <1>3, <2>1, <2>3, <3>1, <3>2, ClientKept DEF ClientRuns
  <2> QED BY <2>2, <2>3
<1>7. CASE Life!OnStart
  <2>1. /\ strand # <<>> /\ Head(strand) = "OnStart" /\ strand' = Tail(strand)
        /\ UNCHANGED <<active, timer, shown, joining, client, created, freed,
                       thread, key, keyed>>
        /\ \/ /\ active /\ connected' = TRUE /\ update' = TRUE
              /\ UNCHANGED <<state, halted>>
           \/ /\ UNCHANGED <<connected, update>> /\ state' = "stopping"
              /\ halted' \subseteq halted \cup {client}
    BY <1>7 DEF Life!OnStart, Life!Runs, Life!StopClient, Life!guac
  <2>2. strand \notin {<<"timer">>, <<"aborted">>, <<"ThreadEnded">>}
    BY <2>1, ShortQueues
  <2>3. client # 0
    BY <1>2, <2>1, <2>2 DEF NoClientLeft
  <2>4. \/ thread[client] \in Life!Alive /\ strand' = <<>>
        \/ thread[client] = "ended" /\ state # "running" /\ strand' = <<"ThreadEnded">>
    <3>1. CASE strand = <<"OnStart">> /\ thread[client] = "shown"
      <4>1. Tail(<<"OnStart">>) = <<>>
        BY ShortQueues
      <4> QED BY <2>1, <3>1, <4>1 DEF Life!Alive
    <3>2. CASE /\ strand = <<"OnStart", "ThreadEnded">>
               /\ thread[client] = "ended" /\ state # "running"
      <4>1. Tail(<<"OnStart", "ThreadEnded">>) = <<"ThreadEnded">>
        BY ShortQueues
      <4> QED BY <2>1, <3>2, <4>1
    <3> QED BY <1>3, <2>1, <2>2, <2>3, <3>1, <3>2 DEF ClientRuns
  <2>5. strand' \in Seq(Life!Tasks) /\ halted' \subseteq Life!Clients
    BY <1>1, <1>3, <2>1, <2>3, <2>4, QueuesDiffer
  <2>6. ~timer
    BY <1>3, <2>3 DEF ClientRuns
  <2> QED BY <1>1, <2>1, <2>3, <2>4, <2>5, <2>6, ClientKept
<1>8. CASE Life!ThreadEnded
  <2>1. /\ strand # <<>> /\ Head(strand) = "ThreadEnded"
        /\ client' = 0 /\ freed' = freed \cup ({client} \ {0})
        /\ connected' = FALSE /\ update' \in BOOLEAN
        /\ timer' = (active \/ timer)
        /\ strand' = Tail(strand) \o
                       (IF timer /\ active THEN <<"aborted">> ELSE <<>>)
        /\ UNCHANGED <<active, state, created, thread, halted, key, keyed, shown,
                       joining>>
    BY <1>8 DEF Life!ThreadEnded, Life!Runs, Life!ResetClient, Life!OnStop
  <2>2. strand \notin {<<"timer">>, <<"aborted">>, <<"OnStart">>,
                       <<"OnStart", "ThreadEnded">>}
    BY <2>1, ShortQueues
  <2>3. client # 0
    BY <1>2, <2>1, <2>2 DEF NoClientLeft
  <2>4. /\ strand = <<"ThreadEnded">> /\ thread[client] = "ended"
        /\ state # "running" /\ ~timer
    BY <1>3, <2>1, <2>2, <2>3 DEF ClientRuns
  <2>5. strand' = <<>> /\ timer' = active
    <3>1. strand' = <<>> \o <<>>
      BY <2>1, <2>4, ShortQueues
    <3> QED BY <1>1, <2>1, <2>4, <3>1
  <2>6. \A c \in Life!Clients : thread[c] \notin Life!Alive
    BY <1>3, <2>3, <2>4 DEF ClientRuns, Life!Alive
  <2>7. NoClientLeft'
    BY <1>1, <2>1, <2>4, <2>5, <2>6, LifeRigid DEF NoClientLeft
  <2>8. freed' \subseteq Life!Clients /\ 0 \in 0 .. created
    BY <1>1, <1>3, <2>1, <2>3 DEF LifeInv, Life!TypeOK
  <2>9. Life!TypeOK'
    BY <1>1, <2>1, <2>5, <2>8, LifeRigid, QueuesDiffer DEF LifeInv, Life!TypeOK
  <2>10. ASSUME NEW c \in Life!Clients, c > created PROVE c \notin freed'
    <3>1. c # client
      BY <1>1, <2>10 DEF Life!Clients
    <3> QED BY <2>1, <2>10, <3>1 DEF LifeInv
  <2> QED BY <2>1, <2>7, <2>9, <2>10, LifeRigid DEF LifeInv
<1>9. CASE Life!Reconnect
  <2>1. strand # <<>> /\ Head(strand) = "timer"
    BY <1>9 DEF Life!Reconnect, Life!Runs
  <2>2. strand \notin {<<"aborted">>, <<"OnStart">>, <<"ThreadEnded">>,
                       <<"OnStart", "ThreadEnded">>}
    BY <2>1, ShortQueues
  <2>3. client = 0
    BY <1>3, <2>1, <2>2 DEF ClientRuns
  <2>4. strand = <<"timer">> /\ timer = FALSE
    BY <1>1, <1>2, <2>1, <2>2, <2>3 DEF NoClientLeft
  <2>5. strand' = <<>>
    BY <1>9, <2>4, ShortQueues DEF Life!Reconnect
  <2> QED BY <1>1, <1>9, <2>3, <2>4, <2>5, ClientStarts DEF Life!Reconnect
<1>10. CASE Life!GiveUpReconnect
  <2>1. /\ strand # <<>>
        /\ Head(strand) = "aborted" \/ (Head(strand) = "timer" /\ ~active)
        /\ strand' = Tail(strand) /\ update' = TRUE
        /\ UNCHANGED <<active, connected, state, client, created, freed, thread,
                       halted, key, keyed, timer, shown, joining>>
    BY <1>10 DEF Life!GiveUpReconnect, Life!Runs, Life!guac
  <2>2. strand \notin {<<"OnStart">>, <<"ThreadEnded">>,
                       <<"OnStart", "ThreadEnded">>}
    BY <2>1, ShortQueues
  <2>3. client = 0
    BY <1>3, <2>1, <2>2 DEF ClientRuns
  <2>4. strand \in {<<"timer">>, <<"aborted">>} /\ ~timer
    BY <1>2, <2>1, <2>3 DEF NoClientLeft
  <2>5. ~active
    BY <1>2, <2>1, <2>3, <2>4, ShortQueues DEF NoClientLeft
  <2>6. strand' = <<>> /\ <<>> \in Seq(Life!Tasks)
    BY <2>1, <2>4, ShortQueues, QueuesDiffer
  <2>7. connected = FALSE /\ state # "running"
    BY <1>2, <2>3 DEF NoClientLeft
  <2> QED BY <1>1, <2>1, <2>3, <2>4, <2>5, <2>6, <2>7, ClientKept
<1>11. CASE Life!TimerExpires
  <2>1. /\ timer /\ timer' = FALSE /\ strand' = Append(strand, "timer")
        /\ UNCHANGED <<active, connected, state, client, created, freed, thread,
                       halted, key, keyed, update, shown, joining>>
    BY <1>11 DEF Life!TimerExpires, Life!guac
  <2>2. client = 0
    BY <1>3, <2>1 DEF ClientRuns
  <2>3. strand' = <<"timer">> /\ strand' \in Seq(Life!Tasks)
    BY <1>2, <2>1, <2>2, ShortQueues, QueuesDiffer DEF NoClientLeft
  <2>4. connected = FALSE /\ state # "running"
    BY <1>2, <2>2 DEF NoClientLeft
  <2> QED BY <1>1, <2>1, <2>2, <2>3, <2>4, ClientKept
<1>12. CASE Life!SetVmInfo \/ Life!AddUser \/ Life!AddUserDone
  <2>1. UNCHANGED <<active, connected, state, client, created, freed, thread,
                    halted, key, keyed, strand, timer>>
    BY <1>12 DEF Life!SetVmInfo, Life!AddUser, Life!AddUserDone, Life!guac
  <2>2. /\ update' \in BOOLEAN /\ shown' \in {"stopped", "starting", "running"}
        /\ joining' \in 0 .. MaxClients
    <3>1. CASE Life!SetVmInfo
      BY <1>1, <3>1 DEF Life!SetVmInfo, Life!Status
    <3>2. CASE Life!AddUser
      <4>1. client \in 0 .. MaxClients
        BY <1>1, LifeConstants
      <4> QED BY <1>1, <3>2, <4>1 DEF Life!AddUser
    <3>3. CASE Life!AddUserDone
      <4>1. 0 \in 0 .. MaxClients
        BY LifeConstants
      <4> QED BY <1>1, <3>3, <4>1 DEF Life!AddUserDone
    <3> QED BY <1>12, <3>1, <3>2, <3>3
  <2> QED BY <1>1, <1>2, <1>3, <2>1, <2>2, ClientKept DEF NoClientLeft, ClientRuns
<1>13. ASSUME NEW c \in Life!Clients, Life!FirstInstruction(c) PROVE LifeInv'
  <2>1. /\ thread[c] = "new" /\ thread[c] \in Life!Alive /\ c \in 0 .. MaxClients
    BY <1>13 DEF Life!FirstInstruction, Life!Alive, Life!Clients
  <2> QED BY <1>1, <1>13, <2>1, ThreadStep DEF Life!FirstInstruction
<1>14. ASSUME NEW c \in Life!Clients, Life!ErrorInstruction(c) PROVE LifeInv'
  <2>1. /\ state' = "stopping" /\ halted' \subseteq Life!Clients
        /\ UNCHANGED <<active, connected, client, created, freed, thread, key,
                       keyed, strand, timer, update, shown, joining>>
    BY <1>1, <1>14 DEF Life!ErrorInstruction
  <2> QED BY <1>1, <1>2, <1>3, <2>1, ClientKept DEF NoClientLeft, ClientRuns
<1>15. ASSUME NEW c \in Life!Clients, Life!FirstImage(c) PROVE LifeInv'
  <2>1. /\ thread[c] = "known" /\ thread[c] \in Life!Alive
        /\ thread' = [thread EXCEPT ![c] = "shown"]
        /\ UNCHANGED <<active, connected, client, created, freed, key, keyed,
                       timer, update, shown, joining>>
        /\ strand' = strand \/ strand' = Append(strand, "OnStart")
    BY <1>15 DEF Life!FirstImage, Life!Alive
  <2>2. state' \in Life!States /\ halted' \subseteq Life!Clients
    BY <1>1, <1>3, <1>15 DEF Life!FirstImage
  <2>3. keyed' = keyed \cup {c}
    BY <2>1 DEF LifeInv
  <2> QED BY <1>1, <2>1, <2>2, <2>3, ThreadStep
<1>16. ASSUME NEW c \in Life!Clients, Life!ThreadEnds(c) PROVE LifeInv'
  <2>1. c \in keyed /\ thread[c] \in Life!Alive
    BY <1>16 DEF LifeInv, Life!ThreadEnds, Life!Alive
  <2> QED BY <1>1, <1>16, <2>1, ThreadStep DEF Life!ThreadEnds
<1> QED BY <1>4, <1>5, <1>6, <1>7, <1>8, <1>9, <1>10, <1>11, <1>12, <1>13,
           <1>14, <1>15, <1>16
        DEF Life!Next

\* Nothing has been started at first.
LEMMA LifeInit ==
  ASSUME Life!Init
  PROVE  LifeInv
<1>1. Life!TypeOK
  <2>1. 0 \in 0 .. MaxClients /\ 0 \in 0 .. 0
    BY LifeConstants
  <2>2. thread \in [Life!Clients -> Life!Alive \cup {"none", "ended"}]
    BY DEF Life!Init
  <2>3. strand \in Seq(Life!Tasks)
    BY QueuesDiffer DEF Life!Init
  <2> QED BY <2>1, <2>2, <2>3 DEF Life!Init, Life!TypeOK, Life!States
<1>2. NoClientLeft
  BY DEF Life!Init, NoClientLeft, Life!Alive
<1> QED BY <1>1, <1>2 DEF Life!Init, LifeInv

\* A step of the whole is one of the VM's life, or leaves it alone.
LEMMA LifeSteps == [Next]_vars => [Life!Next]_life_vars
BY DEF Next, vars, life_vars

\* With administrators that wait for the client and the strand, at most one
\* thread runs and its client is not freed, a connected VM has a client, and
\* an active one always has something that will connect it again: for any
\* number of clients.
THEOREM LifecycleIsSound == Patience = "all" => (Spec => []LifecycleSound)
<1> SUFFICES ASSUME Patience = "all" PROVE Spec => []LifecycleSound
  OBVIOUS
<1>1. Init => LifeInv
  BY LifeInit DEF Init
<1>2. LifeInv /\ [Next]_vars => LifeInv'
  BY LifeStep, LifeSteps
<1>3. LifeInv => LifecycleSound
  <2> SUFFICES ASSUME LifeInv PROVE LifecycleSound
    OBVIOUS
  <2>1. Life!OneClient
    BY DEF LifeInv, NoClientLeft, ClientRuns, Life!OneClient
  <2>2. Life!ConnectedHasClient
    BY DEF LifeInv, NoClientLeft, Life!ConnectedHasClient
  <2>3. ASSUME active PROVE Life!Restarter
    <3>1. CASE client = 0
      <4>1. timer \/ strand = <<"timer">>
        BY <2>3, <3>1 DEF LifeInv, NoClientLeft
      <4>2. Len(<<"timer">>) = 1 /\ <<"timer">>[1] = "timer" /\ 1 \in 1 .. 1
        OBVIOUS
      <4> QED BY <4>1, <4>2 DEF Life!Restarter
    <3>2. CASE client # 0
      <4>1. client \in Life!Clients
        BY <3>2, LifeConstants DEF LifeInv, Life!TypeOK, Life!Clients
      <4>2. \/ thread[client] \in Life!Alive
            \/ strand \in {<<"ThreadEnded">>, <<"OnStart", "ThreadEnded">>}
        BY <3>2 DEF LifeInv, ClientRuns, Life!Alive
      <4>3. CASE strand = <<"ThreadEnded">>
        <5>1. Len(strand) = 1 /\ strand[1] = "ThreadEnded" /\ 1 \in 1 .. 1
          BY <4>3
        <5> QED BY <5>1 DEF Life!Restarter
      <4>4. CASE strand = <<"OnStart", "ThreadEnded">>
        <5>1. Len(strand) = 2 /\ strand[2] = "ThreadEnded" /\ 2 \in 1 .. 2
          BY <4>4
        <5> QED BY <5>1 DEF Life!Restarter
      <4> QED BY <4>1, <4>2, <4>3, <4>4 DEF Life!Restarter
    <3> QED BY <3>1, <3>2
  <2> QED BY <2>1, <2>2, <2>3 DEF LifeInv, LifecycleSound, Life!NeverStranded
<1> QED BY <1>1, <1>2, <1>3, PTL DEF Spec


-----------------------------------------------------------------------------
(* The recording's files: Recording. *)

\* The controller's state: room for the keyframes, the files' times in the
\* database, and a file whose stop wait is over has no time left.
RecorderOk(r) ==
  /\ r \in Rec!Recorder
  /\ r.next <= r.cap
  /\ r.file <= r.opened
  /\ \A f \in Rec!Files :
       r.rows[f] = IF f > r.opened THEN "none"
                   ELSE IF f = r.file THEN "started" ELSE "stopped"
  /\ Rec!IsRecording(r) => r.armed \/ r.left = 0

\* A handler that will stop or replace the file.
HandlerWaits(r) ==
  \E i \in 1 .. Len(r.ready) : r.ready[i] \in {"stop", "aborted"}

\* Inductive.
RecInv ==
  /\ Rec!TypeOK
  /\ RecorderOk(rec)
  /\ Rec!FileIsTimed
  /\ Rec!ActiveIsRecorded
  /\ rec.file # 0 /\ rec.bad => excused

\* What is assumed of the constants.
LEMMA RecConstants ==
  /\ Durations \subseteq Nat /\ Intervals \subseteq Nat
  /\ MaxFiles \in Nat /\ MaxReady \in Nat /\ Opens \subseteq BOOLEAN
BY PartsAssumption DEF Rec!RecordingAssumption

\* The sets of the model are constants.
LEMMA RecRigid == Rec!Files' = Rec!Files /\ Rec!Recorder' = Rec!Recorder
BY DEF Rec!Files, Rec!Recorder

\* Stop() leaves no recording, and a file only if its stream has failed.
LEMMA StopOk ==
  ASSUME NEW r, RecorderOk(r)
  PROVE  /\ RecorderOk(Rec!Stop(r)) /\ ~Rec!IsRecording(Rec!Stop(r))
         /\ Rec!Stop(r).opened = r.opened
         /\ Rec!Stop(r).file # 0 => Rec!Stop(r) = r /\ r.bad /\ r.file # 0
<1>1. CASE ~Rec!IsRecording(r)
  BY <1>1 DEF Rec!Stop, Rec!IsRecording, RecorderOk, Rec!Recorder
<1>2. CASE Rec!IsRecording(r)
  <2> DEFINE ready == IF r.armed THEN Append(r.ready, "aborted") ELSE r.ready
             rows == [r.rows EXCEPT ![r.file] = "stopped"]
             s == [r EXCEPT !.karmed = FALSE, !.armed = FALSE, !.file = 0,
                            !.ready = ready, !.rows = rows]
  <2>1. Rec!Stop(r) = s
    BY <1>2 DEF Rec!Stop
  <2>2. /\ r.file \in Rec!Files /\ r.ready \in Seq({"stop", "aborted", "keyframe"})
        /\ r.rows \in [Rec!Files -> {"none", "started", "stopped"}]
        /\ r.opened \in 0 .. MaxFiles /\ r.file <= r.opened
    BY <1>2, RecConstants DEF RecorderOk, Rec!Recorder, Rec!Files, Rec!IsRecording
  <2>3. ready \in Seq({"stop", "aborted", "keyframe"})
    BY <2>2
  <2>4. /\ rows \in [Rec!Files -> {"none", "started", "stopped"}]
        /\ \A f \in Rec!Files : rows[f] = IF f = r.file THEN "stopped" ELSE r.rows[f]
    BY <2>2
  <2> HIDE DEF ready, rows
  <2>5. /\ s \in Rec!Recorder /\ s.file = 0 /\ s.opened = r.opened
        /\ s.next = r.next /\ s.cap = r.cap /\ s.rows = rows
    <3>1. 0 \in 0 .. MaxFiles
      BY RecConstants
    <3> QED BY <2>3, <2>4, <3>1 DEF RecorderOk, Rec!Recorder
  <2> HIDE DEF s
  <2>6. ASSUME NEW f \in Rec!Files
        PROVE  s.rows[f] = IF f > s.opened THEN "none"
                           ELSE IF f = s.file THEN "started" ELSE "stopped"
    <3>1. f # 0
      BY DEF Rec!Files
    <3>2. f = r.file => ~(f > r.opened)
      BY <2>2 DEF Rec!Files
    <3> QED BY <2>4, <2>5, <3>1, <3>2 DEF RecorderOk
  <2>7. s.next <= s.cap /\ s.file <= s.opened
    BY <2>2, <2>5 DEF RecorderOk
  <2>8. ~Rec!IsRecording(s)
    BY <2>5 DEF Rec!IsRecording
  <2> QED BY <2>1, <2>5, <2>6, <2>7, <2>8 DEF RecorderOk
<1> QED BY <1>1, <1>2

\* The number of keyframes that fit into a file.
LEMMA Quotient ==
  ASSUME NEW a \in Nat, NEW b \in Nat, b # 0
  PROVE  a \div b \in Nat
OBVIOUS

\* A file is opened, with its stop timer, where there is none.
LEMMA OpenOk ==
  ASSUME NEW r, RecorderOk(r), r.file = 0, r.opened < MaxFiles,
         duration' \in Nat, interval' \in Nat
  PROVE  LET s == Rec!StartKeyframeTimer(Rec!OpenFile(r), interval')
         IN  RecorderOk(s) /\ Rec!IsRecording(s) /\ s.armed /\ ~s.bad
<1> DEFINE new == r.opened + 1
           cap == IF interval' = 0 THEN 0 ELSE duration' \div interval'
           rows == [r.rows EXCEPT ![new] = "started"]
           o == Rec!OpenFile(r)
           s == Rec!StartKeyframeTimer(o, interval')
<1>1. /\ new \in Rec!Files /\ new # 0 /\ new \in 0 .. MaxFiles
      /\ r.opened \in 0 .. MaxFiles
      /\ r.rows \in [Rec!Files -> {"none", "started", "stopped"}]
      /\ new > r.opened
  BY RecConstants DEF RecorderOk, Rec!Recorder, Rec!Files
<1>2. cap \in Nat
  BY Quotient
<1>3. /\ rows \in [Rec!Files -> {"none", "started", "stopped"}]
      /\ \A f \in Rec!Files : rows[f] = IF f = new THEN "started" ELSE r.rows[f]
  BY <1>1
<1>4. o = [r EXCEPT !.file = new, !.opened = new, !.bad = FALSE,
                    !.armed = TRUE, !.left = duration', !.next = 0, !.cap = cap,
                    !.rows = rows]
  BY DEF Rec!OpenFile, RecorderOk, Rec!Recorder
<1> HIDE DEF cap, rows, o
<1>5. /\ o \in Rec!Recorder /\ o.file = new /\ o.opened = new /\ o.bad = FALSE
      /\ o.armed = TRUE /\ o.next = 0 /\ o.cap = cap /\ o.rows = rows
  BY <1>1, <1>2, <1>3, <1>4 DEF RecorderOk, Rec!Recorder
<1>6. s = [o EXCEPT !.karmed = (interval' # 0), !.kleft = interval']
  BY DEF Rec!StartKeyframeTimer
<1>7. /\ s \in Rec!Recorder /\ s.file = new /\ s.opened = new /\ s.bad = FALSE
      /\ s.armed = TRUE /\ s.next = 0 /\ s.cap = cap /\ s.rows = rows
  BY <1>5, <1>6 DEF Rec!Recorder
<1> HIDE DEF s
<1>8. ASSUME NEW f \in Rec!Files
      PROVE  s.rows[f] = IF f > s.opened THEN "none"
                         ELSE IF f = s.file THEN "started" ELSE "stopped"
  <2>1. f # 0 /\ f \in Nat
    BY DEF Rec!Files
  <2>2. CASE f = new
    BY <1>1, <1>3, <1>7, <2>1, <2>2
  <2>3. CASE f # new
    <3>1. f > new <=> f > r.opened
      BY <1>1, <2>1, <2>3
    <3>2. r.rows[f] = IF f > r.opened THEN "none" ELSE "stopped"
      BY <2>1 DEF RecorderOk
    <3> HIDE DEF new
    <3> QED BY <1>3, <1>7, <2>3, <3>1, <3>2
  <2> QED BY <2>2, <2>3
<1>9. s.next <= s.cap /\ s.file <= s.opened
  BY <1>1, <1>2, <1>7
<1>10. Rec!IsRecording(s) /\ s.armed /\ ~s.bad
  BY <1>1, <1>7 DEF Rec!IsRecording
<1>11. RecorderOk(s)
  BY <1>7, <1>8, <1>9, <1>10 DEF RecorderOk
<1> QED BY <1>10, <1>11 DEF s, o

\* Start() leaves a recording with its stop timer, unless the duration is 0,
\* the file cannot be opened or one of a failed stream is open.
LEMMA StartOk ==
  ASSUME NEW r, RecorderOk(r), r.opened < MaxFiles, NEW opens \in BOOLEAN,
         duration' \in Nat, interval' \in Nat
  PROVE  LET s == Rec!Start(r, opens)
         IN  /\ RecorderOk(s)
             /\ duration' = 0 => s = r
             /\ duration' # 0 /\ Rec!IsRecording(s) => s.armed
             /\ duration' # 0 /\ ~Rec!IsRecording(s) =>
                  ~opens \/ (r.file # 0 /\ r.bad)
             /\ s.file # 0 /\ s.bad => r.file # 0 /\ r.bad
             /\ duration' # 0 /\ ~Rec!IsRecording(s) => s.opened = r.opened
<1> DEFINE s == Rec!Stop(r)
           t == Rec!StartKeyframeTimer(Rec!OpenFile(s), interval')
<1>1. /\ RecorderOk(s) /\ ~Rec!IsRecording(s) /\ s.opened = r.opened
      /\ s.file # 0 => s = r /\ r.bad /\ r.file # 0
  BY StopOk
<1>2. Rec!Start(r, opens) =
        IF duration' = 0 THEN r ELSE IF ~opens \/ s.file # 0 THEN s ELSE t
  BY DEF Rec!Start
<1> HIDE DEF s
<1>3. s.file = 0 => RecorderOk(t) /\ Rec!IsRecording(t) /\ t.armed /\ ~t.bad
  BY <1>1, OpenOk
<1> HIDE DEF t
<1> QED BY <1>1, <1>2, <1>3

\* What is to be shown of a step.
LEMMA RecTogether ==
  ASSUME RecInv, RecorderOk(rec'), duration' \in Durations,
         interval' \in Intervals, vm_active' \in BOOLEAN, enabled' \in BOOLEAN,
         excused' \in BOOLEAN,
         Rec!IsRecording(rec') /\ duration' # 0 => rec'.armed \/ HandlerWaits(rec'),
         vm_active' /\ enabled' /\ duration' # 0 =>
           Rec!IsRecording(rec') \/ excused',
         rec'.file # 0 /\ rec'.bad => excused'
  PROVE  RecInv'
<1>1. RecorderOk(rec)' /\ rec' \in Rec!Recorder
  BY RecRigid DEF RecorderOk, Rec!IsRecording
<1>2. Rec!TypeOK'
  BY <1>1, RecRigid DEF Rec!TypeOK
<1>3. Rec!FileIsTimed'
  BY DEF Rec!FileIsTimed, HandlerWaits, Rec!IsRecording
<1>4. Rec!ActiveIsRecorded'
  BY DEF Rec!ActiveIsRecorded, Rec!IsRecording
<1> QED BY <1>1, <1>2, <1>3, <1>4 DEF RecInv

\* A step that starts a recording.
LEMMA AfterStart ==
  ASSUME RecInv, NEW r, RecorderOk(r), r.opened < MaxFiles,
         r.file # 0 /\ r.bad => excused, NEW opens \in BOOLEAN,
         duration' \in Durations, interval' \in Intervals,
         vm_active' \in BOOLEAN, enabled' \in BOOLEAN,
         rec' = Rec!Start(r, opens), Rec!Excused(opens)
  PROVE  RecInv'
<1>1. duration' \in Nat /\ interval' \in Nat
  BY RecConstants
<1> DEFINE s == Rec!Start(r, opens)
<1>2. /\ RecorderOk(s)
      /\ duration' # 0 /\ Rec!IsRecording(s) => s.armed
      /\ duration' # 0 /\ ~Rec!IsRecording(s) => ~opens \/ (r.file # 0 /\ r.bad)
      /\ s.file # 0 /\ s.bad => r.file # 0 /\ r.bad
  BY <1>1, StartOk
<1> HIDE DEF s
<1>3. excused \in BOOLEAN
  BY DEF RecInv, Rec!TypeOK
<1>4. /\ rec' = s /\ excused' = IF Rec!IsRecording(s) THEN FALSE ELSE excused \/ ~opens
  BY DEF Rec!Excused, s
<1>5. excused' \in BOOLEAN
  BY <1>3, <1>4
<1>6. s.file # 0 /\ s.bad => excused'
  BY <1>2, <1>4 DEF Rec!IsRecording
<1>7. duration' # 0 => Rec!IsRecording(s) \/ excused'
  BY <1>2, <1>4
<1> QED BY <1>2, <1>4, <1>5, <1>6, <1>7, RecTogether

\* A step that stops the recording.
LEMMA AfterStop ==
  ASSUME RecInv, NEW r, RecorderOk(r), rec' = Rec!Stop(r),
         r.file # 0 /\ r.bad => excused',
         duration' \in Durations, interval' \in Intervals,
         vm_active' \in BOOLEAN, enabled' \in BOOLEAN, excused' \in BOOLEAN,
         vm_active' /\ enabled' /\ duration' # 0 => excused'
  PROVE  RecInv'
<1>1. /\ RecorderOk(rec') /\ ~Rec!IsRecording(rec')
      /\ rec'.file # 0 => r.file # 0 /\ r.bad
  BY StopOk
<1> QED BY <1>1, RecTogether

\* The handler at the head is taken off.
LEMMA PoppedOk ==
  ASSUME RecInv, rec.ready # <<>>
  PROVE  /\ RecorderOk(Rec!Popped) /\ Rec!Popped.opened = rec.opened
         /\ Rec!Popped.file = rec.file /\ Rec!Popped.bad = rec.bad
         /\ Rec!Popped.armed = rec.armed /\ Rec!Popped.left = rec.left
         /\ Rec!Popped.ready = Tail(rec.ready)
         /\ Rec!Popped.next = rec.next /\ Rec!Popped.cap = rec.cap
<1>1. rec \in Rec!Recorder /\ RecorderOk(rec)
  BY DEF RecInv, RecorderOk
<1>2. Tail(rec.ready) \in Seq({"stop", "aborted", "keyframe"})
  BY <1>1 DEF Rec!Recorder
<1> DEFINE r == Rec!Popped
<1>3. /\ r \in Rec!Recorder /\ r.opened = rec.opened /\ r.file = rec.file
      /\ r.bad = rec.bad /\ r.armed = rec.armed /\ r.left = rec.left
      /\ r.ready = Tail(rec.ready) /\ r.next = rec.next /\ r.cap = rec.cap
      /\ r.rows = rec.rows
  BY <1>1, <1>2 DEF Rec!Popped, Rec!Recorder
<1> HIDE DEF r
<1>4. RecorderOk(r)
  BY <1>1, <1>3 DEF RecorderOk, Rec!IsRecording
<1> QED BY <1>3, <1>4 DEF r


\* A handler waits still when another one is queued, or the first one, of
\* another kind, is run.
LEMMA HandlerStays ==
  ASSUME NEW ready \in Seq({"stop", "aborted", "keyframe"}),
         NEW i \in 1 .. Len(ready), ready[i] \in {"stop", "aborted"}
  PROVE  /\ ready # <<>> /\ Head(ready) = "keyframe" =>
              \E j \in 1 .. Len(Tail(ready)) : Tail(ready)[j] \in {"stop", "aborted"}
         /\ \A x : \E j \in 1 .. Len(Append(ready, x)) :
              Append(ready, x)[j] \in {"stop", "aborted"}
<1>1. ASSUME ready # <<>>, Head(ready) = "keyframe"
      PROVE  \E j \in 1 .. Len(Tail(ready)) : Tail(ready)[j] \in {"stop", "aborted"}
  <2>1. i # 1
    BY <1>1
  <2>2. i - 1 \in 1 .. Len(Tail(ready)) /\ Tail(ready)[i - 1] = ready[i]
    BY <1>1, <2>1
  <2> QED BY <2>2
<1>2. ASSUME NEW x
      PROVE  \E j \in 1 .. Len(Append(ready, x)) :
               Append(ready, x)[j] \in {"stop", "aborted"}
  <2>1. i \in 1 .. Len(Append(ready, x)) /\ Append(ready, x)[i] = ready[i]
    OBVIOUS
  <2> QED BY <2>1
<1> QED BY <1>1, <1>2

\* Administrators and settings keep the invariant.
LEMMA RecAdminStep ==
  ASSUME RecInv, NEW opens \in Opens,
         \/ Rec!StartVm(opens) \/ Rec!SetEnabled(opens)
         \/ \E d \in Durations, i \in Intervals, capture \in BOOLEAN :
              Rec!SetRecordingSettings(d, i, capture, opens)
  PROVE  RecInv'
<1>1. /\ RecorderOk(rec) /\ rec \in Rec!Recorder /\ opens \in BOOLEAN
      /\ duration \in Durations /\ interval \in Intervals
      /\ vm_active \in BOOLEAN /\ enabled \in BOOLEAN /\ excused \in BOOLEAN
      /\ rec.file # 0 /\ rec.bad => excused
  BY RecConstants DEF RecInv, RecorderOk, Rec!TypeOK
<1>2. Rec!IsRecording(rec) /\ duration # 0 => rec.armed \/ HandlerWaits(rec)
  BY DEF RecInv, Rec!FileIsTimed, HandlerWaits
<1>3. ASSUME rec' = rec, Rec!Excused(opens), duration' \in Durations,
             duration' # 0 /\ Rec!IsRecording(rec) => duration # 0,
             interval' \in Intervals, vm_active' \in BOOLEAN, enabled' \in BOOLEAN,
             ~(vm_active' /\ enabled')
      PROVE  RecInv'
  <2>1. excused' \in BOOLEAN /\ (rec.file # 0 /\ rec.bad => excused')
    BY <1>1, <1>3 DEF Rec!Excused, Rec!IsRecording
  <2> QED BY <1>1, <1>2, <1>3, <2>1, RecTogether
<1>4. CASE Rec!StartVm(opens)
  <2>1. /\ rec.opened < MaxFiles /\ vm_active' = TRUE /\ Rec!Excused(opens)
        /\ UNCHANGED <<duration, interval, enabled>>
        /\ rec' = IF enabled THEN Rec!Start(rec, opens) ELSE rec
    BY <1>4 DEF Rec!StartVm, Rec!MayOpen
  <2>2. CASE enabled
    BY <1>1, <2>1, <2>2, AfterStart
  <2>3. CASE ~enabled
    BY <1>1, <1>3, <2>1, <2>3
  <2> QED BY <2>2, <2>3
<1>5. CASE Rec!SetEnabled(opens)
  <2>1. /\ rec.opened < MaxFiles /\ enabled' = ~enabled /\ Rec!Excused(opens)
        /\ UNCHANGED <<duration, interval, vm_active>>
        /\ ~vm_active => rec' = rec
        /\ vm_active /\ enabled' => rec' = Rec!Start(rec, opens)
        /\ vm_active /\ ~enabled' => rec' = Rec!Stop(rec)
    BY <1>5 DEF Rec!SetEnabled, Rec!MayOpen
  <2>2. CASE ~vm_active
    BY <1>1, <1>3, <2>1, <2>2
  <2>3. CASE vm_active /\ enabled'
    BY <1>1, <2>1, <2>3, AfterStart
  <2>4. CASE vm_active /\ ~enabled'
    <3>1. ~Rec!IsRecording(rec')
      BY <1>1, <2>1, <2>4, StopOk
    <3>2. excused' \in BOOLEAN /\ (excused => excused')
      BY <1>1, <2>1, <3>1 DEF Rec!Excused
    <3> QED BY <1>1, <2>1, <2>4, <3>2, AfterStop
  <2> QED BY <2>2, <2>3, <2>4
<1>6. ASSUME NEW d \in Durations, NEW i \in Intervals, NEW capture \in BOOLEAN,
             Rec!SetRecordingSettings(d, i, capture, opens)
      PROVE  RecInv'
  <2> DEFINE r == IF ~Rec!IsRecording(rec) THEN rec
                  ELSE IF rec.left <= d THEN Rec!Start(rec, opens)
                  ELSE IF i # interval \/ capture THEN Rec!StartKeyframeTimer(rec, i)
                  ELSE rec
  <2>1. /\ rec.opened < MaxFiles /\ duration' = d /\ interval' = i
        /\ UNCHANGED <<vm_active, enabled>> /\ Rec!Excused(opens)
        /\ rec' = IF vm_active /\ enabled /\ ~Rec!IsRecording(r)
                  THEN Rec!Start(r, opens) ELSE r
    BY <1>6 DEF Rec!SetRecordingSettings, Rec!MayOpen, Rec!VmStarts
  <2>2. d \in Nat /\ i \in Nat
    BY RecConstants
  <2>3. CASE ~Rec!IsRecording(rec)
    <3>1. r = rec
      BY <2>3
    <3> HIDE DEF r
    <3>2. CASE vm_active /\ enabled
      BY <1>1, <2>1, <2>3, <3>1, <3>2, AfterStart
    <3>3. CASE ~(vm_active /\ enabled)
      BY <1>1, <1>3, <2>1, <2>3, <3>1, <3>3
    <3> QED BY <3>2, <3>3
  <2>4. CASE Rec!IsRecording(rec) /\ rec.left <= d
    <3>1. r = Rec!Start(rec, opens)
      BY <2>4
    <3> HIDE DEF r
    <3>2. /\ RecorderOk(r)
          /\ duration' = 0 => r = rec
          /\ duration' # 0 /\ ~Rec!IsRecording(r) => r.opened = rec.opened
          /\ r.file # 0 /\ r.bad => rec.file # 0 /\ rec.bad
      BY <1>1, <2>1, <2>2, <3>1, StartOk
    <3>3. CASE vm_active /\ enabled /\ ~Rec!IsRecording(r)
      <4>1. r.opened < MaxFiles
        BY <2>1, <2>4, <3>2, <3>3
      <4> QED BY <1>1, <2>1, <3>2, <3>3, <4>1, AfterStart
    <3>4. CASE ~(vm_active /\ enabled /\ ~Rec!IsRecording(r))
      BY <1>1, <2>1, <3>1, <3>4, AfterStart
    <3> QED BY <3>3, <3>4
  <2>5. CASE Rec!IsRecording(rec) /\ ~(rec.left <= d)
    <3>1. r = rec \/ r = [rec EXCEPT !.karmed = (i # 0), !.kleft = i]
      BY <2>5 DEF Rec!StartKeyframeTimer
    <3> HIDE DEF r
    <3>2. rec.armed
      BY <1>1, <2>2, <2>5 DEF RecorderOk, Rec!Recorder
    <3>3. /\ r \in Rec!Recorder /\ r.next = rec.next /\ r.cap = rec.cap
          /\ r.file = rec.file /\ r.opened = rec.opened /\ r.rows = rec.rows
          /\ r.armed = rec.armed /\ r.left = rec.left /\ r.bad = rec.bad
      BY <1>1, <2>2, <3>1 DEF Rec!Recorder
    <3>4. RecorderOk(r) /\ Rec!IsRecording(r) /\ ~r.bad
      BY <1>1, <2>5, <3>3 DEF RecorderOk, Rec!IsRecording
    <3>5. rec' = r /\ excused' = FALSE
      BY <2>1, <3>4 DEF Rec!Excused
    <3> QED BY <1>1, <2>1, <3>2, <3>3, <3>4, <3>5, RecTogether
  <2> QED BY <2>3, <2>4, <2>5
<1> QED BY <1>4, <1>5, <1>6

\* Every step of the recording keeps the invariant.
LEMMA RecStep ==
  ASSUME RecInv, [Rec!Next]_rec_vars
  PROVE  RecInv'
<1>1. /\ RecorderOk(rec) /\ rec \in Rec!Recorder
      /\ duration \in Durations /\ interval \in Intervals
      /\ vm_active \in BOOLEAN /\ enabled \in BOOLEAN /\ excused \in BOOLEAN
      /\ rec.file # 0 /\ rec.bad => excused
      /\ vm_active /\ enabled /\ duration # 0 => Rec!IsRecording(rec) \/ excused
  BY DEF RecInv, RecorderOk, Rec!TypeOK, Rec!ActiveIsRecorded
<1>2. Rec!IsRecording(rec) /\ duration # 0 => rec.armed \/ HandlerWaits(rec)
  BY DEF RecInv, Rec!FileIsTimed, HandlerWaits
<1>3. /\ rec.ready \in Seq({"stop", "aborted", "keyframe"})
      /\ rec.left \in Nat /\ rec.kleft \in Nat /\ interval \in Nat
      /\ rec.next \in Nat /\ rec.cap \in Nat /\ rec.next <= rec.cap
  BY <1>1, RecConstants DEF Rec!Recorder, RecorderOk
<1>4. CASE UNCHANGED rec_vars
  BY <1>1, <1>2, <1>4, RecTogether DEF rec_vars
<1>5. ASSUME NEW opens \in Opens,
             \/ Rec!StartVm(opens) \/ Rec!SetEnabled(opens)
             \/ \E d \in Durations, i \in Intervals, capture \in BOOLEAN :
                  Rec!SetRecordingSettings(d, i, capture, opens)
      PROVE  RecInv'
  BY <1>5, RecAdminStep
<1>6. CASE Rec!StopVm
  <2>1. vm_active' = FALSE /\ rec' = Rec!Stop(rec)
        /\ UNCHANGED <<duration, interval, enabled, excused>>
    BY <1>6 DEF Rec!StopVm
  <2> QED BY <1>1, <2>1, AfterStop
<1>7. ASSUME NEW r, rec' = r, r \in Rec!Recorder,
             UNCHANGED <<duration, interval, vm_active, enabled, excused>>,
             r.next <= r.cap, r.cap = rec.cap,
             r.file = rec.file, r.opened = rec.opened,
             r.rows = rec.rows, r.bad = rec.bad,
             Rec!IsRecording(rec) => r.armed \/ r.left = 0,
             Rec!IsRecording(rec) /\ duration # 0 => r.armed \/ HandlerWaits(r)
      PROVE  RecInv'
  <2>1. RecorderOk(r) /\ (Rec!IsRecording(r) <=> Rec!IsRecording(rec))
    BY <1>1, <1>7 DEF RecorderOk, Rec!IsRecording
  <2> QED BY <1>1, <1>7, <2>1, RecTogether
<1>8. CASE Rec!Tick
  <2> DEFINE left == IF rec.armed THEN rec.left - 1 ELSE rec.left
             kleft == IF rec.karmed THEN rec.kleft - 1 ELSE rec.kleft
             r == [rec EXCEPT !.left = left, !.kleft = kleft]
  <2>1. /\ rec' = r /\ UNCHANGED <<duration, interval, vm_active, enabled, excused>>
        /\ rec.armed => rec.left > 0
        /\ rec.karmed => rec.kleft > 0
    BY <1>8 DEF Rec!Tick
  <2>2. left \in Nat /\ kleft \in Nat /\ (~rec.armed => left = rec.left)
    BY <1>3, <2>1
  <2> HIDE DEF left, kleft
  <2>3. /\ r \in Rec!Recorder /\ r.next = rec.next /\ r.cap = rec.cap
        /\ r.file = rec.file /\ r.opened = rec.opened /\ r.rows = rec.rows
        /\ r.bad = rec.bad /\ r.armed = rec.armed /\ r.left = left
        /\ r.ready = rec.ready
    BY <1>1, <2>2 DEF Rec!Recorder
  <2> HIDE DEF r
  <2>4. Rec!IsRecording(rec) => r.armed \/ r.left = 0
    BY <1>1, <2>2, <2>3 DEF RecorderOk
  <2>5. Rec!IsRecording(rec) /\ duration # 0 => r.armed \/ HandlerWaits(r)
    BY <1>2, <2>3 DEF HandlerWaits
  <2> QED BY <1>3, <1>7, <2>1, <2>3, <2>4, <2>5
<1>9. CASE Rec!StopTimerExpires
  <2> DEFINE ready == Append(rec.ready, "stop")
             r == [rec EXCEPT !.armed = FALSE, !.ready = ready]
  <2>1. /\ rec' = r /\ UNCHANGED <<duration, interval, vm_active, enabled, excused>>
        /\ rec.left = 0
    BY <1>9 DEF Rec!StopTimerExpires
  <2>2. /\ ready \in Seq({"stop", "aborted", "keyframe"})
        /\ Len(rec.ready) + 1 \in 1 .. Len(ready)
        /\ ready[Len(rec.ready) + 1] = "stop"
    BY <1>3
  <2> HIDE DEF ready
  <2>3. /\ r \in Rec!Recorder /\ r.next = rec.next /\ r.cap = rec.cap
        /\ r.file = rec.file /\ r.opened = rec.opened /\ r.rows = rec.rows
        /\ r.bad = rec.bad /\ r.left = rec.left /\ r.ready = ready
    BY <1>1, <2>2 DEF Rec!Recorder
  <2> HIDE DEF r
  <2>4. HandlerWaits(r)
    BY <2>2, <2>3 DEF HandlerWaits
  <2> QED BY <1>3, <1>7, <2>1, <2>3, <2>4
<1>10. CASE Rec!KeyframeTimerExpires
  <2> DEFINE ready == Append(rec.ready, "keyframe")
             r == [rec EXCEPT !.karmed = FALSE, !.ready = ready]
  <2>1. /\ rec' = r /\ UNCHANGED <<duration, interval, vm_active, enabled, excused>>
    BY <1>10 DEF Rec!KeyframeTimerExpires
  <2>2. /\ ready \in Seq({"stop", "aborted", "keyframe"})
        /\ HandlerWaits(rec) =>
             \E i \in 1 .. Len(ready) : ready[i] \in {"stop", "aborted"}
    BY <1>3, HandlerStays DEF HandlerWaits
  <2> HIDE DEF ready
  <2>3. /\ r \in Rec!Recorder /\ r.next = rec.next /\ r.cap = rec.cap
        /\ r.file = rec.file /\ r.opened = rec.opened /\ r.rows = rec.rows
        /\ r.bad = rec.bad /\ r.left = rec.left /\ r.ready = ready
        /\ r.armed = rec.armed
    BY <1>1, <2>2 DEF Rec!Recorder
  <2> HIDE DEF r
  <2>4. Rec!IsRecording(rec) => r.armed \/ r.left = 0
    BY <1>1, <2>3 DEF RecorderOk
  <2>5. Rec!IsRecording(rec) /\ duration # 0 => r.armed \/ HandlerWaits(r)
    BY <1>2, <2>2, <2>3 DEF HandlerWaits
  <2> QED BY <1>3, <1>7, <2>1, <2>3, <2>4, <2>5
<1>11. CASE Rec!WriteFails
  <2> DEFINE r == [rec EXCEPT !.bad = TRUE]
  <2>1. /\ rec' = r /\ excused' = TRUE
        /\ UNCHANGED <<duration, interval, vm_active, enabled>>
    BY <1>11 DEF Rec!WriteFails
  <2>2. /\ r \in Rec!Recorder /\ r.next = rec.next /\ r.cap = rec.cap
        /\ r.file = rec.file /\ r.opened = rec.opened /\ r.rows = rec.rows
        /\ r.bad = TRUE
    BY <1>1 DEF Rec!Recorder
  <2> HIDE DEF r
  <2>3. RecorderOk(r) /\ ~Rec!IsRecording(r)
    BY <1>1, <2>2 DEF RecorderOk, Rec!IsRecording
  <2> QED BY <1>1, <2>1, <2>3, RecTogether
<1>12. ASSUME NEW opens \in Opens, Rec!RunStop(opens) PROVE RecInv'
  <2>1. /\ rec.ready # <<>> /\ rec.opened < MaxFiles /\ Rec!Excused(opens)
        /\ rec' = Rec!Start(Rec!Popped, opens)
        /\ UNCHANGED <<duration, interval, vm_active, enabled>>
    BY <1>12 DEF Rec!RunStop, Rec!Runs, Rec!MayOpen
  <2>2. opens \in BOOLEAN
    BY RecConstants
  <2> QED BY <1>1, <2>1, <2>2, PoppedOk, AfterStart
<1>13. CASE Rec!RunAborted
  <2>1. /\ rec.ready # <<>> /\ rec' = Rec!Stop(Rec!Popped)
        /\ excused' = (excused \/ Rec!IsRecording(rec))
        /\ UNCHANGED <<duration, interval, vm_active, enabled>>
    BY <1>13 DEF Rec!RunAborted, Rec!Runs
  <2>2. excused' \in BOOLEAN
    BY <1>1, <2>1 DEF Rec!IsRecording, Rec!Recorder
  <2> QED BY <1>1, <2>1, <2>2, PoppedOk, AfterStop
<1>14. ASSUME NEW opens \in Opens, Rec!RunKeyframe(opens) PROVE RecInv'
  <2>1. /\ rec.ready # <<>> /\ Head(rec.ready) = "keyframe" /\ rec.opened < MaxFiles
        /\ UNCHANGED <<duration, interval, vm_active, enabled>>
        /\ IF rec.next = rec.cap
           THEN rec' = Rec!Start(Rec!Popped, opens) /\ Rec!Excused(opens)
           ELSE /\ rec' = Rec!StartKeyframeTimer([Rec!Popped EXCEPT !.next = @ + 1],
                                                 interval)
                /\ UNCHANGED excused
    BY <1>14 DEF Rec!RunKeyframe, Rec!Runs, Rec!MayOpen
  <2>2. opens \in BOOLEAN
    BY RecConstants
  <2>3. CASE rec.next = rec.cap
    BY <1>1, <2>1, <2>2, <2>3, PoppedOk, AfterStart
  <2>4. CASE rec.next # rec.cap
    <3> DEFINE p == Rec!Popped
               next == rec.next + 1
               r == [p EXCEPT !.next = next, !.karmed = (interval # 0),
                              !.kleft = interval]
    <3>1. /\ RecorderOk(p) /\ p.opened = rec.opened /\ p.file = rec.file
          /\ p.bad = rec.bad /\ p.armed = rec.armed /\ p.left = rec.left
          /\ p.ready = Tail(rec.ready) /\ p.next = rec.next /\ p.cap = rec.cap
          /\ p.rows = rec.rows
      BY <2>1, PoppedOk DEF Rec!Popped
    <3>2. p \in Rec!Recorder
      BY <3>1 DEF RecorderOk
    <3>3. rec' = r
      BY <2>1, <2>4, <3>1, <3>2 DEF Rec!StartKeyframeTimer, Rec!Recorder
    <3>4. next \in Nat /\ next <= rec.cap
      BY <1>3, <2>4
    <3> HIDE DEF p, next
    <3>5. /\ r \in Rec!Recorder /\ r.next = next /\ r.cap = rec.cap
          /\ r.file = rec.file /\ r.opened = rec.opened /\ r.rows = rec.rows
          /\ r.bad = rec.bad /\ r.left = rec.left /\ r.ready = Tail(rec.ready)
          /\ r.armed = rec.armed
      BY <1>3, <3>1, <3>2, <3>4 DEF Rec!Recorder
    <3> HIDE DEF r
    <3>6. Rec!IsRecording(rec) => r.armed \/ r.left = 0
      BY <1>1, <3>5 DEF RecorderOk
    <3>7. HandlerWaits(rec) => HandlerWaits(r)
      BY <1>3, <2>1, <3>5, HandlerStays DEF HandlerWaits
    <3>8. Rec!IsRecording(rec) /\ duration # 0 => r.armed \/ HandlerWaits(r)
      BY <1>2, <3>5, <3>7
    <3> QED BY <1>7, <2>1, <2>4, <3>3, <3>4, <3>5, <3>6, <3>8
  <2> QED BY <2>3, <2>4
<1> QED BY <1>4, <1>5, <1>6, <1>8, <1>9, <1>10, <1>11, <1>12, <1>13, <1>14
        DEF Rec!Next

\* A VM is not recorded at first.
LEMMA RecInit ==
  ASSUME Rec!Init
  PROVE  RecInv
<1> DEFINE rows == [f \in Rec!Files |-> "none"]
<1>1. /\ 0 \in 0 .. MaxFiles /\ <<>> \in Seq({"stop", "aborted", "keyframe"})
      /\ rows \in [Rec!Files -> {"none", "started", "stopped"}]
      /\ \A f \in Rec!Files : rows[f] = "none" /\ f > 0
  BY RecConstants DEF Rec!Files
<1> HIDE DEF rows
<1>2. /\ rec.file = 0 /\ rec.opened = 0 /\ rec.next = 0 /\ rec.cap = 0
      /\ rec.rows = rows /\ rec \in Rec!Recorder
  BY <1>1 DEF Rec!Init, Rec!Recorder, rows
<1>3. RecorderOk(rec) /\ ~Rec!IsRecording(rec)
  BY <1>1, <1>2 DEF RecorderOk, Rec!IsRecording
<1> QED BY <1>2, <1>3
        DEF RecInv, Rec!Init, Rec!TypeOK, Rec!FileIsTimed, Rec!ActiveIsRecorded

\* A step of the whole is one of the recording, or leaves it alone.
LEMMA RecSteps == [Next]_vars => [Rec!Next]_rec_vars
BY DEF Next, vars, rec_vars

\* Recording files have a stop timer or a handler that ends them, room for
\* their keyframes and, once they are closed, a stop time in the database, and
\* an active VM is recorded unless its recording failed: for any durations and
\* intervals, any number of files, and handlers that are as late as they like.
THEOREM RecordingIsSound == Spec => []RecordingSound
<1>1. Init => RecInv
  BY RecInit DEF Init
<1>2. RecInv /\ [Next]_vars => RecInv'
  BY RecStep, RecSteps
<1>3. RecInv => RecordingSound
  BY DEF RecInv, RecorderOk, RecordingSound, Rec!KeyframesFit, Rec!FilesAreClosed
<1> QED BY <1>1, <1>2, <1>3, PTL DEF Spec


-----------------------------------------------------------------------------
(* The lists of the VMs: VmList, on one thread and with administrators that   *)
(* wait for the updates.                                                      *)

\* A task is on a strand.
Has(q, task) == \E i \in 1 .. Len(q) : q[i] = task

\* A strand has at most one task of a bulk update and one that starts or stops
\* the VM, in the order in which they matter: nothing starts or stops a VM
\* after it was asked.
Orderly(q) ==
  /\ q \in Seq(List!Tasks)
  /\ \A i, j \in 1 .. Len(q) :
       /\ q[i] = "bulk" /\ q[j] = "bulk" => i = j
       /\ q[i] \in {"start", "stop"} /\ q[j] \in {"start", "stop"} => i = j
       /\ q[i] = "bulk" /\ q[j] \in {"start", "stop"} => j < i

\* VMs that a bulk update waits for, and those it has counted.
Outstanding == {v \in Vms : Has(strands[v], "bulk") \/ callback[v] # List!None}
Counted == {v \in vms : pending[v] = "both"}

\* A VM that was deleted, or is not yet made, is at rest.
Absent(v) ==
  /\ actives[v] = FALSE /\ has_vm_info[v] = FALSE /\ pending[v] = "none"
  /\ v \notin asked /\ v \notin ending /\ callback[v] = List!None
  /\ ~Has(strands[v], "start") /\ ~Has(strands[v], "info")
  /\ ~Has(strands[v], "bulk")

\* Something will bring the lists up to date with v.
Stale(v) ==
  v \in asked \/ v \in ending \/ Has(strands[v], "info") \/ requests > 0

\* A VM: what it answered to a bulk update stays true until the update ends,
\* and what the viewers are shown of it is true or will be updated.
VmOk(v) ==
  /\ Orderly(strands[v])
  /\ v \notin vms => Absent(v)
  /\ requests = 0 => pending[v] = "none"
  /\ v \in vms /\ requests > 0 => (pending[v] = "none" <=> Has(strands[v], "bulk"))
  /\ pending[v] # "none" =>
       /\ pending[v] = IF actives[v] THEN "both" ELSE "admin"
       /\ ~Has(strands[v], "start") /\ ~Has(strands[v], "stop")
  /\ Has(strands[v], "start") \/ Has(strands[v], "stop") => v \notin ending
  /\ v \in ending => ~actives[v]
  /\ has_vm_info[v] # actives[v] => Stale(v)

ListTypes ==
  /\ vms \subseteq used /\ used \subseteq Vms
  /\ actives \in [Vms -> BOOLEAN] /\ has_vm_info \in [Vms -> BOOLEAN]
  /\ ending \subseteq Vms /\ asked \subseteq Vms
  /\ pending \in [Vms -> {"none", "admin", "both"}]
  /\ requests \in Nat /\ updates \in 0 .. Cardinality(Vms)
  /\ strands \in [Vms -> Seq(List!Tasks)]
  /\ callback \in [Vms -> 1 .. List!None]

\* At most one callback of a bulk update runs, and has read the counter as it is.
OneCallback ==
  /\ \A v, w \in Vms : callback[v] # List!None /\ callback[w] # List!None => v = w
  /\ \A v \in Vms : callback[v] # List!None =>
       callback[v] = requests /\ ~Has(strands[v], "bulk")

\* Inductive on one thread with patient administrators.
ListInv ==
  /\ ListTypes
  /\ admin_list = [of |-> vms, blank |-> 0]
  /\ vm_list = [of |-> {v \in Vms : has_vm_info[v]}, blank |-> 0]
  /\ failed = {}
  /\ requests = Cardinality(Outstanding)
  /\ requests > 0 => updates = Cardinality(Counted)
  /\ OneCallback
  /\ \A v \in Vms : VmOk(v)

\* The instance counts as everybody else does.
LEMMA ListCardinality ==
  /\ \A S : List!IsFiniteSet(S) <=> IsFiniteSet(S)
  /\ \A S : List!Cardinality(S) = Cardinality(S)
<1>1. \A S : List!IsFiniteSet(S) <=> IsFiniteSet(S)
  BY DEF List!IsFiniteSet, IsFiniteSet
<1>2. \A S : List!Cardinality(S) = Cardinality(S)
  BY DEF List!Cardinality, Cardinality
<1> QED BY <1>1, <1>2

\* What is assumed of the constants.
LEMMA ListConstants ==
  /\ IsFiniteSet(Vms) /\ Cardinality(Vms) \in Nat /\ Initial \subseteq Vms
  /\ List!None = Cardinality(Vms) + 1 /\ List!None \in Nat
<1>1. IsFiniteSet(Vms) /\ Initial \subseteq Vms
  BY PartsAssumption, ListCardinality DEF List!VmListAssumption
<1>2. Cardinality(Vms) \in Nat
  BY <1>1, FS_CardinalityType
<1> QED BY <1>1, <1>2, ListCardinality DEF List!None

\* Sets of VMs are finite; they are counted one by one.
LEMMA VmsCount ==
  ASSUME NEW S \in SUBSET Vms
  PROVE  /\ IsFiniteSet(S) /\ Cardinality(S) \in 0 .. Cardinality(Vms)
         /\ Cardinality(S) = 0 <=> S = {}
         /\ \A v \in S : Cardinality(S \ {v}) = Cardinality(S) - 1
         /\ \A v \in Vms \ S : Cardinality(S \cup {v}) = Cardinality(S) + 1
<1>1. IsFiniteSet(S) /\ Cardinality(S) \in Nat /\ Cardinality(S) <= Cardinality(Vms)
  BY ListConstants, FS_Subset, FS_CardinalityType
<1>2. Cardinality(S) = 0 <=> S = {}
  BY <1>1, FS_EmptySet
<1>3. \A v \in S : Cardinality(S \ {v}) = Cardinality(S) - 1
  BY <1>1, FS_RemoveElement
<1>4. \A v \in Vms \ S : Cardinality(S \cup {v}) = Cardinality(S) + 1
  BY <1>1, FS_AddElement
<1>5. Cardinality(S) \in 0 .. Cardinality(Vms)
  BY <1>1, ListConstants
<1> QED BY <1>1, <1>2, <1>3, <1>4, <1>5

\* A task is queued.
LEMMA HasAppended ==
  ASSUME NEW q \in Seq(List!Tasks), NEW t \in List!Tasks
  PROVE  /\ Append(q, t) \in Seq(List!Tasks)
         /\ \A u : Has(Append(q, t), u) <=> Has(q, u) \/ u = t
<1> DEFINE p == Append(q, t)
<1>1. /\ p \in Seq(List!Tasks) /\ Len(p) = Len(q) + 1 /\ p[Len(q) + 1] = t
      /\ \A i \in 1 .. Len(q) : p[i] = q[i]
      /\ Len(q) \in Nat
  OBVIOUS
<1> HIDE DEF p
<1>2. ASSUME NEW u, Has(p, u) PROVE Has(q, u) \/ u = t
  <2>1. PICK i \in 1 .. Len(p) : p[i] = u
    BY <1>2 DEF Has
  <2>2. CASE i = Len(q) + 1
    BY <1>1, <2>1, <2>2
  <2>3. CASE i # Len(q) + 1
    <3>1. i \in 1 .. Len(q)
      BY <1>1, <2>3
    <3> QED BY <1>1, <2>1, <3>1 DEF Has
  <2> QED BY <2>2, <2>3
<1>3. ASSUME NEW u, Has(q, u) PROVE Has(p, u)
  <2>1. PICK i \in 1 .. Len(q) : q[i] = u
    BY <1>3 DEF Has
  <2>2. i \in 1 .. Len(p) /\ p[i] = u
    BY <1>1, <2>1
  <2> QED BY <2>2 DEF Has
<1>4. Has(p, t)
  <2>1. Len(q) + 1 \in 1 .. Len(p)
    BY <1>1
  <2> QED BY <1>1, <2>1 DEF Has
<1> QED BY <1>1, <1>2, <1>3, <1>4 DEF p

\* A task is queued where it may be.
LEMMA OrderlyAppended ==
  ASSUME NEW q, Orderly(q), NEW t \in List!Tasks,
         t = "bulk" => ~Has(q, "bulk"),
         t \in {"start", "stop"} =>
           ~Has(q, "start") /\ ~Has(q, "stop") /\ ~Has(q, "bulk")
  PROVE  Orderly(Append(q, t))
<1> DEFINE p == Append(q, t)
<1>1. /\ p \in Seq(List!Tasks) /\ Len(p) = Len(q) + 1 /\ p[Len(q) + 1] = t
      /\ \A i \in 1 .. Len(q) : p[i] = q[i]
      /\ Len(q) \in Nat
  BY DEF Orderly
<1> HIDE DEF p
<1>2. ASSUME NEW i \in 1 .. Len(p), NEW j \in 1 .. Len(p)
      PROVE  /\ p[i] = "bulk" /\ p[j] = "bulk" => i = j
             /\ p[i] \in {"start", "stop"} /\ p[j] \in {"start", "stop"} => i = j
             /\ p[i] = "bulk" /\ p[j] \in {"start", "stop"} => j < i
  <2>1. \A k \in 1 .. Len(p) : k = Len(q) + 1 \/ k \in 1 .. Len(q)
    BY <1>1
  <2>2. CASE i \in 1 .. Len(q) /\ j \in 1 .. Len(q)
    BY <1>1, <2>2 DEF Orderly
  <2>3. CASE i = Len(q) + 1 /\ j \in 1 .. Len(q)
    BY <1>1, <2>3 DEF Has
  <2>4. CASE i \in 1 .. Len(q) /\ j = Len(q) + 1
    BY <1>1, <2>4 DEF Has
  <2>5. CASE i = Len(q) + 1 /\ j = Len(q) + 1
    BY <1>1, <2>5
  <2> QED BY <2>1, <2>2, <2>3, <2>4, <2>5
<1>3. Orderly(p)
  BY <1>1, <1>2 DEF Orderly
<1> QED BY <1>3 DEF p

\* The first task of a strand is run: what can follow it.
LEMMA OrderlyTail ==
  ASSUME NEW q, Orderly(q), q # <<>>
  PROVE  /\ Orderly(Tail(q))
         /\ \A u : Has(q, u) <=> Has(Tail(q), u) \/ u = Head(q)
         /\ Head(q) = "bulk" => /\ ~Has(Tail(q), "bulk")
                                /\ ~Has(Tail(q), "start") /\ ~Has(Tail(q), "stop")
         /\ Head(q) \in {"start", "stop"} =>
              ~Has(Tail(q), "start") /\ ~Has(Tail(q), "stop")
<1> DEFINE p == Tail(q)
           h == Head(q)
<1>1. /\ p \in Seq(List!Tasks) /\ Len(q) = Len(p) + 1 /\ Len(p) \in Nat
      /\ \A i \in 1 .. Len(p) : p[i] = q[i + 1]
      /\ q[1] = h
  BY DEF Orderly
<1> HIDE DEF p, h
<1>2. \A i \in 1 .. Len(p) : i + 1 \in 1 .. Len(q) /\ 1 \in 1 .. Len(q)
  BY <1>1
<1>3. Orderly(p)
  <2>1. ASSUME NEW i \in 1 .. Len(p), NEW j \in 1 .. Len(p)
        PROVE  /\ p[i] = "bulk" /\ p[j] = "bulk" => i = j
               /\ p[i] \in {"start", "stop"} /\ p[j] \in {"start", "stop"} => i = j
               /\ p[i] = "bulk" /\ p[j] \in {"start", "stop"} => j < i
    <3>1. /\ i + 1 \in 1 .. Len(q) /\ j + 1 \in 1 .. Len(q)
          /\ p[i] = q[i + 1] /\ p[j] = q[j + 1]
      BY <1>1, <1>2
    <3>2. /\ p[i] = "bulk" /\ p[j] = "bulk" => i + 1 = j + 1
          /\ p[i] \in {"start", "stop"} /\ p[j] \in {"start", "stop"} => i + 1 = j + 1
          /\ p[i] = "bulk" /\ p[j] \in {"start", "stop"} => j + 1 < i + 1
      BY <3>1 DEF Orderly
    <3>3. i \in Nat /\ j \in Nat
      OBVIOUS
    <3> QED BY <3>2, <3>3
  <2> QED BY <1>1, <2>1 DEF Orderly
<1>4. ASSUME NEW u, Has(q, u) PROVE Has(p, u) \/ u = h
  <2>1. PICK i \in 1 .. Len(q) : q[i] = u
    BY <1>4 DEF Has
  <2>2. CASE i = 1
    BY <1>1, <2>1, <2>2
  <2>3. CASE i # 1
    <3>1. i - 1 \in 1 .. Len(p) /\ (i - 1) + 1 = i
      BY <1>1, <2>3
    <3>2. p[i - 1] = u
      BY <1>1, <2>1, <3>1
    <3> QED BY <3>1, <3>2 DEF Has
  <2> QED BY <2>2, <2>3
<1>5. ASSUME NEW u, Has(p, u) PROVE Has(q, u)
  BY <1>1, <1>2, <1>5 DEF Has
<1>6. Has(q, h)
  <2>1. 1 \in 1 .. Len(q)
    BY <1>1
  <2> QED BY <1>1, <2>1 DEF Has
<1>7. ASSUME NEW i \in 1 .. Len(p)
      PROVE  /\ h = "bulk" => p[i] \notin {"bulk", "start", "stop"}
             /\ h \in {"start", "stop"} => p[i] \notin {"start", "stop"}
  <2>1. /\ i + 1 \in 1 .. Len(q) /\ 1 \in 1 .. Len(q) /\ p[i] = q[i + 1]
        /\ i + 1 # 1 /\ ~(i + 1 < 1)
    BY <1>1, <1>2
  <2> QED BY <1>1, <2>1 DEF Orderly
<1>8. /\ h = "bulk" => ~Has(p, "bulk") /\ ~Has(p, "start") /\ ~Has(p, "stop")
      /\ h \in {"start", "stop"} => ~Has(p, "start") /\ ~Has(p, "stop")
  BY <1>7 DEF Has
<1> QED BY <1>3, <1>4, <1>5, <1>6, <1>8 DEF p, h


\* Nothing changes for a VM.
LEMMA VmKept ==
  ASSUME NEW w, VmOk(w), requests' = requests, strands'[w] = strands[w],
         actives'[w] = actives[w], has_vm_info'[w] = has_vm_info[w],
         pending'[w] = pending[w], callback'[w] = callback[w],
         w \in vms' <=> w \in vms, w \in asked' <=> w \in asked,
         w \in ending' <=> w \in ending
  PROVE  VmOk(w)'
<1>1. Orderly(strands[w])' /\ List!None' = List!None
  BY DEF VmOk, Orderly, List!Tasks, List!None
<1>2. Absent(w) => Absent(w)'
  BY <1>1 DEF Absent
<1>3. Stale(w) => Stale(w)'
  BY DEF Stale
<1> QED BY <1>1, <1>2, <1>3 DEF VmOk

\* What is to be shown of a step that is not one of a bulk update.
LEMMA ListTogether ==
  ASSUME ListInv, ListTypes', UNCHANGED <<requests, updates, callback>>,
         \A v \in Vms : Has(strands'[v], "bulk") <=> Has(strands[v], "bulk"),
         requests > 0 => \A v \in Vms : v \in Counted' <=> v \in Counted,
         admin_list' = [of |-> vms', blank |-> 0],
         vm_list' = [of |-> {v \in Vms : has_vm_info'[v]}, blank |-> 0],
         failed' = {}, \A v \in Vms : VmOk(v)'
  PROVE  ListInv'
<1>1. Outstanding' = Outstanding /\ List!None' = List!None
  BY DEF Outstanding, List!None
<1>2. requests > 0 => Counted' = Counted
  <2>1. Counted \subseteq Vms /\ Counted' \subseteq Vms
    BY DEF Counted, ListInv, ListTypes
  <2> QED BY <2>1
<1>3. OneCallback'
  BY <1>1 DEF ListInv, OneCallback
<1> QED BY <1>1, <1>2, <1>3 DEF ListInv

\* While nothing is updated the VMs are as they are shown, and the strands hold
\* nothing but changes of settings.
LEMMA QuietVms ==
  ASSUME ListInv, List!Quiet, NEW v \in Vms
  PROVE  /\ requests = 0 /\ asked = {} /\ ending = {} /\ pending[v] = "none"
         /\ has_vm_info[v] = actives[v]
         /\ \A u : Has(strands[v], u) => u = "config"
<1>1. requests = 0 /\ asked = {} /\ ending = {}
  BY DEF List!Quiet
<1>2. \A u : Has(strands[v], u) => u = "config"
  <2>1. strands[v] \in Seq(List!Tasks)
    BY DEF ListInv, ListTypes
  <2>2. DOMAIN strands[v] = 1 .. Len(strands[v])
    BY <2>1
  <2> QED BY <2>2 DEF List!Quiet, Has
<1>3. VmOk(v)
  BY DEF ListInv
<1>4. ~Stale(v)
  BY <1>1, <1>2 DEF Stale
<1> QED BY <1>1, <1>2, <1>3, <1>4 DEF VmOk

\* A task is dispatched to a VM's strand.
LEMMA Dispatched ==
  ASSUME ListInv, NEW v \in Vms, NEW t \in List!Tasks, List!Dispatch(v, t)
  PROVE  /\ strands' \in [Vms -> Seq(List!Tasks)]
         /\ \A w \in Vms \ {v} : strands'[w] = strands[w]
         /\ strands'[v] = Append(strands[v], t)
         /\ \A u : Has(strands'[v], u) <=> Has(strands[v], u) \/ u = t
<1>1. strands[v] \in Seq(List!Tasks) /\ strands \in [Vms -> Seq(List!Tasks)]
  BY DEF ListInv, ListTypes
<1>2. /\ Append(strands[v], t) \in Seq(List!Tasks)
      /\ \A u : Has(Append(strands[v], t), u) <=> Has(strands[v], u) \/ u = t
  BY <1>1, HasAppended
<1>3. strands' = [strands EXCEPT ![v] = Append(strands[v], t)]
  BY DEF List!Dispatch
<1>4. strands'[v] = Append(strands[v], t)
  BY <1>1, <1>3
<1>5. strands' \in [Vms -> Seq(List!Tasks)]
  BY <1>1, <1>2, <1>3
<1>6. \A w \in Vms \ {v} : strands'[w] = strands[w]
  BY <1>1, <1>3
<1> QED BY <1>2, <1>4, <1>5, <1>6

\* A VM's strand runs a task.
LEMMA RunsTask ==
  ASSUME ListInv, NEW v \in Vms, NEW t, List!Run(v, t)
  PROVE  /\ strands' \in [Vms -> Seq(List!Tasks)]
         /\ \A w \in Vms \ {v} : strands'[w] = strands[w]
         /\ Orderly(strands'[v])
         /\ \A u : Has(strands[v], u) <=> Has(strands'[v], u) \/ u = t
         /\ t = "bulk" => /\ ~Has(strands'[v], "bulk")
                          /\ ~Has(strands'[v], "start") /\ ~Has(strands'[v], "stop")
         /\ t \in {"start", "stop"} =>
              ~Has(strands'[v], "start") /\ ~Has(strands'[v], "stop")
<1>1. /\ strands[v] # <<>> /\ Head(strands[v]) = t
      /\ strands' = [strands EXCEPT ![v] = Tail(strands[v])]
  BY DEF List!Run
<1>2. strands \in [Vms -> Seq(List!Tasks)] /\ Orderly(strands[v])
  BY DEF ListInv, ListTypes, VmOk
<1>3. strands'[v] = Tail(strands[v])
  BY <1>1, <1>2
<1>4. Tail(strands[v]) \in Seq(List!Tasks)
  BY <1>1, <1>2
<1>5. /\ strands' \in [Vms -> Seq(List!Tasks)]
      /\ \A w \in Vms \ {v} : strands'[w] = strands[w]
  BY <1>1, <1>2, <1>4
<1> QED BY <1>1, <1>2, <1>3, <1>5, OrderlyTail

\* On one thread, nothing runs while a callback of a bulk update does.
LEMMA FreeThread ==
  ASSUME OneThread, List!Free
  PROVE  \A v \in Vms : callback[v] = List!None
BY DEF List!Free

\* Administrators change a VM.
LEMMA ListAdminStep ==
  ASSUME ListInv, OneThread, Patient, NEW v \in Vms,
         \/ List!CreateVm(v) \/ List!RemoveAdminVirtualMachine(v)
         \/ List!StartVm(v) \/ List!StopVm(v)
  PROVE  ListInv'
<1>1. List!MayChange
  BY DEF List!CreateVm, List!RemoveAdminVirtualMachine, List!StartVm, List!StopVm
<1>2. List!Quiet /\ List!Free
  BY <1>1 DEF List!MayChange
<1>3. \A w \in Vms :
        /\ requests = 0 /\ asked = {} /\ ending = {} /\ pending[w] = "none"
        /\ has_vm_info[w] = actives[w] /\ callback[w] = List!None
        /\ \A u : Has(strands[w], u) => u = "config"
  BY <1>2, QuietVms, FreeThread
<1>4. /\ ListTypes /\ admin_list = [of |-> vms, blank |-> 0] /\ failed = {}
      /\ vm_list = [of |-> {w \in Vms : has_vm_info[w]}, blank |-> 0]
      /\ \A w \in Vms : VmOk(w)
  BY DEF ListInv
<1>5. ~(requests > 0) /\ List!None' = List!None
  BY <1>3 DEF List!None
<1>6. CASE List!CreateVm(v)
  <2>1. /\ v \notin used /\ used' = used \cup {v} /\ vms' = vms \cup {v}
        /\ admin_list' = [admin_list EXCEPT !.of = @ \cup {v}]
        /\ UNCHANGED <<actives, ending, has_vm_info, pending, requests, updates,
                       vm_list, asked, strands, callback, failed>>
    BY <1>6 DEF List!CreateVm
  <2>2. ListTypes' /\ admin_list' = [of |-> vms', blank |-> 0]
    BY <1>4, <1>5, <2>1 DEF ListTypes, List!Tasks
  <2>3. v \notin vms
    BY <1>4, <2>1 DEF ListTypes
  <2>4. ASSUME NEW w \in Vms PROVE VmOk(w)'
    <3>1. CASE w = v
      <4>1. Orderly(strands[v])' /\ Absent(v)
        BY <1>4, <2>1, <2>3 DEF VmOk, Orderly, List!Tasks
      <4> QED BY <1>3, <1>5, <2>1, <3>1, <4>1 DEF VmOk, Absent
    <3>2. CASE w # v
      BY <1>4, <2>1, <3>2, VmKept
    <3> QED BY <3>1, <3>2
  <2> QED BY <1>4, <1>5, <2>1, <2>2, <2>4, ListTogether
<1>7. ASSUME NEW t \in {"start", "stop"}, List!Dispatch(v, t),
             UNCHANGED <<used, actives, ending, has_vm_info, pending, requests,
                         updates, vm_list, asked, callback, failed>>,
             vms' \subseteq vms, vms \ {v} \subseteq vms',
             admin_list' = [of |-> vms', blank |-> 0],
             v \notin vms' => ~actives[v] /\ t = "stop"
      PROVE  ListInv'
  <2>1. t \in List!Tasks
    BY DEF List!Tasks
  <2>2. /\ strands' \in [Vms -> Seq(List!Tasks)]
        /\ \A w \in Vms \ {v} : strands'[w] = strands[w]
        /\ strands'[v] = Append(strands[v], t)
        /\ \A u : Has(strands'[v], u) <=> Has(strands[v], u) \/ u = t
    BY <1>7, <2>1, Dispatched
  <2>3. Orderly(strands'[v])
    <3>1. Orderly(strands[v])
      BY <1>4 DEF VmOk
    <3>2. ~Has(strands[v], "start") /\ ~Has(strands[v], "stop") /\ ~Has(strands[v], "bulk")
      BY <1>3
    <3> QED BY <2>1, <2>2, <3>1, <3>2, OrderlyAppended
  <2>4. ListTypes'
    BY <1>4, <1>5, <1>7, <2>2 DEF ListTypes, List!Tasks
  <2>5. VmOk(v)'
    <3>1. Orderly(strands[v])'
      BY <2>3 DEF Orderly, List!Tasks
    <3>2. (v \notin vms => Absent(v))'
      <4> SUFFICES ASSUME v \notin vms' PROVE Absent(v)'
        OBVIOUS
      <4>1. actives[v] \in BOOLEAN /\ has_vm_info[v] \in BOOLEAN
        BY <1>4 DEF ListTypes
      <4>2. actives'[v] = FALSE /\ has_vm_info'[v] = FALSE /\ t = "stop"
        BY <1>3, <1>7, <4>1
      <4>3. /\ ~Has(strands'[v], "start") /\ ~Has(strands'[v], "info")
            /\ ~Has(strands'[v], "bulk")
        BY <1>3, <2>2, <4>2
      <4> QED BY <1>3, <1>5, <1>7, <4>2, <4>3 DEF Absent
    <3> QED BY <1>3, <1>5, <1>7, <3>1, <3>2 DEF VmOk
  <2>6. ASSUME NEW w \in Vms, w # v PROVE VmOk(w)'
    BY <1>4, <1>7, <2>2, <2>6, VmKept
  <2>7. \A w \in Vms : Has(strands'[w], "bulk") <=> Has(strands[w], "bulk")
    BY <1>7, <2>2
  <2> QED BY <1>4, <1>5, <1>7, <2>4, <2>5, <2>6, <2>7, ListTogether
<1>8. CASE List!RemoveAdminVirtualMachine(v)
  <2>1. /\ v \in vms /\ ~actives[v] /\ List!Dispatch(v, "stop") /\ vms' = vms \ {v}
        /\ admin_list' = [admin_list EXCEPT !.of = @ \ {v}]
        /\ failed' = failed \cup List!RemovesOne(admin_list, v)
        /\ UNCHANGED <<used, actives, ending, has_vm_info, pending, requests,
                       updates, vm_list, asked, callback>>
    BY <1>8 DEF List!RemoveAdminVirtualMachine, List!RemoveFirst
  <2>2. failed' = failed /\ admin_list' = [of |-> vms', blank |-> 0]
    BY <1>4, <2>1 DEF List!RemovesOne
  <2> QED BY <1>7, <2>1, <2>2
<1>9. CASE List!StartVm(v) \/ List!StopVm(v)
  <2>1. /\ \E t \in {"start", "stop"} : List!Dispatch(v, t)
        /\ v \in vms
        /\ UNCHANGED <<vms, used, actives, ending, has_vm_info, pending, requests,
                       updates, admin_list, vm_list, asked, callback, failed>>
    BY <1>9 DEF List!StartVm, List!StopVm
  <2> QED BY <1>4, <1>7, <2>1
<1> QED BY <1>6, <1>8, <1>9


\* A step that changes one VM and is not one of a bulk update.
LEMMA ListOneVm ==
  ASSUME ListInv, NEW v \in Vms,
         UNCHANGED <<vms, used, requests, updates, admin_list, callback, failed>>,
         strands' \in [Vms -> Seq(List!Tasks)],
         actives' \in [Vms -> BOOLEAN], has_vm_info' \in [Vms -> BOOLEAN],
         pending' \in [Vms -> {"none", "admin", "both"}],
         asked' \subseteq Vms, ending' \subseteq Vms,
         \A w \in Vms \ {v} :
           /\ strands'[w] = strands[w] /\ actives'[w] = actives[w]
           /\ has_vm_info'[w] = has_vm_info[w] /\ pending'[w] = pending[w]
           /\ w \in asked' <=> w \in asked
           /\ w \in ending' <=> w \in ending,
         Has(strands'[v], "bulk") <=> Has(strands[v], "bulk"),
         pending'[v] = pending[v],
         vm_list' = [of |-> {w \in Vms : has_vm_info'[w]}, blank |-> 0],
         VmOk(v)'
  PROVE  ListInv'
<1>1. /\ ListTypes /\ admin_list = [of |-> vms, blank |-> 0] /\ failed = {}
      /\ \A w \in Vms : VmOk(w)
  BY DEF ListInv
<1>2. ListTypes'
  BY <1>1 DEF ListTypes, List!Tasks, List!None
<1>3. ASSUME NEW w \in Vms, w # v PROVE VmOk(w)'
  BY <1>1, <1>3, VmKept
<1>4. \A w \in Vms : Has(strands'[w], "bulk") <=> Has(strands[w], "bulk")
  OBVIOUS
<1>5. \A w \in Vms : w \in Counted' <=> w \in Counted
  BY DEF Counted
<1> QED BY <1>1, <1>2, <1>3, <1>4, <1>5, ListTogether

\* Settings, updates of one VM, and what is done on its strand besides the bulk
\* update.
LEMMA ListVmStep ==
  ASSUME ListInv, OneThread, NEW v \in Vms,
         \/ List!UpdateVmConfig(v) \/ List!UpdateVmInfo(v) \/ List!Connection(v)
         \/ List!Start(v) \/ List!Stop(v) \/ List!OnStop(v)
         \/ List!Info(v) \/ List!Config(v)
  PROVE  ListInv'
<1>1. /\ ListTypes /\ failed = {}
      /\ vm_list = [of |-> {w \in Vms : has_vm_info[w]}, blank |-> 0]
      /\ VmOk(v)
  BY DEF ListInv
<1>2. /\ vms \subseteq Vms
      /\ actives \in [Vms -> BOOLEAN] /\ has_vm_info \in [Vms -> BOOLEAN]
      /\ ending \subseteq Vms /\ asked \subseteq Vms
      /\ pending \in [Vms -> {"none", "admin", "both"}] /\ requests \in Nat
      /\ strands \in [Vms -> Seq(List!Tasks)] /\ List!None' = List!None
  BY <1>1 DEF ListTypes, List!None
<1>3. /\ Orderly(strands[v])
      /\ v \notin vms => Absent(v)
      /\ requests = 0 => pending[v] = "none"
      /\ v \in vms /\ requests > 0 =>
           (pending[v] = "none" <=> Has(strands[v], "bulk"))
      /\ pending[v] # "none" =>
           /\ pending[v] = IF actives[v] THEN "both" ELSE "admin"
           /\ ~Has(strands[v], "start") /\ ~Has(strands[v], "stop")
      /\ Has(strands[v], "start") \/ Has(strands[v], "stop") => v \notin ending
      /\ v \in ending => ~actives[v]
      /\ has_vm_info[v] # actives[v] => Stale(v)
  BY <1>1 DEF VmOk
<1>4. ASSUME NEW q, Orderly(q), strands'[v] = q PROVE Orderly(strands[v])'
  BY <1>4 DEF Orderly, List!Tasks
<1>5. CASE List!UpdateVmConfig(v)
  <2>1. /\ v \in vms /\ List!Dispatch(v, "config")
        /\ UNCHANGED <<vms, used, actives, ending, has_vm_info, pending, requests,
                       updates, admin_list, vm_list, asked, callback, failed>>
    BY <1>5 DEF List!UpdateVmConfig
  <2>2. "config" \in List!Tasks
    BY DEF List!Tasks
  <2>3. /\ strands' \in [Vms -> Seq(List!Tasks)]
        /\ \A w \in Vms \ {v} : strands'[w] = strands[w]
        /\ strands'[v] = Append(strands[v], "config")
        /\ \A u : Has(strands'[v], u) <=> Has(strands[v], u) \/ u = "config"
    BY <2>1, <2>2, Dispatched
  <2>4. Orderly(strands[v])'
    BY <1>3, <1>4, <2>2, <2>3, OrderlyAppended
  <2>5. Stale(v) => Stale(v)'
    BY <2>1, <2>3 DEF Stale
  <2>6. VmOk(v)'
    BY <1>3, <2>1, <2>3, <2>4, <2>5 DEF VmOk
  <2> QED BY <1>1, <1>2, <2>1, <2>3, <2>6, ListOneVm
<1>6. CASE List!UpdateVmInfo(v)
  <2>1. /\ v \in asked /\ List!Dispatch(v, "info") /\ asked' = asked \ {v}
        /\ UNCHANGED <<vms, used, actives, ending, has_vm_info, pending, requests,
                       updates, admin_list, vm_list, callback, failed>>
    BY <1>6 DEF List!UpdateVmInfo
  <2>2. "info" \in List!Tasks /\ v \in vms
    BY <1>3, <2>1 DEF List!Tasks, Absent
  <2>3. /\ strands' \in [Vms -> Seq(List!Tasks)]
        /\ \A w \in Vms \ {v} : strands'[w] = strands[w]
        /\ strands'[v] = Append(strands[v], "info")
        /\ \A u : Has(strands'[v], u) <=> Has(strands[v], u) \/ u = "info"
    BY <2>1, <2>2, Dispatched
  <2>4. Orderly(strands[v])'
    BY <1>3, <1>4, <2>2, <2>3, OrderlyAppended
  <2>5. Stale(v)'
    BY <2>3 DEF Stale
  <2>6. VmOk(v)'
    BY <1>3, <2>1, <2>2, <2>3, <2>4, <2>5 DEF VmOk
  <2> QED BY <1>1, <1>2, <2>1, <2>3, <2>6, ListOneVm
<1>7. CASE List!Connection(v)
  <2>1. /\ v \in vms /\ asked' = asked \cup {v}
        /\ UNCHANGED <<vms, used, actives, ending, has_vm_info, pending, requests,
                       updates, admin_list, vm_list, strands, callback, failed>>
    BY <1>7 DEF List!Connection
  <2>2. Orderly(strands[v])' /\ Stale(v)'
    BY <1>3, <1>4, <2>1 DEF Stale
  <2>3. VmOk(v)'
    BY <1>3, <2>1, <2>2 DEF VmOk
  <2> QED BY <1>1, <1>2, <2>1, <2>3, ListOneVm
<1>8. CASE List!OnStop(v)
  <2>1. /\ v \in ending /\ ending' = ending \ {v}
        /\ UNCHANGED <<vms, used, actives, has_vm_info, pending, requests, updates,
                       admin_list, vm_list, strands, callback, failed>>
        /\ \/ asked' = IF actives[v] THEN asked ELSE asked \cup {v}
           \/ v \notin vms /\ UNCHANGED asked
    BY <1>8 DEF List!OnStop
  <2>2. v \in vms /\ ~actives[v]
    BY <1>3, <2>1 DEF Absent
  <2>3. asked' = asked \cup {v}
    BY <2>1, <2>2
  <2>4. Orderly(strands[v])' /\ Stale(v)'
    BY <1>3, <1>4, <2>1, <2>3 DEF Stale
  <2>5. VmOk(v)'
    BY <1>3, <2>1, <2>2, <2>4 DEF VmOk
  <2> QED BY <1>1, <1>2, <2>1, <2>3, <2>5, ListOneVm
<1>9. CASE List!Start(v)
  <2>1. /\ List!Run(v, "start") /\ actives' = [actives EXCEPT ![v] = TRUE]
        /\ asked' = IF actives[v] THEN asked ELSE asked \cup {v}
        /\ UNCHANGED <<vms, used, ending, has_vm_info, pending, requests, updates,
                       admin_list, vm_list, callback, failed>>
    BY <1>9 DEF List!Start
  <2>2. /\ strands' \in [Vms -> Seq(List!Tasks)]
        /\ \A w \in Vms \ {v} : strands'[w] = strands[w]
        /\ Orderly(strands'[v])
        /\ \A u : Has(strands[v], u) <=> Has(strands'[v], u) \/ u = "start"
        /\ ~Has(strands'[v], "start") /\ ~Has(strands'[v], "stop")
    BY <2>1, RunsTask
  <2>3. v \in vms /\ v \notin ending /\ pending[v] = "none"
    BY <1>3, <2>2 DEF Absent
  <2>4. actives' \in [Vms -> BOOLEAN] /\ actives'[v] = TRUE
        /\ \A w \in Vms \ {v} : actives'[w] = actives[w]
    BY <1>2, <2>1
  <2>5. Orderly(strands[v])' /\ (Has(strands'[v], "bulk") <=> Has(strands[v], "bulk"))
    BY <1>4, <2>2
  <2>6. has_vm_info[v] # TRUE => Stale(v)'
    BY <1>2, <1>3, <2>1, <2>2 DEF Stale
  <2>7. VmOk(v)'
    BY <1>3, <2>1, <2>2, <2>3, <2>4, <2>5, <2>6 DEF VmOk
  <2> QED BY <1>1, <1>2, <2>1, <2>2, <2>4, <2>5, <2>7, ListOneVm
<1>10. CASE List!Stop(v)
  <2>1. /\ List!Run(v, "stop") /\ actives' = [actives EXCEPT ![v] = FALSE]
        /\ ending' = IF actives[v] THEN ending \cup {v} ELSE ending
        /\ UNCHANGED <<vms, used, has_vm_info, pending, requests, updates,
                       admin_list, vm_list, asked, callback, failed>>
    BY <1>10 DEF List!Stop
  <2>2. /\ strands' \in [Vms -> Seq(List!Tasks)]
        /\ \A w \in Vms \ {v} : strands'[w] = strands[w]
        /\ Orderly(strands'[v])
        /\ \A u : Has(strands[v], u) <=> Has(strands'[v], u) \/ u = "stop"
        /\ ~Has(strands'[v], "start") /\ ~Has(strands'[v], "stop")
    BY <2>1, RunsTask
  <2>3. pending[v] = "none"
    BY <1>3, <2>2
  <2>4. actives' \in [Vms -> BOOLEAN] /\ actives'[v] = FALSE
        /\ \A w \in Vms \ {v} : actives'[w] = actives[w]
    BY <1>2, <2>1
  <2>5. Orderly(strands[v])' /\ (Has(strands'[v], "bulk") <=> Has(strands[v], "bulk"))
    BY <1>4, <2>2
  <2>6. has_vm_info[v] # FALSE => Stale(v)'
    BY <1>2, <1>3, <2>1, <2>2 DEF Stale
  <2>7. v \notin vms => Absent(v)'
    BY <1>2, <1>3, <2>1, <2>2, <2>4 DEF Absent
  <2>8. VmOk(v)'
    BY <1>3, <2>1, <2>2, <2>3, <2>4, <2>5, <2>6, <2>7 DEF VmOk
  <2> QED BY <1>1, <1>2, <2>1, <2>2, <2>4, <2>5, <2>8, ListOneVm
<1>11. ASSUME NEW t \in {"info", "config"}, List!Run(v, t),
              UNCHANGED <<vms, used, actives, ending, requests, updates, admin_list,
                          asked, callback>>,
              \/ v \in vms /\ List!UpdateVirtualMachineInfo(v)
              \/ /\ v \notin vms /\ t = "config"
                 /\ UNCHANGED <<has_vm_info, pending, vm_list, failed>>
       PROVE  ListInv'
  <2>1. /\ strands' \in [Vms -> Seq(List!Tasks)]
        /\ \A w \in Vms \ {v} : strands'[w] = strands[w]
        /\ Orderly(strands'[v])
        /\ \A u : Has(strands[v], u) <=> Has(strands'[v], u) \/ u = t
    BY <1>11, RunsTask
  <2>2. Orderly(strands[v])' /\ (Has(strands'[v], "bulk") <=> Has(strands[v], "bulk"))
        /\ (Has(strands'[v], "start") <=> Has(strands[v], "start"))
        /\ (Has(strands'[v], "stop") <=> Has(strands[v], "stop"))
    BY <1>4, <2>1
  <2>3. CASE v \notin vms
    <3>1. UNCHANGED <<has_vm_info, pending, vm_list, failed>>
      BY <1>11, <2>3
    <3>2. Absent(v)'
      BY <1>2, <1>3, <1>11, <2>1, <2>3, <3>1 DEF Absent
    <3>3. VmOk(v)'
      BY <1>3, <1>11, <2>1, <2>2, <2>3, <3>1, <3>2 DEF VmOk, Absent
    <3> QED BY <1>1, <1>2, <1>11, <2>1, <2>2, <3>1, <3>3, ListOneVm
  <2>4. CASE v \in vms /\ pending[v] # "none"
    <3>1. /\ pending' = [pending EXCEPT ![v] = IF actives[v] THEN "both" ELSE "admin"]
          /\ UNCHANGED <<has_vm_info, vm_list, failed>>
      BY <1>11, <2>4 DEF List!UpdateVirtualMachineInfo, List!SetVmInfo
    <3>2. pending' = pending
      BY <1>2, <1>3, <2>4, <3>1
    <3>3. Stale(v)'
      BY <1>2, <1>3, <1>11, <2>4 DEF Stale
    <3>4. VmOk(v)'
      BY <1>3, <1>11, <2>1, <2>2, <2>4, <3>1, <3>2, <3>3 DEF VmOk
    <3> QED BY <1>1, <1>2, <1>11, <2>1, <2>2, <3>1, <3>2, <3>4, ListOneVm
  <2>5. CASE v \in vms /\ pending[v] = "none"
    <3>1. /\ has_vm_info' = [has_vm_info EXCEPT ![v] = actives[v]]
          /\ pending' = pending
          /\ actives[v] => vm_list' = [vm_list EXCEPT !.of = @ \cup {v}]
          /\ has_vm_info[v] /\ ~actives[v] =>
               /\ vm_list' = [vm_list EXCEPT !.of = @ \ {v}]
               /\ failed' = failed \cup List!RemovesOne(vm_list, v)
          /\ ~actives[v] /\ ~has_vm_info[v] => vm_list' = vm_list
          /\ ~(has_vm_info[v] /\ ~actives[v]) => failed' = failed
      BY <1>11, <2>5 DEF List!UpdateVirtualMachineInfo, List!RemoveFirst
    <3>2. /\ has_vm_info' \in [Vms -> BOOLEAN] /\ has_vm_info'[v] = actives[v]
          /\ \A w \in Vms \ {v} : has_vm_info'[w] = has_vm_info[w]
      BY <1>2, <3>1
    <3>3. failed' = failed
      BY <1>1, <3>1 DEF List!RemovesOne
    <3>4. vm_list' = [of |-> {w \in Vms : has_vm_info'[w]}, blank |-> 0]
      <4> DEFINE S == {w \in Vms : has_vm_info[w]}
                 T == {w \in Vms : has_vm_info'[w]}
      <4>1. /\ actives[v] => T = S \cup {v}
            /\ has_vm_info[v] /\ ~actives[v] => T = S \ {v}
            /\ ~actives[v] /\ ~has_vm_info[v] => T = S
        BY <1>2, <3>2
      <4>2. vm_list = [of |-> S, blank |-> 0]
        BY <1>1
      <4> HIDE DEF S, T
      <4>3. vm_list' = [of |-> T, blank |-> 0]
        BY <3>1, <4>1, <4>2
      <4> QED BY <4>3 DEF T
    <3>5. VmOk(v)'
      BY <1>3, <1>11, <2>1, <2>2, <2>5, <3>1, <3>2 DEF VmOk
    <3> QED BY <1>1, <1>2, <1>11, <2>1, <2>2, <3>1, <3>2, <3>3, <3>4, <3>5, ListOneVm
  <2> QED BY <2>3, <2>4, <2>5
<1>12. CASE List!Info(v)
  <2>1. Has(strands[v], "info")
    BY <1>12, RunsTask DEF List!Info
  <2>2. v \in vms
    BY <1>3, <2>1 DEF Absent
  <2> QED BY <1>11, <1>12, <2>2 DEF List!Info
<1>13. CASE List!Config(v)
  BY <1>11, <1>13 DEF List!Config
<1> QED BY <1>5, <1>6, <1>7, <1>8, <1>9, <1>10, <1>12, <1>13


\* A bulk update asks every VM.
LEMMA BulkBegins ==
  ASSUME ListInv, OneThread, List!UpdateVirtualMachineInfoList
  PROVE  ListInv'
<1>1. /\ ListTypes /\ OneCallback /\ failed = {} /\ requests = Cardinality(Outstanding)
      /\ admin_list = [of |-> vms, blank |-> 0]
      /\ vm_list = [of |-> {w \in Vms : has_vm_info[w]}, blank |-> 0]
      /\ \A w \in Vms : VmOk(w)
  BY DEF ListInv
<1>2. /\ requests = 0 /\ requests' = Cardinality(vms) /\ updates' = 0
      /\ strands' = [w \in Vms |->
                       IF w \in vms THEN Append(strands[w], "bulk") ELSE strands[w]]
      /\ UNCHANGED <<vms, used, actives, ending, has_vm_info, pending, admin_list,
                     vm_list, asked, callback, failed>>
      /\ \A w \in Vms : callback[w] = List!None
  BY ListCardinality, FreeThread DEF List!UpdateVirtualMachineInfoList
<1>3. Outstanding = {} /\ vms \subseteq Vms /\ vms \in SUBSET Vms
  <2>1. Outstanding \in SUBSET Vms
    BY DEF Outstanding
  <2> QED BY <1>1, <1>2, <2>1, VmsCount DEF ListTypes
<1>4. Cardinality(vms) \in 0 .. Cardinality(Vms) /\ List!None' = List!None
  BY <1>3, VmsCount DEF List!None
<1>5. ASSUME NEW w \in Vms
      PROVE  /\ strands'[w] \in Seq(List!Tasks) /\ Orderly(strands'[w])
             /\ ~Has(strands[w], "bulk")
             /\ w \notin vms => strands'[w] = strands[w]
             /\ w \in vms => \A u : Has(strands'[w], u) <=>
                                      Has(strands[w], u) \/ u = "bulk"
  <2>1. ~Has(strands[w], "bulk")
    BY <1>3 DEF Outstanding
  <2>2. Orderly(strands[w]) /\ strands[w] \in Seq(List!Tasks) /\ "bulk" \in List!Tasks
    BY <1>1 DEF VmOk, ListTypes, List!Tasks
  <2>3. CASE w \in vms
    <3>1. strands'[w] = Append(strands[w], "bulk")
      BY <1>2, <2>3
    <3> QED BY <2>1, <2>2, <2>3, <3>1, HasAppended, OrderlyAppended
  <2>4. CASE w \notin vms
    BY <1>2, <2>1, <2>2, <2>4
  <2> QED BY <2>3, <2>4
<1>6. strands' \in [Vms -> Seq(List!Tasks)]
  BY <1>2, <1>5
<1>7. ListTypes'
  <2>1. requests' \in Nat /\ updates' \in 0 .. Cardinality(Vms)
    BY <1>2, <1>4, ListConstants
  <2> QED BY <1>1, <1>2, <1>4, <1>6, <2>1 DEF ListTypes, List!Tasks
<1>8. Outstanding' = vms
  BY <1>2, <1>3, <1>4, <1>5, <1>1 DEF Outstanding, VmOk, Absent
<1>9. Counted' = {}
  BY <1>1, <1>2, <1>3 DEF Counted, VmOk
<1>10. Cardinality({}) = 0
  BY FS_EmptySet
<1>11. OneCallback'
  BY <1>2, <1>4 DEF OneCallback
<1>12. ASSUME NEW w \in Vms PROVE VmOk(w)'
  <2>1. Orderly(strands[w])'
    BY <1>5 DEF Orderly, List!Tasks
  <2>2. VmOk(w) /\ pending[w] = "none"
    BY <1>1, <1>2 DEF VmOk
  <2>3. CASE w \in vms
    <3>1. Stale(w) => Stale(w)'
      <4>1. ~(requests > 0)
        BY <1>2
      <4>2. Has(strands[w], "info") => Has(strands'[w], "info")
        BY <1>5, <2>3
      <4> QED BY <1>2, <4>1, <4>2 DEF Stale
    <3> QED BY <1>2, <1>5, <2>1, <2>2, <2>3, <3>1 DEF VmOk
  <2>4. CASE w \notin vms
    <3>1. Absent(w)'
      BY <1>2, <1>4, <1>5, <2>2, <2>4 DEF Absent, VmOk
    <3> QED BY <1>2, <2>1, <2>2, <2>4, <3>1 DEF VmOk, Absent
  <2> QED BY <2>3, <2>4
<1> QED BY <1>1, <1>2, <1>7, <1>8, <1>9, <1>10, <1>11, <1>12 DEF ListInv

\* A VM answers a bulk update.
LEMMA BulkAnswers ==
  ASSUME ListInv, OneThread, NEW v \in Vms, List!BulkCallback(v)
  PROVE  ListInv'
<1>1. /\ ListTypes /\ OneCallback /\ failed = {} /\ requests = Cardinality(Outstanding)
      /\ requests > 0 => updates = Cardinality(Counted)
      /\ admin_list = [of |-> vms, blank |-> 0]
      /\ vm_list = [of |-> {w \in Vms : has_vm_info[w]}, blank |-> 0]
      /\ \A w \in Vms : VmOk(w)
  BY DEF ListInv
<1>2. /\ List!Run(v, "bulk") /\ updates' = IF actives[v] THEN updates + 1 ELSE updates
      /\ pending' = [pending EXCEPT ![v] = IF actives[v] THEN "both" ELSE "admin"]
      /\ callback' = [callback EXCEPT ![v] = requests]
      /\ UNCHANGED <<vms, used, actives, ending, has_vm_info, requests, admin_list,
                     vm_list, asked, failed>>
      /\ \A w \in Vms : callback[w] = List!None
  BY FreeThread DEF List!BulkCallback, List!SetVmInfo, List!Run
<1>3. /\ strands' \in [Vms -> Seq(List!Tasks)]
      /\ \A w \in Vms \ {v} : strands'[w] = strands[w]
      /\ Orderly(strands'[v])
      /\ \A u : Has(strands[v], u) <=> Has(strands'[v], u) \/ u = "bulk"
      /\ ~Has(strands'[v], "bulk")
      /\ ~Has(strands'[v], "start") /\ ~Has(strands'[v], "stop")
  BY <1>2, RunsTask
<1>4. v \in Outstanding /\ Outstanding \in SUBSET Vms /\ Counted \in SUBSET Vms
  BY <1>1, <1>3 DEF Outstanding, Counted, ListTypes
<1>5. Cardinality(Outstanding) # 0 /\ Cardinality(Outstanding) \in 0 .. Cardinality(Vms)
  BY <1>4, VmsCount
<1>6. /\ requests \in Nat /\ requests > 0 /\ requests \in 1 .. List!None
      /\ requests # List!None /\ List!None' = List!None
  <2>1. List!None' = List!None
    BY DEF List!None
  <2> QED BY <1>1, <1>5, <2>1, ListConstants
<1>7. v \in vms /\ pending[v] = "none"
  BY <1>1, <1>3, <1>6 DEF VmOk, Absent
<1>8. /\ pending' \in [Vms -> {"none", "admin", "both"}]
      /\ pending'[v] = IF actives[v] THEN "both" ELSE "admin"
      /\ \A w \in Vms \ {v} : pending'[w] = pending[w]
      /\ callback' \in [Vms -> 1 .. List!None] /\ callback'[v] = requests
      /\ \A w \in Vms \ {v} : callback'[w] = callback[w]
  BY <1>1, <1>2, <1>6 DEF ListTypes
<1>9. Outstanding' = Outstanding
  BY <1>2, <1>3, <1>4, <1>6, <1>8 DEF Outstanding
<1>10. updates' = Cardinality(Counted')
  <2>1. v \notin Counted /\ updates = Cardinality(Counted)
    BY <1>1, <1>6, <1>7 DEF Counted
  <2>2. CASE actives[v]
    <3>1. Counted' = Counted \cup {v}
      BY <1>1, <1>2, <1>7, <1>8, <2>2 DEF Counted, ListTypes
    <3> QED BY <1>2, <1>4, <2>1, <2>2, <3>1, VmsCount
  <2>3. CASE ~actives[v]
    <3>1. Counted' = Counted
      BY <1>1, <1>2, <1>7, <1>8, <2>1, <2>3 DEF Counted, ListTypes
    <3> QED BY <1>2, <2>1, <2>3, <3>1
  <2> QED BY <2>2, <2>3
<1>11. updates' \in 0 .. Cardinality(Vms)
  <2>1. Counted' \in SUBSET Vms
    BY <1>1, <1>2 DEF Counted, ListTypes
  <2> QED BY <1>10, <2>1, VmsCount
<1>12. ListTypes'
  BY <1>1, <1>2, <1>3, <1>6, <1>8, <1>11 DEF ListTypes, List!Tasks
<1>13. OneCallback'
  BY <1>2, <1>3, <1>6, <1>8 DEF OneCallback
<1>14. ASSUME NEW w \in Vms PROVE VmOk(w)'
  <2>1. CASE w # v
    BY <1>1, <1>2, <1>3, <1>8, <2>1, VmKept
  <2>2. CASE w = v
    <3>1. Orderly(strands[v])' /\ Stale(v)'
      BY <1>2, <1>3, <1>6 DEF Orderly, List!Tasks, Stale
    <3>2. VmOk(v)
      BY <1>1
    <3>3. pending'[v] # "none"
      BY <1>8
    <3> QED BY <1>2, <1>3, <1>6, <1>7, <1>8, <2>2, <3>1, <3>2, <3>3 DEF VmOk
  <2> QED BY <2>1, <2>2
<1> QED BY <1>1, <1>2, <1>9, <1>10, <1>12, <1>13, <1>14 DEF ListInv

\* The answer is counted, and the last one makes the lists anew.
LEMMA BulkEndsStep ==
  ASSUME ListInv, NEW v \in Vms, List!BulkCallbackEnds(v)
  PROVE  ListInv'
<1>1. /\ ListTypes /\ OneCallback /\ failed = {} /\ requests = Cardinality(Outstanding)
      /\ requests > 0 => updates = Cardinality(Counted)
      /\ admin_list = [of |-> vms, blank |-> 0]
      /\ vm_list = [of |-> {w \in Vms : has_vm_info[w]}, blank |-> 0]
      /\ \A w \in Vms : VmOk(w)
  BY DEF ListInv
<1>2. /\ callback[v] # List!None /\ callback' = [callback EXCEPT ![v] = List!None]
      /\ requests' = callback[v] - 1
      /\ UNCHANGED <<vms, used, actives, ending, updates, asked, strands>>
      /\ \/ callback[v] = 1 /\ List!FillLists
         \/ /\ callback[v] # 1
            /\ UNCHANGED <<has_vm_info, pending, admin_list, vm_list, failed>>
  BY DEF List!BulkCallbackEnds
<1>3. /\ callback[v] = requests /\ ~Has(strands[v], "bulk")
      /\ \A w \in Vms \ {v} : callback[w] = List!None
  BY <1>1, <1>2 DEF OneCallback
<1>4. /\ v \in Outstanding /\ Outstanding \in SUBSET Vms /\ Counted \in SUBSET Vms
      /\ vms \in SUBSET Vms /\ List!None' = List!None
  BY <1>1, <1>2 DEF Outstanding, Counted, ListTypes, List!None
<1>5. /\ Cardinality(Outstanding) # 0
      /\ Cardinality(Outstanding \ {v}) = Cardinality(Outstanding) - 1
      /\ Cardinality(Outstanding) \in 0 .. Cardinality(Vms)
  BY <1>4, VmsCount
<1>6. /\ requests \in Nat /\ requests > 0 /\ requests' \in Nat
      /\ requests' = Cardinality(Outstanding \ {v})
      /\ requests # 1 => requests' > 0
      /\ requests = 1 => requests' = 0
  BY <1>1, <1>2, <1>3, <1>5, ListConstants
<1>7. /\ callback' \in [Vms -> 1 .. List!None]
      /\ \A w \in Vms : callback'[w] = List!None
  <2>1. List!None \in 1 .. List!None
    BY ListConstants
  <2> QED BY <1>1, <1>2, <1>3, <2>1 DEF ListTypes
<1>8. Outstanding' = Outstanding \ {v}
  BY <1>2, <1>3, <1>4, <1>7 DEF Outstanding
<1>9. OneCallback'
  BY <1>4, <1>7 DEF OneCallback
<1>10. \A w \in Vms : Orderly(strands[w])'
  BY <1>1, <1>2 DEF VmOk, Orderly, List!Tasks
<1>11. v \in vms
  BY <1>1, <1>2 DEF VmOk, Absent
<1>12. CASE callback[v] # 1
  <2>1. UNCHANGED <<has_vm_info, pending, admin_list, vm_list, failed>>
    BY <1>2, <1>12
  <2>2. Counted' = Counted /\ requests' > 0
    BY <1>2, <1>3, <1>6, <1>12, <2>1 DEF Counted
  <2>3. ListTypes'
    BY <1>1, <1>2, <1>4, <1>6, <1>7, <2>1 DEF ListTypes, List!Tasks
  <2>4. ASSUME NEW w \in Vms PROVE VmOk(w)'
    <3>1. Stale(w)' /\ ~(requests' = 0)
      BY <1>6, <2>2 DEF Stale
    <3>2. w \notin vms => Absent(w)'
      BY <1>1, <1>2, <1>4, <1>7, <2>1 DEF VmOk, Absent
    <3>3. VmOk(w)
      BY <1>1
    <3> QED BY <1>2, <1>6, <1>10, <2>1, <3>1, <3>2, <3>3 DEF VmOk
  <2> QED BY <1>1, <1>2, <1>6, <1>8, <1>9, <2>1, <2>2, <2>3, <2>4 DEF ListInv
<1>13. CASE callback[v] = 1
  <2>1. requests = 1 /\ requests' = 0 /\ Outstanding \ {v} = {}
    <3>1. Outstanding \ {v} \in SUBSET Vms
      BY <1>4
    <3> QED BY <1>3, <1>6, <1>13, <3>1, VmsCount
  <2>2. \A w \in Vms : ~Has(strands[w], "bulk")
    BY <1>3, <2>1 DEF Outstanding
  <2>3. \A w \in vms : pending[w] # "none"
    BY <1>1, <1>4, <1>6, <2>2 DEF VmOk
  <2>4. /\ {w \in vms : pending[w] # "none"} = vms
        /\ {w \in vms : pending[w] = "both"} = Counted
    BY <2>3 DEF Counted
  <2>5. /\ updates = Cardinality(Counted) /\ Cardinality(vms \ vms) = 0
        /\ ~(updates > Cardinality(Counted))
    <3>1. updates = Cardinality(Counted) /\ Cardinality(Counted) \in Nat
      BY <1>1, <1>4, <1>6, VmsCount, ListConstants
    <3>2. vms \ vms = {}
      OBVIOUS
    <3> QED BY <3>1, <3>2, FS_EmptySet
  <2>6. /\ admin_list' = [of |-> vms, blank |-> 0]
        /\ vm_list' = [of |-> Counted, blank |-> 0]
        /\ has_vm_info' = [w \in Vms |->
                             IF w \in vms THEN w \in Counted ELSE has_vm_info[w]]
        /\ pending' = [w \in Vms |-> IF w \in vms THEN "none" ELSE pending[w]]
        /\ failed' = failed
    <3>1. List!FillLists
      BY <1>2, <1>13
    <3> QED BY <2>4, <2>5, <3>1, ListCardinality DEF List!FillLists
  <2>7. ASSUME NEW w \in Vms
        PROVE  /\ pending'[w] = "none" /\ has_vm_info'[w] \in BOOLEAN
               /\ has_vm_info'[w] <=> w \in Counted
               /\ has_vm_info'[w] = actives[w]
    <3>1. VmOk(w) /\ actives[w] \in BOOLEAN
      BY <1>1 DEF ListTypes
    <3>2. CASE w \in vms
      <4>1. pending[w] = IF actives[w] THEN "both" ELSE "admin"
        BY <2>3, <3>1, <3>2 DEF VmOk
      <4>2. w \in Counted <=> actives[w]
        BY <3>1, <3>2, <4>1 DEF Counted
      <4>3. pending'[w] = "none" /\ has_vm_info'[w] = (w \in Counted)
        BY <2>6, <3>2
      <4> QED BY <3>1, <4>2, <4>3
    <3>3. CASE w \notin vms
      <4>1. actives[w] = FALSE /\ has_vm_info[w] = FALSE /\ pending[w] = "none"
        BY <3>1, <3>3 DEF VmOk, Absent
      <4>2. w \notin Counted
        BY <3>3 DEF Counted
      <4>3. pending'[w] = "none" /\ has_vm_info'[w] = FALSE
        BY <2>6, <3>3, <4>1
      <4> QED BY <4>1, <4>2, <4>3
    <3> QED BY <3>2, <3>3
  <2>8. vm_list' = [of |-> {w \in Vms : has_vm_info'[w]}, blank |-> 0]
    <3>1. {w \in Vms : has_vm_info'[w]} = Counted
      BY <1>4, <2>7
    <3> QED BY <2>6, <3>1
  <2>9. ListTypes'
    <3>1. /\ pending' \in [Vms -> {"none", "admin", "both"}]
          /\ has_vm_info' \in [Vms -> BOOLEAN]
      BY <2>6, <2>7
    <3> QED BY <1>1, <1>2, <1>4, <1>6, <1>7, <3>1 DEF ListTypes, List!Tasks
  <2>10. ASSUME NEW w \in Vms PROVE VmOk(w)'
    <3>1. VmOk(w)
      BY <1>1
    <3>2. w \notin vms => Absent(w)'
      BY <1>2, <1>4, <1>7, <2>7, <3>1 DEF VmOk, Absent
    <3> QED BY <1>2, <1>10, <2>1, <2>7, <3>1, <3>2 DEF VmOk
  <2>11. ~(requests' > 0)
    BY <2>1
  <2> QED BY <1>1, <1>2, <1>6, <1>8, <1>9, <2>6, <2>8, <2>9, <2>10, <2>11 DEF ListInv
<1> QED BY <1>12, <1>13

\* At first no update is under way.
LEMMA ListInit ==
  ASSUME List!Init
  PROVE  ListInv
<1>1. /\ vms = Initial /\ used = Initial /\ ending = {} /\ asked = {}
      /\ actives = [v \in Vms |-> FALSE] /\ has_vm_info = [v \in Vms |-> FALSE]
      /\ pending = [v \in Vms |-> "none"] /\ requests = 0 /\ updates = 0
      /\ strands = [v \in Vms |-> <<>>] /\ callback = [v \in Vms |-> List!None]
      /\ admin_list = [of |-> Initial, blank |-> 0]
      /\ vm_list = [of |-> {}, blank |-> 0] /\ failed = {}
  BY DEF List!Init
<1>2. /\ <<>> \in Seq(List!Tasks) /\ \A u : ~Has(<<>>, u)
  BY DEF Has
<1>3. Orderly(<<>>)
  BY <1>2 DEF Orderly
<1>4. ListTypes
  <2>1. List!None \in 1 .. List!None /\ 0 \in 0 .. Cardinality(Vms) /\ Initial \subseteq Vms
    BY ListConstants
  <2> QED BY <1>1, <1>2, <2>1 DEF ListTypes
<1>5. Outstanding = {}
  BY <1>1, <1>2 DEF Outstanding
<1>6. requests = Cardinality(Outstanding)
  BY <1>1, <1>5, FS_EmptySet
<1>7. OneCallback
  BY <1>1 DEF OneCallback
<1>8. \A v \in Vms : VmOk(v)
  BY <1>1, <1>2, <1>3 DEF VmOk, Absent
<1>9. {v \in Vms : has_vm_info[v]} = {}
  BY <1>1
<1>10. ~(requests > 0)
  BY <1>1
<1> QED BY <1>1, <1>4, <1>6, <1>7, <1>8, <1>9, <1>10 DEF ListInv

\* Every step of the lists keeps the invariant.
LEMMA ListStep ==
  ASSUME ListInv, OneThread, Patient, [List!Next]_list_vars
  PROVE  ListInv'
<1>1. CASE UNCHANGED list_vars
  <2>1. ListTypes'
    BY <1>1 DEF ListInv, ListTypes, list_vars, List!Tasks, List!None
  <2>2. \A v \in Vms : VmOk(v)'
    BY <1>1, VmKept DEF ListInv, list_vars
  <2> QED BY <1>1, <2>1, <2>2, ListTogether DEF ListInv, list_vars, Counted
<1>2. CASE List!Next
  BY <1>2, ListAdminStep, ListVmStep, BulkBegins, BulkAnswers, BulkEndsStep
  DEF List!Next, List!VmStep
<1> QED BY <1>1, <1>2

\* A step of the whole is one of the lists, or leaves them alone.
LEMMA ListSteps == [Next]_vars => [List!Next]_list_vars
BY DEF Next, vars, list_vars

\* On one thread, with administrators that wait, the invariant always holds.
LEMMA ListAlways == OneThread /\ Patient => (Spec => []ListInv)
<1> SUFFICES ASSUME OneThread, Patient PROVE Spec => []ListInv
  OBVIOUS
<1>1. Init => ListInv
  BY ListInit DEF Init
<1>2. ListInv /\ [Next]_vars => ListInv'
  BY ListStep, ListSteps
<1> QED BY <1>1, <1>2, PTL DEF Spec

\* The assertions of the updates of the lists hold and no update meets a VM
\* that was deleted, on one thread and with administrators that wait: for any
\* number of VMs.
THEOREM ListAssertionsHold ==
  OneThread /\ Patient => (Spec => []ListAssertions)
<1> SUFFICES ASSUME OneThread, Patient PROVE Spec => []ListAssertions
  OBVIOUS
<1>1. ListInv => ListAssertions
  <2> SUFFICES ASSUME ListInv PROVE ListAssertions
    OBVIOUS
  <2>1. Outstanding \in SUBSET Vms /\ vms \subseteq Vms
    BY DEF Outstanding, ListInv, ListTypes
  <2>2. requests \in 0 .. Cardinality(Vms)
    BY <2>1, VmsCount DEF ListInv
  <2>3. admin_list \in List!Lists /\ vm_list \in List!Lists
    <3>1. 0 \in 0 .. List!Cardinality(Vms)
      BY ListConstants, ListCardinality
    <3> QED BY <2>1, <3>1 DEF ListInv, List!Lists
  <2>4. \A v \in Vms : \A i \in DOMAIN strands[v] : strands[v][i] \in List!Tasks
    BY DEF ListInv, ListTypes
  <2>5. List!TypeOK
    BY <2>2, <2>3, <2>4, ListCardinality DEF ListInv, ListTypes, List!TypeOK
  <2> QED BY <2>5 DEF ListInv, ListAssertions, List!CountIsExact,
             List!RemovedIsListed, List!NeverDangling
<1> QED BY <1>1, ListAlways, PTL

\* When nothing is being updated, viewers are shown exactly the running VMs and
\* administrators all of them, on one thread and with administrators that wait.
THEOREM ListsStayCurrent ==
  OneThread /\ Patient => (Spec => []ListsAreCurrent)
<1> SUFFICES ASSUME OneThread, Patient PROVE Spec => []ListsAreCurrent
  OBVIOUS
<1>1. ListInv => ListsAreCurrent
  <2> SUFFICES ASSUME ListInv, List!Quiet
               PROVE  /\ vm_list.of \cap vms = {v \in vms : actives[v]}
                      /\ vm_list.blank = 0
                      /\ admin_list = [of |-> vms, blank |-> 0]
    BY DEF ListsAreCurrent, List!ListsAreCurrent
  <2>1. \A v \in Vms : has_vm_info[v] = actives[v]
    BY QuietVms
  <2>2. /\ vm_list = [of |-> {v \in Vms : has_vm_info[v]}, blank |-> 0]
        /\ admin_list = [of |-> vms, blank |-> 0] /\ vms \subseteq Vms
    BY DEF ListInv, ListTypes
  <2> QED BY <2>1, <2>2
<1> QED BY <1>1, ListAlways, PTL

=============================================================================
