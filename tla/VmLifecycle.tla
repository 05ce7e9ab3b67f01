---------------------------- MODULE VmLifecycle ----------------------------
(***************************************************************************)
(* A virtual machine that is started and stopped by administrators, and    *)
(* the Guacamole client that connects it: AdminVirtualMachine's Start,     *)
(* Stop, OnStart and OnStop, which run on the VM's strand, and             *)
(* GuacamoleClient, whose state_ is shared with the thread that libguac    *)
(* runs for every client.                                                  *)
(*                                                                         *)
(* The thread is known to the server by what it writes to the client's     *)
(* socket.  Its first instruction gives it a thread-specific key, whose    *)
(* destructor tells the VM of its end; its first image starts the VM.      *)
(* libguac itself is external: a thread writes something before it ends    *)
(* (guac_client_abort() reports an error before it gives up), and one that *)
(* was stopped ends.                                                       *)
(*                                                                         *)
(* Start(), Stop() and the settings are run by the strand between two of   *)
(* its other tasks; only what is posted to it by threads and timers is     *)
(* kept in `strand`, whose order matters.                                  *)
(***************************************************************************)
EXTENDS Naturals, Sequences

CONSTANTS
  MaxClients,  \* bound: clients created
  Patience     \* what administrators wait for before they start a VM again:
               \*   "none", "client": its client to be gone,
               \*   "all": also everything that is queued on its strand

\* What the constants are.
LifecycleAssumption ==
  MaxClients \in Nat /\ Patience \in {"none", "client", "all"}

VARIABLES
  active, connected,  \* VmState::active_, connected_
  state,              \* GuacamoleClient::state_
  client,             \* GuacamoleClient::client_, 0 is null
  created,            \* clients created so far; the n-th is client n
  freed,              \* clients given to guac_client_free()
  thread,             \* what each client's thread has written so far
  halted,             \* clients whose thread has been told to end
  key, keyed,         \* the key last created; the threads whose key is valid
  strand,             \* tasks posted to the VM's strand
  timer,              \* connect_delay_timer_ has a pending wait
  update, shown,      \* UpdateVmInfo() is under way; the status it last showed
  joining             \* client used by an AddUser() on a socket's send strand

vars == <<active, connected, state, client, created, freed, thread, halted,
          key, keyed, strand, timer, update, shown, joining>>
guac == <<client, created, freed, thread, halted, key, keyed>>

Clients == 1 .. MaxClients
States  == {"stopped", "starting", "running", "stopping"}
Tasks   == {"OnStart", "ThreadEnded", "timer", "aborted"}
Alive   == {"new", "known", "shown"}

\* The status of the VM in the administrators' list.
Status ==
  IF connected THEN "running" ELSE IF active THEN "starting" ELSE "stopped"

Init ==
  /\ active = FALSE /\ connected = FALSE
  /\ state = "stopped"
  /\ client = 0 /\ created = 0 /\ freed = {}
  /\ thread = [c \in Clients |-> "none"]
  /\ halted = {} /\ key = 0 /\ keyed = {}
  /\ strand = <<>> /\ timer = FALSE
  /\ update = FALSE /\ shown = "stopped"
  /\ joining = 0

-----------------------------------------------------------------------------
(* The client, called on the VM's strand. *)

\* Replacing client_ frees the client it held.
ResetClient(c) ==
  /\ client' = c
  /\ freed' = freed \cup ({client} \ {0})

StartGuacamoleClient ==
  /\ created < MaxClients
  /\ created' = created + 1
  /\ state' = "starting"
  /\ ResetClient(created + 1)
  /\ thread' = [thread EXCEPT ![created + 1] = "new"]
  /\ UNCHANGED <<halted, key, keyed>>

\* GuacamoleClient::Stop().  A client that is still starting is only marked.
StopClient ==
  /\ state' = "stopping"
  /\ halted' = IF state = "running" THEN halted \cup {client} ELSE halted
  /\ UNCHANGED <<client, created, freed, thread, key, keyed>>

-----------------------------------------------------------------------------
(* Administrators. *)

MayStart ==
  CASE Patience = "none"   -> TRUE
    [] Patience = "client" -> client = 0
    [] Patience = "all"    -> client = 0 /\ strand = <<>>

Start ==
  /\ ~active
  /\ MayStart
  /\ active' = TRUE
  /\ update' = TRUE
  /\ StartGuacamoleClient
  /\ UNCHANGED <<connected, strand, timer, shown, joining>>

\* Faulty variant: the delay goes on.
CancelDelay_Forgets == UNCHANGED <<timer, strand>>

\* Cancelling the delay queues its handler with an error.
CancelDelay ==
  /\ timer' = FALSE
  /\ strand' = IF timer THEN Append(strand, "aborted") ELSE strand

Stop ==
  /\ active
  /\ active' = FALSE
  /\ CancelDelay
  /\ StopClient
  /\ UNCHANGED <<connected, update, shown, joining>>

-----------------------------------------------------------------------------
(* Tasks of the strand. *)

Runs(task) ==
  /\ strand # <<>>
  /\ Head(strand) = task

\* AdminVirtualMachine::OnStart().
OnStart ==
  /\ Runs("OnStart")
  /\ strand' = Tail(strand)
  /\ IF active
       THEN /\ connected' = TRUE
            /\ update' = TRUE
            /\ UNCHANGED <<state, guac>>
       ELSE /\ StopClient
            /\ UNCHANGED <<connected, update>>
  /\ UNCHANGED <<active, timer, shown, joining>>

\* Faulty variant: the status is updated only for a VM that was connected.
OnStop_Silent ==
  /\ connected' = FALSE
  /\ update' = (update \/ connected)
  /\ timer' = (active \/ timer)
  /\ strand' = Tail(strand) \o
                 (IF timer /\ active THEN <<"aborted">> ELSE <<>>)

\* AdminVirtualMachine::OnStop(): an active VM is connected again after a
\* delay, which replaces one that is pending.
OnStop ==
  /\ connected' = FALSE
  /\ update' = (update \/ connected \/ ~active)
  /\ timer' = (active \/ timer)
  /\ strand' = Tail(strand) \o
                 (IF timer /\ active THEN <<"aborted">> ELSE <<>>)

\* The task posted by the destructor of the thread's key.
ThreadEnded ==
  /\ Runs("ThreadEnded")
  /\ ResetClient(0)
  /\ OnStop
  /\ UNCHANGED <<active, state, created, thread, halted, key, keyed, shown,
                 joining>>

Reconnect ==
  /\ Runs("timer") /\ active
  /\ strand' = Tail(strand)
  /\ StartGuacamoleClient
  /\ UNCHANGED <<active, connected, timer, update, shown, joining>>

GiveUpReconnect ==
  /\ Runs("aborted") \/ (Runs("timer") /\ ~active)
  /\ strand' = Tail(strand)
  /\ update' = TRUE
  /\ UNCHANGED <<active, connected, state, guac, timer, shown, joining>>

TimerExpires ==
  /\ timer
  /\ timer' = FALSE
  /\ strand' = Append(strand, "timer")
  /\ UNCHANGED <<active, connected, state, guac, update, shown, joining>>

\* UpdateVmInfo() comes back to the VM's strand for SetVmInfo().
SetVmInfo ==
  /\ update
  /\ update' = FALSE
  /\ shown' = Status
  /\ UNCHANGED <<active, connected, state, guac, strand, timer, joining>>

-----------------------------------------------------------------------------
(* The thread of client c. *)

\* The first instruction that is not a NOP creates the thread's key.
FirstInstruction(c) ==
  /\ thread[c] = "new"
  /\ thread' = [thread EXCEPT ![c] = "known"]
  /\ key' = c
  /\ keyed' = keyed \cup {c}
  /\ UNCHANGED <<active, connected, state, client, created, freed, halted,
                 strand, timer, update, shown, joining>>

\* An ERROR or DISCONNECT instruction, after which the thread ends.
ErrorInstruction(c) ==
  /\ thread[c] \in {"known", "shown"}
  /\ c \notin halted
  /\ state' = "stopping"
  /\ halted' = halted \cup {c}
  /\ UNCHANGED <<active, connected, client, created, freed, thread, key,
                 keyed, strand, timer, update, shown, joining>>

\* Faulty variant: a Stop() that came before the first image is forgotten.
FirstImage_Forgets(c) ==
  /\ thread[c] = "known"
  /\ thread' = [thread EXCEPT ![c] = "shown"]
  /\ state' = IF state = "starting" THEN "running" ELSE state
  /\ strand' = IF state = "starting" THEN Append(strand, "OnStart") ELSE strand
  /\ UNCHANGED <<active, connected, client, created, freed, halted, key,
                 keyed, timer, update, shown, joining>>

\* The first image of the screen: compare_exchange_strong() on state_.
FirstImage(c) ==
  /\ thread[c] = "known"
  /\ thread' = [thread EXCEPT ![c] = "shown"]
  /\ state' = IF state = "starting" THEN "running" ELSE state
  /\ strand' = IF state = "starting" THEN Append(strand, "OnStart") ELSE strand
  /\ halted' = IF state = "stopping" THEN halted \cup ({client} \ {0}) ELSE halted
  /\ UNCHANGED <<active, connected, client, created, freed, key, keyed, timer,
                 update, shown, joining>>

\* The thread ends, told to or because its connection broke.  Without a
\* valid key its destructor is not called.
ThreadEnds(c) ==
  /\ thread[c] \in {"known", "shown"}
  /\ thread' = [thread EXCEPT ![c] = "ended"]
  /\ IF c \in keyed
       THEN /\ keyed' = keyed \ {c, key}  \* GuacamoleThreadDestructor()
            /\ state' = "stopped"
            /\ strand' = Append(strand, "ThreadEnded")
       ELSE UNCHANGED <<keyed, state, strand>>
  /\ UNCHANGED <<active, connected, client, created, freed, halted, key, timer,
                 update, shown, joining>>

-----------------------------------------------------------------------------
(* GuacamoleClient::AddUser() for a user that joins: the batch callback of   *)
(* OnAddUser() runs on the socket's send strand.                             *)

AddUser ==
  /\ joining = 0
  /\ state = "running"
  /\ client # 0
  /\ joining' = client
  /\ UNCHANGED <<active, connected, state, guac, strand, timer, update, shown>>

AddUserDone ==
  /\ joining # 0
  /\ joining' = 0
  /\ UNCHANGED <<active, connected, state, guac, strand, timer, update, shown>>

-----------------------------------------------------------------------------
StrandTask == OnStart \/ ThreadEnded \/ Reconnect \/ GiveUpReconnect

Next ==
  \/ Start \/ Stop
  \/ OnStart \/ ThreadEnded \/ Reconnect \/ GiveUpReconnect
  \/ TimerExpires \/ SetVmInfo
  \/ \E c \in Clients :
       \/ FirstInstruction(c) \/ ErrorInstruction(c) \/ FirstImage(c)
       \/ ThreadEnds(c)
  \/ AddUser \/ AddUserDone

\* The strand's tasks and timers run.  A connection attempt leads to an image
\* or ends; a thread that was told to end does.
Fairness ==
  /\ WF_vars(StrandTask) /\ WF_vars(TimerExpires) /\ WF_vars(SetVmInfo)
  /\ \A c \in Clients :
       /\ WF_vars(FirstInstruction(c))
       /\ WF_vars(FirstImage(c) \/ (ThreadEnds(c) /\ thread[c] = "known"))
       /\ WF_vars(ThreadEnds(c) /\ c \in halted)

Spec == Init /\ [][Next]_vars /\ Fairness

-----------------------------------------------------------------------------
(* Properties. *)

\* The type of every variable.
TypeOK ==
  /\ active \in BOOLEAN /\ connected \in BOOLEAN
  /\ state \in States
  /\ created \in 0 .. MaxClients
  /\ client \in 0 .. created
  /\ freed \subseteq Clients /\ halted \subseteq Clients
  /\ keyed \subseteq Clients /\ key \in 0 .. MaxClients
  /\ thread \in [Clients -> Alive \cup {"none", "ended"}]
  /\ strand \in Seq(Tasks)
  /\ timer \in BOOLEAN /\ update \in BOOLEAN
  /\ shown \in {"stopped", "starting", "running"}
  /\ joining \in 0 .. MaxClients

\* A client is freed, by the next CreateClient() or by the task of a thread's
\* destructor, only when its own thread has ended: at most one thread runs,
\* and it is that of client_.
OneClient ==
  \A c \in Clients : thread[c] \in Alive => c = client /\ c \notin freed

\* AddUser() on a socket's send strand uses no client that the VM's strand has
\* freed meanwhile.
JoinsLiveClient == joining \notin freed

\* A VM is taken for connected only while it has a client: OnStart() and the
\* end of the thread reach the strand in this order.
ConnectedHasClient == connected => client # 0

\* What will connect an active VM again: its running thread, the task of the
\* one that has ended, the delay or its handler.
Restarter ==
  \/ \E c \in Clients : thread[c] \in Alive
  \/ timer
  \/ \E i \in 1 .. Len(strand) : strand[i] \in {"ThreadEnded", "timer"}

\* An active VM always has something that will connect it again, whatever its
\* connection does and however often it was started and stopped.
NeverStranded == active => Restarter

\* A stopped VM loses its client in the end, also one that was stopped before
\* its first image.
StoppedLosesClient == ~active ~> (client = 0 \/ active)

\* The administrators see the VM's status in the end.  Stop() itself updates
\* nothing: it leaves that to the client's end or to the aborted delay.
StatusIsShown ==
  \A s \in {"stopped", "starting", "running"} :
    (Status = s) ~> (shown = s \/ Status # s)

\* An active VM whose client has gone gets another one.
Reconnects ==
  (active /\ client = 0 /\ created < MaxClients) ~> (client # 0 \/ ~active)

=============================================================================
