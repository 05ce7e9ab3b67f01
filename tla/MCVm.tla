-------------------------------- MODULE MCVm --------------------------------
(***************************************************************************)
(* The parts of the server that follow the VMs, in one specification: the  *)
(* life of a VM and its client, its recording, what the recording takes    *)
(* in, and the list of the VMs.  Their models share no variable, so that a *)
(* behaviour here is one of a single part, named by `part`, with the       *)
(* others at rest; interleaving them would show nothing more.              *)
(***************************************************************************)
EXTENDS Naturals

CONSTANTS
  Parts,  \* the parts to be checked
  \* see VmLifecycle
  MaxClients, Patience,
  \* see Recording
  Durations, Intervals, MaxFiles, MaxReady, LateHandlers, Opens,
  \* see RecordingFilter
  Streams,
  \* see VmList
  Vms, Initial, OneThread, Patient, MaxListTasks

VARIABLES
  part,
  active, connected, state, client, created, freed, thread, halted, key,
  keyed, strand, timer, update, shown, joining,
  rec, duration, interval, vm_active, enabled, excused,
  kind, display, audio, ignored, begun, last,
  vms, used, actives, ending, has_vm_info, pending, requests, updates,
  admin_list, vm_list, asked, strands, callback, failed

Life == INSTANCE VmLifecycle
Rec == INSTANCE Recording WITH active <- vm_active
Filter == INSTANCE RecordingFilter
List == INSTANCE VmList WITH
  Capacity <- MaxListTasks, active <- actives, strand <- strands

ASSUME PartsAssumption ==
  /\ Parts \subseteq {"life", "recording", "filter", "list"}
  /\ Life!LifecycleAssumption
  /\ Rec!RecordingAssumption
  /\ List!VmListAssumption

life_vars == <<active, connected, state, client, created, freed, thread,
               halted, key, keyed, strand, timer, update, shown, joining>>
rec_vars == <<rec, duration, interval, vm_active, enabled, excused>>
filter_vars == <<kind, display, audio, ignored, begun, last>>
list_vars == <<vms, used, actives, ending, has_vm_info, pending, requests,
               updates, admin_list, vm_list, asked, strands, callback, failed>>
vars == <<part, life_vars, rec_vars, filter_vars, list_vars>>

\* A part that is at rest has one initial state.
Init ==
  /\ part \in Parts
  /\ Life!Init /\ Rec!Init /\ Filter!Init /\ List!Init
  /\ part = "recording" \/
       /\ duration = CHOOSE d \in Durations : TRUE
       /\ interval = CHOOSE i \in Intervals : TRUE
       /\ enabled
  /\ part = "filter" \/ (display /\ audio)

Next ==
  /\ UNCHANGED part
  /\ \/ /\ part = "life" /\ Life!Next
        /\ UNCHANGED <<rec_vars, filter_vars, list_vars>>
     \/ /\ part = "recording" /\ Rec!Next
        /\ UNCHANGED <<life_vars, filter_vars, list_vars>>
     \/ /\ part = "filter" /\ Filter!Next
        /\ UNCHANGED <<life_vars, rec_vars, list_vars>>
     \/ /\ part = "list" /\ List!Next
        /\ UNCHANGED <<life_vars, rec_vars, filter_vars>>

\* Every part has the fairness of its module.  That of the parts at rest asks
\* for nothing: in their initial states no task, thread or timer has a step.
Fairness == Life!Fairness /\ Rec!Fairness /\ List!Fairness

Spec == Init /\ [][Next]_vars /\ Fairness

-----------------------------------------------------------------------------
(* Properties *)

\* A VM has at most one client, whose thread outlives no client that was freed;
\* it counts as connected only with a client, and an active one always has
\* something that will connect it again.
LifecycleSound ==
  /\ Life!TypeOK /\ Life!OneClient /\ Life!ConnectedHasClient
  /\ Life!NeverStranded

\* The client follows the VM: a stopped VM loses its client in the end, and an
\* active one whose client has gone gets another one.
ClientFollowsVm == Life!StoppedLosesClient /\ Life!Reconnects

\* The administrators see the VM's status in the end.
StatusIsShown == Life!StatusIsShown

\* Recording files have a stop timer, room for their keyframes and, once they
\* are closed, a stop time in the database; an active VM is recorded.
RecordingSound ==
  /\ Rec!TypeOK /\ Rec!KeyframesFit /\ Rec!FilesAreClosed
  /\ Rec!FileIsTimed /\ Rec!ActiveIsRecorded

\* Every file ends, unless the duration was set to 0.
FilesEnd == Rec!FilesEnd

\* What is in a file was to be captured and has its beginning there.
StreamsAreWhole == Filter!StreamsAreWhole

\* The assertions of the updates of the lists hold, and no update meets a VM
\* that was deleted.
ListAssertions ==
  /\ List!TypeOK /\ List!CountIsExact /\ List!RemovedIsListed
  /\ List!NeverDangling

\* When nothing is being updated, the lists show the VMs as they are.
ListsAreCurrent == List!ListsAreCurrent

\* Every bulk update ends, so that the next one can begin.
BulkEnds == List!BulkEnds

(* Properties that are checked with other constants; see the README. *)

\* With LateHandlers FALSE and files that open, a VM is recorded only while it
\* is active and its recordings are enabled.
RecordedOnlyWhenActive == Rec!RecordedOnlyWhenActive

\* A client is freed only when its thread has ended: violated unless
\* administrators wait.
OneClient == Life!OneClient

\* A user is added to a client that is not freed meanwhile: violated.
JoinsLiveClient == Life!JoinsLiveClient

\* Images that are not to be captured leave no data in the file: violated.
DisplayFollowsSetting == Filter!DisplayFollowsSetting

\* A bulk update lists as many VMs as it counted: violated unless
\* administrators wait.
CountIsExact == List!CountIsExact

\* A VM that is removed from a list is in it: violated unless administrators
\* wait.
RemovedIsListed == List!RemovedIsListed
=============================================================================
