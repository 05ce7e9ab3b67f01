------------------------------- MODULE VmList -------------------------------
(***************************************************************************)
(* The lists of virtual machines that viewers and administrators are sent: *)
(* VirtualMachinesList of CollabVmServer.  A timer starts a bulk update,   *)
(* which asks every VM for its information; a change of one VM updates its *)
(* entries alone.                                                          *)
(*                                                                         *)
(* The list has a strand, and each VM has one.  What a VM answers is given *)
(* to a callback that was made by StrandGuard::wrap(), and a wrapped       *)
(* handler that is called as a function runs where it is called: on the    *)
(* VM's strand, and not on the list's.  With several I/O threads the       *)
(* callbacks of two VMs therefore run at the same time, and share the      *)
(* counters of the bulk update without a lock.  The number of threads is   *)
(* an option of the server.                                                *)
(*                                                                         *)
(* A list message is kept as the set of the VMs it has an entry for and    *)
(* the number of its entries that were never filled in.                    *)
(***************************************************************************)
EXTENDS Naturals, Sequences, FiniteSets

CONSTANTS
  Vms, Initial,  \* VMs; the ones in the database when the server starts
  OneThread,     \* the server runs with --threads 1
  Patient,       \* administrators change a VM only while nothing is updated,
                 \* and delete one only when it is stopped
  Capacity       \* bound: tasks waiting on a VM's strand

\* What the constants are.
VmListAssumption ==
  /\ IsFiniteSet(Vms) /\ Initial \subseteq Vms
  /\ OneThread \in BOOLEAN /\ Patient \in BOOLEAN
  /\ Capacity \in Nat

VARIABLES
  vms, used,       \* keys of admin_virtual_machines_; ids given out so far
  active,          \* VmState::active_ of each VM
  ending,          \* VMs that were stopped and whose client's thread still runs
  has_vm_info,     \* AdminVm::has_vm_info
  pending,         \* AdminVm's pending information: "none", "admin" or "both"
  requests,        \* pending_vm_info_requests_
  updates,         \* pending_vm_info_updates_
  admin_list,      \* admin_vm_info_list_: [of: entries, blank: unfilled ones]
  vm_list,         \* vm_info_list_, as admin_list
  asked,           \* VMs with an UpdateVmInfo() task on the list's strand
  strand,          \* tasks on each VM's strand
  callback,        \* the requests a running bulk callback has read, or None
  failed           \* assertions that did not hold

vars == <<vms, used, active, ending, has_vm_info, pending, requests, updates,
          admin_list, vm_list, asked, strand, callback, failed>>

None  == Cardinality(Vms) + 1
Tasks == {"start", "stop", "config", "info", "bulk"}
Lists == [of: SUBSET Vms, blank: 0 .. Cardinality(Vms)]

Init ==
  /\ vms = Initial /\ used = Initial
  /\ active = [v \in Vms |-> FALSE] /\ ending = {}
  /\ has_vm_info = [v \in Vms |-> FALSE]
  /\ pending = [v \in Vms |-> "none"]
  /\ requests = 0 /\ updates = 0
  /\ admin_list = [of |-> Initial, blank |-> 0]
  /\ vm_list = [of |-> {}, blank |-> 0]
  /\ asked = {}
  /\ strand = [v \in Vms |-> <<>>]
  /\ callback = [v \in Vms |-> None]
  /\ failed = {}

-----------------------------------------------------------------------------
(* Helpers *)

\* A thread is free to run another task.
Free == OneThread => \A v \in Vms : callback[v] = None

\* No update is under way.
Quiet ==
  /\ requests = 0
  /\ asked = {} /\ ending = {}
  /\ \A v \in Vms : \A i \in DOMAIN strand[v] : strand[v][i] = "config"

\* Administrators may change VMs (a choice of theirs, not of the code).
MayChange == Free /\ (Patient => Quiet)

Dispatch(v, task) ==
  /\ Len(strand[v]) < Capacity
  /\ strand' = [strand EXCEPT ![v] = Append(@, task)]

\* v's strand, which runs one task at a time, runs this one.
Run(v, task) ==
  /\ Free /\ callback[v] = None
  /\ strand[v] # <<>> /\ Head(strand[v]) = task
  /\ strand' = [strand EXCEPT ![v] = Tail(@)]

\* ResizableList::RemoveFirst() makes a list that is shorter by one, and
\* asserts that one element was left out.
RemoveFirst(list, v) == [list EXCEPT !.of = @ \ {v}]
RemovesOne(list, v)  == IF v \in list.of THEN {} ELSE {"RemoveFirst"}

-----------------------------------------------------------------------------
(* The list's strand: administrators' messages, the timer and UpdateVmInfo. *)

CreateVm(v) ==
  /\ MayChange /\ v \notin used
  /\ used' = used \cup {v} /\ vms' = vms \cup {v}
  /\ admin_list' = [admin_list EXCEPT !.of = @ \cup {v}]
  /\ UNCHANGED <<active, ending, has_vm_info, pending, requests, updates,
                 vm_list, asked, strand, callback, failed>>

\* An id may be given out again by GetNewVmId(), when the VM with the largest
\* one has been deleted; it is another VM here.  Tasks that the deleted one has
\* left would find the new one, and do what UpdateVmConfig() does at any time.
\* The entry in the viewers' list stays until the next bulk update (and for
\* good when no VM is left, as an update of no VM does not end).
RemoveAdminVirtualMachine(v) ==
  /\ MayChange /\ v \in vms
  /\ Patient => ~active[v]
  /\ Dispatch(v, "stop")
  /\ vms' = vms \ {v}
  /\ admin_list' = RemoveFirst(admin_list, v)
  /\ failed' = failed \cup RemovesOne(admin_list, v)
  /\ UNCHANGED <<used, active, ending, has_vm_info, pending, requests,
                 updates, vm_list, asked, callback>>

StartVm(v) ==
  /\ MayChange /\ v \in vms
  /\ Dispatch(v, "start")
  /\ UNCHANGED <<vms, used, active, ending, has_vm_info, pending, requests,
                 updates, admin_list, vm_list, asked, callback, failed>>

StopVm(v) ==
  /\ MayChange /\ v \in vms
  /\ Dispatch(v, "stop")
  /\ UNCHANGED <<vms, used, active, ending, has_vm_info, pending, requests,
                 updates, admin_list, vm_list, asked, callback, failed>>

UpdateVmConfig(v) ==
  /\ Free /\ v \in vms
  /\ Dispatch(v, "config")
  /\ UNCHANGED <<vms, used, active, ending, has_vm_info, pending, requests,
                 updates, admin_list, vm_list, asked, callback, failed>>

\* The timer's handler.
UpdateVirtualMachineInfoList ==
  /\ Free
  /\ requests = 0
  /\ \A v \in vms : Len(strand[v]) < Capacity
  /\ requests' = Cardinality(vms) /\ updates' = 0
  /\ strand' = [v \in Vms |->
                  IF v \in vms THEN Append(strand[v], "bulk") ELSE strand[v]]
  /\ UNCHANGED <<vms, used, active, ending, has_vm_info, pending, admin_list,
                 vm_list, asked, callback, failed>>

\* UpdateVmInfo()'s task asks the VM.
UpdateVmInfo(v) ==
  /\ Free /\ v \in asked
  /\ Dispatch(v, "info")
  /\ asked' = asked \ {v}
  /\ UNCHANGED <<vms, used, active, ending, has_vm_info, pending, requests,
                 updates, admin_list, vm_list, callback, failed>>

-----------------------------------------------------------------------------
(* A VM's strand *)

Start(v) ==
  /\ Run(v, "start")
  /\ active' = [active EXCEPT ![v] = TRUE]
  /\ asked' = IF active[v] THEN asked ELSE asked \cup {v}
  /\ UNCHANGED <<vms, used, ending, has_vm_info, pending, requests, updates,
                 admin_list, vm_list, callback, failed>>

Stop(v) ==
  /\ Run(v, "stop")
  /\ active' = [active EXCEPT ![v] = FALSE]
  /\ ending' = IF active[v] THEN ending \cup {v} ELSE ending
  /\ UNCHANGED <<vms, used, has_vm_info, pending, requests, updates,
                 admin_list, vm_list, asked, callback, failed>>

\* The client's thread has ended.  What that does to a VM that was deleted,
\* whose object is gone, is undefined: it asks for an update, or nothing.
OnStop(v) ==
  /\ Free /\ callback[v] = None
  /\ v \in ending
  /\ ending' = ending \ {v}
  /\ \/ asked' = IF active[v] THEN asked ELSE asked \cup {v}
     \/ v \notin vms /\ UNCHANGED asked
  /\ UNCHANGED <<vms, used, active, has_vm_info, pending, requests, updates,
                 admin_list, vm_list, strand, callback, failed>>

\* An active VM is connected or disconnected: OnStart(), OnStop().
Connection(v) ==
  /\ Free /\ callback[v] = None
  /\ v \in vms /\ active[v]
  /\ asked' = asked \cup {v}
  /\ UNCHANGED <<vms, used, active, ending, has_vm_info, pending, requests,
                 updates, admin_list, vm_list, strand, callback, failed>>

\* What SetVmInfo() gives to its callback.
SetVmInfo(v) == IF active[v] THEN "both" ELSE "admin"

\* Faulty variant: a VM that stops keeps its entry.
UpdateVirtualMachineInfo_Keeps(v) ==
  IF pending[v] # "none"
  THEN /\ pending' = [pending EXCEPT ![v] = SetVmInfo(v)]
       /\ UNCHANGED <<has_vm_info, vm_list, failed>>
  ELSE /\ has_vm_info' = [has_vm_info EXCEPT ![v] = active[v]]
       /\ vm_list' = IF active[v] THEN [vm_list EXCEPT !.of = @ \cup {v}]
                                  ELSE vm_list
       /\ UNCHANGED <<pending, failed>>

\* Faulty variant: has_vm_info is not reset when the entry is removed.
UpdateVirtualMachineInfo_KeepsFlag(v) ==
  IF pending[v] # "none"
  THEN /\ pending' = [pending EXCEPT ![v] = SetVmInfo(v)]
       /\ UNCHANGED <<has_vm_info, vm_list, failed>>
  ELSE /\ has_vm_info' = [has_vm_info EXCEPT ![v] = @ \/ active[v]]
       /\ vm_list' = CASE active[v] -> [vm_list EXCEPT !.of = @ \cup {v}]
                       [] has_vm_info[v] /\ ~active[v] -> RemoveFirst(vm_list, v)
                       [] OTHER -> vm_list
       /\ failed' = IF has_vm_info[v] /\ ~active[v]
                    THEN failed \cup RemovesOne(vm_list, v) ELSE failed
       /\ UNCHANGED pending

\* The callback of UpdateVirtualMachineInfo(), for a VM that still exists.
UpdateVirtualMachineInfo(v) ==
  IF pending[v] # "none"
  THEN /\ pending' = [pending EXCEPT ![v] = SetVmInfo(v)]
       /\ UNCHANGED <<has_vm_info, vm_list, failed>>
  ELSE /\ has_vm_info' = [has_vm_info EXCEPT ![v] = active[v]]
       /\ vm_list' = CASE active[v] -> [vm_list EXCEPT !.of = @ \cup {v}]
                       [] has_vm_info[v] /\ ~active[v] -> RemoveFirst(vm_list, v)
                       [] OTHER -> vm_list
       /\ failed' = IF has_vm_info[v] /\ ~active[v]
                    THEN failed \cup RemovesOne(vm_list, v) ELSE failed
       /\ UNCHANGED pending

\* The callback of a VM that has been deleted dereferences a null pointer.
Info(v) ==
  /\ Run(v, "info")
  /\ IF v \in vms
     THEN UpdateVirtualMachineInfo(v)
     ELSE /\ failed' = failed \cup {"null"}
          /\ UNCHANGED <<has_vm_info, pending, vm_list>>
  /\ UNCHANGED <<vms, used, active, ending, requests, updates, admin_list,
                 asked, callback>>

\* UpdateSettings() and its continuation, which looks the VM up again.
Config(v) ==
  /\ Run(v, "config")
  /\ \/ v \in vms /\ UpdateVirtualMachineInfo(v)
     \/ v \notin vms /\ UNCHANGED <<has_vm_info, pending, vm_list, failed>>
  /\ UNCHANGED <<vms, used, active, ending, requests, updates, admin_list,
                 asked, callback>>

\* Faulty variant: the VM answers only while it is active.
BulkCallback_ActiveOnly(v) ==
  /\ Run(v, "bulk")
  /\ updates' = IF active[v] THEN updates + 1 ELSE updates
  /\ pending' = IF active[v] THEN [pending EXCEPT ![v] = SetVmInfo(v)]
                 ELSE pending
  /\ callback' = IF active[v] THEN [callback EXCEPT ![v] = requests]
                  ELSE callback
  /\ UNCHANGED <<vms, used, active, ending, has_vm_info, requests, admin_list,
                 vm_list, asked, failed>>

\* The callback of a bulk update begins: it counts and keeps the information
\* and reads pending_vm_info_requests_, to decrement it.
BulkCallback(v) ==
  /\ Run(v, "bulk")
  /\ updates' = IF active[v] THEN updates + 1 ELSE updates
  /\ pending' = [pending EXCEPT ![v] = SetVmInfo(v)]
  /\ callback' = [callback EXCEPT ![v] = requests]
  /\ UNCHANGED <<vms, used, active, ending, has_vm_info, requests, admin_list,
                 vm_list, asked, failed>>

\* The lists are made anew, of the sizes that were counted.
FillLists ==
  LET informed == {v \in vms : pending[v] # "none"}
      running  == {v \in vms : pending[v] = "both"}
  IN /\ admin_list' = [of |-> informed, blank |-> Cardinality(vms \ informed)]
     /\ vm_list' = [of |-> running,
                    blank |-> IF updates > Cardinality(running)
                              THEN updates - Cardinality(running) ELSE 0]
     /\ has_vm_info' = [v \in Vms |->
                          IF v \in vms THEN v \in running ELSE has_vm_info[v]]
     /\ pending' = [v \in Vms |-> IF v \in vms THEN "none" ELSE pending[v]]
     /\ failed' = IF updates = Cardinality(running) THEN failed
                  ELSE failed \cup {"index"}

\* It writes the decremented number back, and the last one fills the lists.
BulkCallbackEnds(v) ==
  /\ callback[v] # None
  /\ callback' = [callback EXCEPT ![v] = None]
  /\ requests' = callback[v] - 1
  /\ \/ callback[v] = 1 /\ FillLists
     \/ callback[v] # 1
        /\ UNCHANGED <<has_vm_info, pending, admin_list, vm_list, failed>>
  /\ UNCHANGED <<vms, used, active, ending, updates, asked, strand>>

-----------------------------------------------------------------------------
VmStep(v) ==
  \/ Start(v) \/ Stop(v) \/ OnStop(v) \/ Info(v) \/ Config(v)
  \/ BulkCallback(v) \/ BulkCallbackEnds(v)

Next ==
  \/ UpdateVirtualMachineInfoList
  \/ \E v \in Vms :
       \/ CreateVm(v) \/ RemoveAdminVirtualMachine(v)
       \/ StartVm(v) \/ StopVm(v) \/ UpdateVmConfig(v)
       \/ UpdateVmInfo(v) \/ Connection(v) \/ VmStep(v)

\* The I/O threads run what is on the strands.
Fairness ==
  \A v \in Vms : WF_vars(VmStep(v)) /\ WF_vars(UpdateVmInfo(v))

Spec == Init /\ [][Next]_vars /\ Fairness

-----------------------------------------------------------------------------
(* Properties *)

\* The type of every variable; a bulk update has no more callbacks to come
\* than VMs, and a list no more entries (a list of more would be indexed out
\* of its bounds).
TypeOK ==
  /\ vms \subseteq used /\ used \subseteq Vms
  /\ active \in [Vms -> BOOLEAN] /\ has_vm_info \in [Vms -> BOOLEAN]
  /\ ending \subseteq Vms /\ asked \subseteq Vms
  /\ pending \in [Vms -> {"none", "admin", "both"}]
  /\ requests \in 0 .. Cardinality(Vms) /\ updates \in 0 .. Cardinality(Vms)
  /\ admin_list \in Lists /\ vm_list \in Lists
  /\ \A v \in Vms : \A i \in DOMAIN strand[v] : strand[v][i] \in Tasks
  /\ callback \in [Vms -> 1 .. None]
  /\ failed \subseteq {"index", "RemoveFirst", "null"}

\* assert(vm_info_list_index == vm_info_list_.GetList().size()): as many VMs
\* have information when a bulk update ends as were counted on its way.
CountIsExact == "index" \notin failed

\* assert(j == vm_list.size()) of RemoveFirst(): what is removed from a list
\* is in it, once.
RemovedIsListed == "RemoveFirst" \notin failed

\* No callback is left for a VM that was deleted: it would dereference the
\* null pointer that admin_virtual_machines_[vm_id] makes.
NeverDangling == "null" \notin failed

\* When nothing is being updated, viewers are shown exactly the running VMs
\* (a deleted one until the next bulk update) and administrators all of them.
ListsAreCurrent ==
  Quiet => /\ vm_list.of \cap vms = {v \in vms : active[v]}
           /\ vm_list.blank = 0
           /\ admin_list = [of |-> vms, blank |-> 0]

\* Every bulk update ends, so that the next one can begin ("An update is
\* already pending").
BulkEnds == requests > 0 ~> requests = 0
=============================================================================
