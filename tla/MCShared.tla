------------------------------ MODULE MCShared ------------------------------
(***************************************************************************)
(* Data that tasks of several strands work on, in one specification:       *)
(* accounts with their invites, the passwords and sessions of accounts,   *)
(* the connections of an address, the places of sockets in the turn queue  *)
(* of a VM, and the users of a channel.  As in MCVm the models share no    *)
(* variable, and a behaviour is one of a single part.                      *)
(***************************************************************************)
EXTENDS Naturals

CONSTANTS
  Parts,  \* the parts to be checked
  \* see Accounts
  Names, Empty, Invites, None, MaxUsers, Patient, MayCrash,
  \* see Sessions
  Accounts, TwoFactor, LoginSockets, Nobody, Passwords, MaxSessions,
  MaxLoginTasks, OneThread,
  \* see Admission
  AddressSockets, Limits, Wrap, MayDisable,
  \* see VmTurns
  TurnSockets, Vms, NoVm, NoSocket, MaxTurnTasks,
  \* see UserChannel
  ChannelSockets, NoName, Statuses, Prompt, MaxChannelTasks

VARIABLES
  part,
  users, invites, issued, reserved, reg, terminated,
  row, issued_sessions, sessions, user, logins, creates, changing, creating,
  told, pair,
  enabled, limit, connections, phase, seen, refused,
  connected_vm_id, closed, position, members, turn_queue, armed, tasks,
  username, connected, gone_sockets, channel_users, strand, view, status,
  writing, pending, told_status, gone

Acc == INSTANCE Accounts
Ses == INSTANCE Sessions WITH
  Sockets <- LoginSockets, MaxTasks <- MaxLoginTasks, issued <- issued_sessions
Address == INSTANCE Admission WITH Sockets <- AddressSockets
Turns == INSTANCE VmTurns WITH Sockets <- TurnSockets, MaxTasks <- MaxTurnTasks
Channel == INSTANCE UserChannel WITH
  Sockets <- ChannelSockets, MaxTasks <- MaxChannelTasks,
  closed <- gone_sockets, users <- channel_users, seen <- told_status

ASSUME PartsAssumption ==
  /\ Parts \subseteq {"accounts", "sessions", "address", "turns", "channel"}
  /\ Acc!AccountsAssumption
  /\ Ses!SessionsAssumption
  /\ Address!AdmissionAssumption
  /\ Turns!VmTurnsAssumption
  /\ Channel!UserChannelAssumption

acc_vars == <<users, invites, issued, reserved, reg, terminated>>
ses_vars == <<row, issued_sessions, sessions, user, logins, creates, changing,
              creating, told, pair>>
address_vars == <<enabled, limit, connections, phase, seen, refused>>
turns_vars == <<connected_vm_id, closed, position, members, turn_queue, armed,
                tasks>>
channel_vars == <<username, connected, gone_sockets, channel_users, strand,
                  view, status, writing, pending, told_status, gone>>
vars == <<part, acc_vars, ses_vars, address_vars, turns_vars, channel_vars>>

\* A part that is at rest has one initial state.
Init ==
  /\ part \in Parts
  /\ Acc!Init /\ Ses!Init /\ Address!Init /\ Turns!Init
  /\ Channel!Init
  /\ part = "address" \/ (enabled /\ limit = CHOOSE l \in Limits : TRUE)
  /\ part = "channel" \/
       /\ status = CHOOSE st \in Statuses : TRUE
       /\ username = [s \in ChannelSockets |-> CHOOSE n \in Names : TRUE]

Next ==
  /\ UNCHANGED part
  /\ \/ /\ part = "accounts" /\ Acc!Next
        /\ UNCHANGED <<ses_vars, address_vars, turns_vars, channel_vars>>
     \/ /\ part = "sessions" /\ Ses!Next
        /\ UNCHANGED <<acc_vars, address_vars, turns_vars, channel_vars>>
     \/ /\ part = "address" /\ Address!Next
        /\ UNCHANGED <<acc_vars, ses_vars, turns_vars, channel_vars>>
     \/ /\ part = "turns" /\ Turns!Next
        /\ UNCHANGED <<acc_vars, ses_vars, address_vars, channel_vars>>
     \/ /\ part = "channel" /\ Channel!Next
        /\ UNCHANGED <<acc_vars, ses_vars, address_vars, turns_vars>>

Spec == Init /\ [][Next]_vars

-----------------------------------------------------------------------------
(* Properties *)

\* Usernames are unique, an invite makes one account, only the first account
\* is an administrator's without an invite, and no registration meets an
\* invite that has gone.
AccountsSound ==
  /\ Acc!TypeOK /\ Acc!UniqueUsernames /\ Acc!InviteUsedOnce
  /\ Acc!OneFirstAdmin /\ Acc!NeverTerminates

\* An account has the password that was confirmed last and the newest session.
SessionsSound == Ses!TypeOK /\ Ses!PasswordSticks /\ Ses!NewestIsStored

\* A session is created only with the password the account has then.
SessionNeedsPassword == Ses!SessionNeedsPassword

\* The count of an address is that of its connections, and no more are let in
\* than a limit allowed.
ConnectionsCounted ==
  Address!TypeOK /\ Address!CountsConnections /\ Address!LimitHolds

\* Every socket's position is its index in the queue of the VM, also for
\* sockets that join twice, leave and come back.
PositionsAgree == Turns!PositionsAgree

\* The members of a channel see the users it has, under the names they have,
\* without those that have gone, and were told last what there is to be told.
ChannelSound ==
  /\ Channel!TypeOK /\ Channel!ListsAgree /\ Channel!NamesAreCurrent
  /\ Channel!NoGhosts /\ Channel!StatusIsSeen

(* Properties that are checked with other constants; see the README. *)

\* A member's client lists the users of the channel: violated unless strands
\* are free.
ListsAgree == Channel!ListsAgree

\* A member is listed under its name: violated unless strands are free.
NamesAreCurrent == Channel!NamesAreCurrent

\* A closed socket leaves the channel: violated unless strands are free.
NoGhosts == Channel!NoGhosts

\* An invite that was accepted has an account: holds without crashes.
AcceptedHasAccount == Acc!AcceptedHasAccount

\* No two accounts have the same username: violated unless administrators and
\* users wait, since the insertion that is to refuse a name that "was
\* registered after the first check" does not.
UniqueUsernames == Acc!UniqueUsernames

\* A reserved name is not registered: violated.
ReservedIsRefused == Acc!ReservedIsRefused

\* A confirmed password stays: violated with several threads.
PasswordSticks == Ses!PasswordSticks

\* No connection that has ended is counted: holds also while the limit is
\* switched on and off.
NeverOverCounts == Address!NeverOverCounts

\* The count is that of the connections: violated while the limit is switched
\* on and off.
CountsConnections == Address!CountsConnections

\* The old session that is returned is not the new one: violated.
OldSessionIsOld == Ses!OldSessionIsOld
=============================================================================
