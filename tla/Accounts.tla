------------------------------ MODULE Accounts ------------------------------
(***************************************************************************)
(* Accounts, invites and reserved usernames, kept in the database.         *)
(* Registrations are run one at a time by the strand of the server's       *)
(* settings, in several statements without a transaction, with the hashing *)
(* of the password between them; administrators change invites and         *)
(* reserved names from the strands of their sockets, at any time.  What    *)
(* was written survives a crash.                                           *)
(*                                                                         *)
(* User.Username has no UNIQUE constraint; UserInvite.Username has one,    *)
(* and an invite for any name is stored with the empty one.                *)
(***************************************************************************)
EXTENDS Naturals, FiniteSets

CONSTANTS
  Names, Empty,    \* valid usernames, and the empty one
  Invites, None,   \* bound: ids of invites; no invite
  MaxUsers,        \* bound: accounts
  Patient,         \* administrators do nothing while someone registers and
                   \* rename no invite to a name that has an account, and
                   \* nobody registers a name that an invite is for
  MayCrash

\* What the constants are.
AccountsAssumption ==
  /\ Empty \notin Names /\ None \notin Invites
  /\ MaxUsers \in Nat
  /\ Patient \in BOOLEAN /\ MayCrash \in BOOLEAN

VARIABLES
  users,       \* rows of User, in the order of their ids
  invites,     \* rows of UserInvite
  issued,      \* ids of invites given out so far
  reserved,    \* rows of UnavailableUsername
  reg,         \* the registration under way
  terminated   \* an exception has left the I/O threads

vars == <<users, invites, issued, reserved, reg, terminated>>

AllNames == Names \cup {Empty}
User   == [id: 1 .. MaxUsers, name: AllNames, admin: BOOLEAN,
           invite: Invites \cup {None}]
Invite == [id: Invites, name: AllNames, admin: BOOLEAN, accepted: BOOLEAN]
Steps  == {"idle", "valid", "free", "admin"}

Idle == [step |-> "idle", name |-> Empty, invite |-> None, admin |-> FALSE]

Init ==
  /\ users = {} /\ invites = {} /\ issued = {} /\ reserved = {}
  /\ reg = Idle
  /\ terminated = FALSE

UserNames   == {u.name : u \in users}
InviteNames == {i.name : i \in invites}
Row(id)     == CHOOSE i \in invites : i.id = id
Exists(id)  == \E i \in invites : i.id = id

-----------------------------------------------------------------------------
(* A registration, on the strand of the settings *)

\* ValidateInvite() and the check of what the client has asked for: an invite
\* for a name comes with no name of the client's, and one for any name with a
\* name of ONE character (valid_username.empty() ^ requested_username.size()),
\* which is not used.
RegisterInvited(id, requested_size) ==
  /\ reg = Idle /\ Cardinality(users) < MaxUsers
  /\ Exists(id) /\ ~Row(id).accepted
  /\ requested_size = IF Row(id).name = Empty THEN 1 ELSE 0
  /\ reg' = [Idle EXCEPT !.step = "valid", !.name = Row(id).name,
                         !.invite = id]
  /\ UNCHANGED <<users, invites, issued, reserved, terminated>>

\* A registration without an invite, of a valid username.
Register(n) ==
  /\ reg = Idle /\ Cardinality(users) < MaxUsers
  /\ Patient => n \notin InviteNames
  /\ reg' = [Idle EXCEPT !.step = "valid", !.name = n]
  /\ UNCHANGED <<users, invites, issued, reserved, terminated>>

\* Faulty variant: an invite that was accepted already is accepted again.
AcceptInvite_Again ==
  /\ reg.step = "valid" /\ reg.invite # None
  /\ invites' = {IF i.id = reg.invite THEN [i EXCEPT !.accepted = FALSE] ELSE i
                  : i \in invites}
  /\ reg' = IF Exists(reg.invite) THEN [reg EXCEPT !.step = "free"] ELSE Idle
  /\ UNCHANGED <<users, issued, reserved, terminated>>

\* CreateAccount() marks the invite, if it is still there.
AcceptInvite ==
  LET open == {i \in invites : i.id = reg.invite /\ ~i.accepted} IN
  /\ reg.step = "valid" /\ reg.invite # None
  /\ invites' = {IF i \in open THEN [i EXCEPT !.accepted = TRUE] ELSE i
                  : i \in invites}
  /\ reg' = IF open # {} THEN [reg EXCEPT !.step = "free"] ELSE Idle
  /\ UNCHANGED <<users, issued, reserved, terminated>>

\* CreateAccount() without an invite looks the name up.  The statement compares
\* it with the names of accounts, reserved names and invites, but only its
\* first parameter is bound: the other two are NULL, which equals no name.
CheckUsername ==
  /\ reg.step = "valid" /\ reg.invite = None
  /\ reg' = IF reg.name \in UserNames
            THEN Idle ELSE [reg EXCEPT !.step = "free"]
  /\ UNCHANGED <<users, invites, issued, reserved, terminated>>

\* After the password was hashed: the first account is an administrator's, an
\* invited one if the invite says so.  The invite's row must still be there:
\* sqlite throws errors::no_rows, which nobody catches.
SelectIsAdmin ==
  LET found == reg.invite = None \/ Exists(reg.invite) IN
  /\ reg.step = "free"
  /\ reg' = IF found
            THEN [reg EXCEPT !.step = "admin",
                             !.admin = IF reg.invite = None THEN users = {}
                                       ELSE Row(reg.invite).admin]
            ELSE Idle
  /\ terminated' = (terminated \/ ~found)
  /\ UNCHANGED <<users, invites, issued, reserved>>

CreateUser ==
  /\ reg.step = "admin"
  /\ users' = users \cup {[id |-> Cardinality(users) + 1, name |-> reg.name,
                           admin |-> reg.admin, invite |-> reg.invite]}
  /\ reg' = Idle
  /\ UNCHANGED <<invites, issued, reserved, terminated>>

\* The server crashes and is started again.
Crash ==
  /\ MayCrash
  /\ reg' = Idle
  /\ UNCHANGED <<users, invites, issued, reserved, terminated>>

-----------------------------------------------------------------------------
(* Administrators *)

MayChange == Patient => reg = Idle

\* The name has no account and, by the table's constraint, no invite.
CreateInvite(id, n, admin) ==
  /\ MayChange /\ id \notin issued
  /\ n # Empty => n \notin UserNames
  /\ n \notin InviteNames
  /\ issued' = issued \cup {id}
  /\ invites' = invites \cup {[id |-> id, name |-> n, admin |-> admin,
                               accepted |-> FALSE]}
  /\ UNCHANGED <<users, reserved, reg, terminated>>

\* An exception of the constraint closes the administrator's socket; accounts
\* are not looked up.
UpdateInvite(id, n, admin) ==
  /\ MayChange /\ (Patient => n \notin UserNames)
  /\ Exists(id)
  /\ \A i \in invites : i.name = n => i.id = id
  /\ invites' = {IF i.id = id THEN [i EXCEPT !.name = n, !.admin = admin]
                 ELSE i : i \in invites}
  /\ UNCHANGED <<users, issued, reserved, reg, terminated>>

DeleteInvite(id) ==
  /\ MayChange
  /\ Exists(id)
  /\ invites' = {i \in invites : i.id # id}
  /\ UNCHANGED <<users, issued, reserved, reg, terminated>>

CreateReservedUsername(n) ==
  /\ MayChange
  /\ reserved' = reserved \cup {n}
  /\ UNCHANGED <<users, invites, issued, reg, terminated>>

DeleteReservedUsername(n) ==
  /\ MayChange
  /\ reserved' = reserved \ {n}
  /\ UNCHANGED <<users, invites, issued, reg, terminated>>

-----------------------------------------------------------------------------
RegStep == AcceptInvite \/ CheckUsername \/ SelectIsAdmin \/ CreateUser

Next ==
  \/ RegStep \/ Crash
  \/ \E id \in Invites :
       \/ \E size \in 0 .. 2 : RegisterInvited(id, size)
       \/ DeleteInvite(id)
       \/ \E n \in AllNames, admin \in BOOLEAN :
            CreateInvite(id, n, admin) \/ UpdateInvite(id, n, admin)
  \/ \E n \in Names :
       Register(n) \/ CreateReservedUsername(n) \/ DeleteReservedUsername(n)

Spec == Init /\ [][Next]_vars

-----------------------------------------------------------------------------
(* Properties *)

\* The type of every variable; an invite's id and name are its own.
TypeOK ==
  /\ users \subseteq User /\ invites \subseteq Invite
  /\ \A i, j \in invites : i.id = j.id \/ i.name = j.name => i = j
  /\ issued \subseteq Invites /\ reserved \subseteq Names
  /\ reg \in [step: Steps, name: AllNames, invite: Invites \cup {None},
              admin: BOOLEAN]
  /\ terminated \in BOOLEAN

\* No two accounts have the same username: GetUser() finds one row, and the
\* password of one account would be of no use ("The username was registered
\* after the first check" is to be refused).
UniqueUsernames ==
  \A u, v \in users : u.name = v.name /\ u.name # Empty => u = v

\* An invite is good for one account, whatever happens in between.
InviteUsedOnce ==
  \A u, v \in users : u.invite = v.invite /\ u.invite # None => u = v

\* Only the first account is an administrator's without an invite.
OneFirstAdmin ==
  \A u \in users : u.admin /\ u.invite = None => u.id = 1

\* An invite that is marked as accepted has an account, unless it is being
\* made: no invite is used up in vain.
AcceptedHasAccount ==
  \A i \in invites : i.accepted /\ reg.invite # i.id
    => \E u \in users : u.invite = i.id

\* A name that an administrator has reserved is not registered ("check if the
\* username is available").
ReservedIsRefused ==
  [][\A u \in users' \ users : u.invite = None => u.name \notin reserved]_vars

\* No registration meets an invite that has been deleted under it, which would
\* end the server.
NeverTerminates == ~terminated
=============================================================================
