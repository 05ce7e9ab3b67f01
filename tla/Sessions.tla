------------------------------ MODULE Sessions ------------------------------
(***************************************************************************)
(* Logins, password changes and login sessions.  Passwords are checked and *)
(* changed on the login strand, sessions are created on the strand of the  *)
(* map of sessions.  Both read the whole row of the account, work on the   *)
(* copy and write the whole row back (GetUser, UpdateUser), in two         *)
(* statements with no transaction around them.                             *)
(***************************************************************************)
EXTENDS Naturals, Sequences, SequencesExt

CONSTANTS
  Accounts, TwoFactor, \* accounts, and those with a TOTP key
  Sockets, Nobody,     \* sockets; "not logged in"
  Passwords, None,     \* passwords; "no row", "no operation"
  MaxSessions,         \* bound: sessions created
  MaxTasks,            \* bound: tasks waiting for the login strand
  OneThread            \* the server was started with a single I/O thread

\* What the constants are.
SessionsAssumption ==
  /\ TwoFactor \subseteq Accounts
  /\ Nobody \notin Accounts /\ None \notin Passwords
  /\ MaxSessions \in Nat /\ MaxTasks \in Nat
  /\ OneThread \in BOOLEAN

VARIABLES
  row,        \* of each account: password_hash and session_id (0: NULL)
  issued,     \* sessions created so far
  sessions,   \* sessions_: the socket of every session id
  user,       \* of each socket: the account it is logged in to
  logins,     \* tasks posted to login_strand_
  creates,    \* tasks dispatched to the strand of sessions_
  changing,   \* the copy of a row ChangePassword() is working on
  creating,   \* the copy of a row CreateSession() is working on
  told,       \* of each account: the password the server confirmed last
  pair        \* what CreateSession() returned last: old and new session id

vars == <<row, issued, sessions, user, logins, creates, changing, creating,
          told, pair>>

Row    == [hash: Passwords \cup {None}, session: 0 .. MaxSessions]
Login  == [kind: {"login"}, socket: Sockets, account: Accounts,
           password: Passwords]
Change == [kind: {"change"}, socket: Sockets, account: Accounts,
           old: Passwords, new: Passwords]
Create == [socket: Sockets, account: Accounts, password: Passwords]
Idle   == [account |-> Nobody]

Init ==
  /\ row = [a \in Accounts |-> [hash |-> None, session |-> 0]]
  /\ issued = 0 /\ sessions = <<>>
  /\ user = [s \in Sockets |-> Nobody]
  /\ logins = <<>> /\ creates = <<>>
  /\ changing = Idle /\ creating = Idle
  /\ told = [a \in Accounts |-> None]
  /\ pair = [old |-> 0, new |-> 0]

\* With one thread a dispatched task runs before dispatch() returns, and no
\* other task runs before it is done.
Free == OneThread => creates = <<>> /\ creating = Idle /\ changing = Idle

-----------------------------------------------------------------------------
(* Messages of clients *)

LoginRequest(s, a, p) ==
  /\ Free /\ Len(logins) < MaxTasks
  /\ logins' = Append(logins, [kind |-> "login", socket |-> s, account |-> a,
                               password |-> p])
  /\ UNCHANGED <<row, issued, sessions, user, creates, changing, creating,
                 told, pair>>

\* The account is the one of the socket's name when the request is handled.
ChangePasswordRequest(s, old, new) ==
  /\ Free /\ Len(logins) < MaxTasks
  /\ user[s] # Nobody
  /\ logins' = Append(logins, [kind |-> "change", socket |-> s,
                               account |-> user[s], old |-> old, new |-> new])
  /\ UNCHANGED <<row, issued, sessions, user, creates, changing, creating,
                 told, pair>>

\* CreateAccount() has succeeded, see module Accounts: a session follows.
Registered(s, a, p) ==
  /\ Free /\ row[a].hash = None
  /\ row' = [row EXCEPT ![a].hash = p]
  /\ told' = [told EXCEPT ![a] = p]
  /\ creates' = Append(creates, [socket |-> s, account |-> a, password |-> p])
  /\ UNCHANGED <<issued, sessions, user, logins, changing, creating, pair>>

-----------------------------------------------------------------------------
(* The login strand *)

\* Faulty variant: the hashes are not compared.
RunLogin_AnyPassword ==
  LET t == Head(logins) IN
  /\ Free /\ changing = Idle
  /\ logins # <<>> /\ t.kind = "login"
  /\ logins' = Tail(logins)
  /\ creates' = IF row[t.account].hash # None /\ t.account \notin TwoFactor
                THEN Append(creates, [socket |-> t.socket,
                                      account |-> t.account,
                                      password |-> t.password])
                ELSE creates
  /\ UNCHANGED <<row, issued, sessions, user, changing, creating, told, pair>>

\* Database::Login(): the row is read once and the hashes are compared; an
\* account with a TOTP key gets no session, now or later.
RunLogin ==
  LET t == Head(logins) IN
  /\ Free /\ changing = Idle
  /\ logins # <<>> /\ t.kind = "login"
  /\ logins' = Tail(logins)
  /\ creates' = IF row[t.account].hash = t.password
                   /\ t.account \notin TwoFactor
                THEN Append(creates, [socket |-> t.socket,
                                      account |-> t.account,
                                      password |-> t.password])
                ELSE creates
  /\ UNCHANGED <<row, issued, sessions, user, changing, creating, told, pair>>

\* ChangePassword(): GetUser() and the comparison with the old password.
ReadForChange ==
  LET t == Head(logins) IN
  /\ Free /\ changing = Idle
  /\ logins # <<>> /\ t.kind = "change"
  /\ logins' = Tail(logins)
  /\ changing' = IF row[t.account].hash = t.old
                 THEN [account |-> t.account, new |-> t.new,
                       row |-> row[t.account]]
                 ELSE Idle
  /\ UNCHANGED <<row, issued, sessions, user, creates, creating, told, pair>>

\* Faulty variant: the copy is written back as it was read.
WriteChange_OldHash ==
  /\ changing # Idle
  /\ row' = [row EXCEPT ![changing.account] = changing.row]
  /\ told' = [told EXCEPT ![changing.account] = changing.new]
  /\ changing' = Idle
  /\ UNCHANGED <<issued, sessions, user, logins, creates, creating, pair>>

\* ChangePassword(): UpdateUser(), after the new password was hashed, and the
\* response to the client.
WriteChange ==
  /\ changing # Idle
  /\ row' = [row EXCEPT ![changing.account] =
               [changing.row EXCEPT !.hash = changing.new]]
  /\ told' = [told EXCEPT ![changing.account] = changing.new]
  /\ changing' = Idle
  /\ UNCHANGED <<issued, sessions, user, logins, creates, creating, pair>>

-----------------------------------------------------------------------------
(* The strand of sessions_ *)

\* Database::CreateSession(): GetUser().
ReadForCreate ==
  LET t == Head(creates) IN
  /\ creating = Idle
  /\ creates # <<>> /\ issued < MaxSessions
  /\ creates' = Tail(creates)
  /\ creating' = [account |-> t.account, socket |-> t.socket,
                  password |-> t.password, row |-> row[t.account]]
  /\ UNCHANGED <<row, issued, sessions, user, logins, changing, told, pair>>

\* UpdateUser() with a new id, then is_logged_in_, SetUserData() and
\* SetSessionId().  Ids are random; a new one differs from all before it.
\* What is looked up as the old id, to have its socket's session invalidated,
\* is the new one.
WriteCreate ==
  LET id == issued + 1 IN
  /\ creating # Idle
  /\ issued' = id
  /\ row' = [row EXCEPT ![creating.account] =
               [creating.row EXCEPT !.session = id]]
  /\ pair' = [old |-> id, new |-> id]
  /\ user' = [user EXCEPT ![creating.socket] = creating.account]
  /\ sessions' = Append(sessions, creating.socket)
  /\ creating' = Idle
  /\ UNCHANGED <<logins, creates, changing, told>>

-----------------------------------------------------------------------------
Next ==
  \/ RunLogin \/ ReadForChange \/ WriteChange \/ ReadForCreate \/ WriteCreate
  \/ \E s \in Sockets, p \in Passwords :
       \/ \E a \in Accounts : LoginRequest(s, a, p) \/ Registered(s, a, p)
       \/ \E new \in Passwords : ChangePasswordRequest(s, p, new)

Spec == Init /\ [][Next]_vars

-----------------------------------------------------------------------------
(* Properties *)

\* The type of every variable; a session id is stored for one account.
TypeOK ==
  /\ row \in [Accounts -> Row]
  /\ \A a, b \in Accounts :
       row[a].session = row[b].session => a = b \/ row[a].session = 0
  /\ issued \in 0 .. MaxSessions
  /\ sessions \in [1 .. issued -> Sockets]
  /\ user \in [Sockets -> Accounts \cup {Nobody}]
  /\ logins \in Seq(Login \cup Change) /\ creates \in Seq(Create)
  /\ changing \in {Idle} \cup [account: Accounts, new: Passwords, row: Row]
  /\ creating \in {Idle} \cup [account: Accounts, socket: Sockets,
                               password: Passwords, row: Row]
  /\ told \in [Accounts -> Passwords \cup {None}]

\* A password change that was confirmed is not undone by a session that was
\* being created: the account's password is the one the server confirmed last.
PasswordSticks == \A a \in Accounts : row[a].hash = told[a]

\* The id stored with an account is its newest session: of all sessions of the
\* sockets logged in to it, none is newer.
NewestIsStored ==
  \A a \in Accounts, s \in Sockets : user[s] = a =>
    \/ row[a].session > 0 /\ sessions[row[a].session] = s
    \/ \A id \in DOMAIN sessions : sessions[id] = s => id < row[a].session

\* A session is created only with the password the account has then, even
\* though it was checked in an earlier task.
SessionNeedsPassword ==
  [][\A a \in Accounts : row'[a].session # row[a].session
       => row[a].hash = creating.password]_vars

\* What CreateSession() returns as the old session is not the new one.
OldSessionIsOld == pair.new # 0 => pair.old # pair.new
=============================================================================
