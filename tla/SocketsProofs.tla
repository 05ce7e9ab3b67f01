--------------------------- MODULE SocketsProofs ---------------------------
(***************************************************************************)
(* Proofs about the parts of MCSockets: the connections of the web server, *)
(* the names of guests and direct chats.  Each part has an inductive       *)
(* invariant of its own; a step of the whole is one of the part or leaves  *)
(* its variables alone.                                                    *)
(***************************************************************************)
EXTENDS MCSockets, FiniteSetTheorems, SequenceTheorems, TLAPS

-----------------------------------------------------------------------------
(* Connections: WebServer. *)

\* A socket that can be closed is in the list and has not been closed yet; one
\* that waits for its connection can be closed as long as there may be one.
WebInv ==
  /\ Web!TypeOK
  /\ callback \subseteq list /\ connected \subseteq callback
  /\ callback \cap removing = {}
  /\ ~stopping => removing \subseteq list
  /\ \A s \in callback : disconnects[s] = 0
  /\ \A s \in WebSockets \ made : disconnects[s] = 0 /\ phase[s] = "none"
  /\ acceptor => \A s \in WebSockets :
       phase[s] = "accepting" => s \in callback /\ s \notin closing
  /\ stop_task \/ stopping => ~acceptor

\* The type of the server's variables.
WebTypes ==
  /\ list \subseteq made /\ made \subseteq WebSockets
  /\ stopping \in BOOLEAN /\ acceptor \in BOOLEAN
  /\ accepts \in BOOLEAN /\ stop_task \in BOOLEAN
  /\ phase \in [WebSockets -> Web!Phases]
  /\ connected \subseteq made /\ callback \subseteq made /\ closing \subseteq made
  /\ removing \subseteq made /\ web \subseteq made /\ expired \subseteq made
  /\ disconnects \in [WebSockets -> 0 .. 1]

\* The type invariant, taken apart.
LEMMA WebTypeOK == Web!TypeOK <=> WebTypes
BY DEF Web!TypeOK, WebTypes

\* The same of the next state.
LEMMA WebTypeOKNext == WebTypes' => Web!TypeOK'
BY DEF Web!TypeOK, WebTypes

\* Steps of a socket's handlers: they close no connection for good and take
\* nothing off the list.
LEMMA HandlerStep ==
  ASSUME WebInv, NEW s \in WebSockets, NEW to \in Web!Phases,
         phase[s] \notin {"none", "accepting"}, to # "accepting",
         phase' = [phase EXCEPT ![s] = to],
         UNCHANGED <<list, made, stopping, acceptor, accepts, stop_task, removing,
                     callback, disconnects>>,
         connected' \subseteq connected, closing' \subseteq closing \cup {s},
         web' \subseteq web \cup {s}, expired' \subseteq expired
  PROVE  WebInv'
<1>1. WebTypes
  BY WebTypeOK DEF WebInv
<1>2. s \in made
  BY DEF WebInv
<1>3. /\ phase' \in [WebSockets -> Web!Phases] /\ phase'[s] = to
      /\ \A t \in WebSockets \ {s} : phase'[t] = phase[t]
  BY <1>1 DEF WebTypes
<1>4. WebTypes'
  BY <1>1, <1>2, <1>3 DEF WebTypes, Web!Phases
<1>5. \A t \in WebSockets \ made : phase'[t] = "none"
  BY <1>2, <1>3 DEF WebInv
<1>6. acceptor => \A t \in WebSockets :
        phase'[t] = "accepting" => t \in callback /\ t \notin closing'
  BY <1>3 DEF WebInv
<1> QED BY <1>4, <1>5, <1>6, WebTypeOKNext DEF WebInv

\* Every step of the web server keeps the invariant.
LEMMA WebStep ==
  ASSUME WebInv, [Web!Next]_web_vars
  PROVE  WebInv'
<1>1. WebTypes
  BY WebTypeOK DEF WebInv
<1>2. /\ callback \subseteq list /\ connected \subseteq callback
      /\ callback \cap removing = {}
      /\ ~stopping => removing \subseteq list
      /\ \A s \in callback : disconnects[s] = 0
      /\ \A s \in WebSockets \ made : disconnects[s] = 0 /\ phase[s] = "none"
      /\ acceptor => \A s \in WebSockets :
           phase[s] = "accepting" => s \in callback /\ s \notin closing
      /\ stop_task \/ stopping => ~acceptor
  BY DEF WebInv
<1>3. CASE UNCHANGED web_vars
  <2>1. WebTypes'
    BY <1>1, <1>3 DEF WebTypes, web_vars, Web!Phases
  <2> QED BY <1>2, <1>3, <2>1, WebTypeOKNext DEF WebInv, web_vars
<1>4. CASE Web!DoAccept
  <2>1. CASE stopping
    <3>1. /\ accepts' = FALSE
          /\ UNCHANGED <<list, made, stopping, acceptor, stop_task, phase, connected,
                         callback, closing, removing, web, disconnects, expired>>
      BY <1>4, <2>1 DEF Web!DoAccept
    <3>2. WebTypes'
      BY <1>1, <3>1 DEF WebTypes, Web!Phases
    <3> QED BY <1>2, <3>1, <3>2, WebTypeOKNext DEF WebInv
  <2>2. CASE ~stopping
    <3>1. PICK s \in WebSockets \ made :
            /\ made' = made \cup {s} /\ list' = list \cup {s}
            /\ callback' = callback \cup {s}
            /\ phase' = [phase EXCEPT ![s] = "accepting"]
      BY <1>4, <2>2 DEF Web!DoAccept
    <3>2. /\ accepts' = FALSE
          /\ UNCHANGED <<stopping, acceptor, stop_task, connected, closing,
                         removing, web, disconnects, expired>>
      BY <1>4 DEF Web!DoAccept
    <3>3. /\ phase' \in [WebSockets -> Web!Phases] /\ phase'[s] = "accepting"
          /\ \A t \in WebSockets \ {s} : phase'[t] = phase[t]
      BY <1>1, <3>1 DEF WebTypes, Web!Phases
    <3>4. WebTypes'
      BY <1>1, <3>1, <3>2, <3>3 DEF WebTypes, Web!Phases
    <3>5. s \notin closing /\ s \notin removing /\ disconnects[s] = 0
      BY <1>1, <1>2, <3>1 DEF WebTypes
    <3>6. /\ callback' \subseteq list' /\ connected' \subseteq callback'
          /\ callback' \cap removing' = {}
          /\ ~stopping' => removing' \subseteq list'
          /\ \A t \in callback' : disconnects'[t] = 0
      BY <1>2, <3>1, <3>2, <3>5
    <3>7. /\ \A t \in WebSockets \ made' : disconnects'[t] = 0 /\ phase'[t] = "none"
          /\ acceptor' => \A t \in WebSockets :
               phase'[t] = "accepting" => t \in callback' /\ t \notin closing'
          /\ stop_task' \/ stopping' => ~acceptor'
      BY <1>2, <3>1, <3>2, <3>3, <3>5
    <3> QED BY <3>4, <3>6, <3>7, WebTypeOKNext DEF WebInv
  <2> QED BY <1>1, <2>1, <2>2
<1>5. ASSUME NEW s \in WebSockets, Web!Accepted(s) PROVE WebInv'
  <2>1. /\ phase[s] = "accepting" /\ acceptor /\ accepts' = TRUE
        /\ connected' = connected \cup {s}
        /\ UNCHANGED <<list, made, stopping, acceptor, stop_task, callback,
                       removing, web, disconnects>>
        /\ \/ /\ phase' = [phase EXCEPT ![s] = "header"]
              /\ expired' = expired \ {s} /\ UNCHANGED closing
           \/ /\ phase' = [phase EXCEPT ![s] = "none"]
              /\ UNCHANGED expired /\ closing' = closing \cup {s}
    BY <1>5 DEF Web!Accepted, Web!ReadHttpRequest, Web!Close
  <2>2. s \in callback /\ s \in made
    BY <1>1, <1>2, <2>1 DEF WebTypes
  <2>3. /\ phase' \in [WebSockets -> Web!Phases] /\ phase'[s] # "accepting"
        /\ \A t \in WebSockets \ {s} : phase'[t] = phase[t]
    BY <1>1, <2>1 DEF WebTypes, Web!Phases
  <2>4. WebTypes'
    BY <1>1, <2>1, <2>2, <2>3 DEF WebTypes, Web!Phases
  <2>5. /\ \A t \in WebSockets \ made' : disconnects'[t] = 0 /\ phase'[t] = "none"
        /\ acceptor' => \A t \in WebSockets :
             phase'[t] = "accepting" => t \in callback' /\ t \notin closing'
    BY <1>2, <2>1, <2>2, <2>3
  <2> QED BY <1>2, <2>1, <2>2, <2>4, <2>5, WebTypeOKNext DEF WebInv
<1>6. ASSUME NEW s \in WebSockets, Web!AcceptFails(s) PROVE WebInv'
  <2>1. /\ phase[s] = "accepting" /\ phase' = [phase EXCEPT ![s] = "none"]
        /\ closing' = closing \cup {s}
        /\ UNCHANGED <<list, made, stopping, acceptor, accepts, stop_task, removing,
                       connected, callback, web, disconnects, expired>>
    BY <1>6 DEF Web!AcceptFails, Web!Close, Web!server
  <2>2. s \in made
    BY <1>2, <2>1
  <2>3. /\ phase' \in [WebSockets -> Web!Phases] /\ phase'[s] = "none"
        /\ \A t \in WebSockets \ {s} : phase'[t] = phase[t]
    BY <1>1, <2>1 DEF WebTypes, Web!Phases
  <2>4. WebTypes'
    BY <1>1, <2>1, <2>2, <2>3 DEF WebTypes, Web!Phases
  <2>5. /\ \A t \in WebSockets \ made' : disconnects'[t] = 0 /\ phase'[t] = "none"
        /\ acceptor' => \A t \in WebSockets :
             phase'[t] = "accepting" => t \in callback' /\ t \notin closing'
    BY <1>2, <2>1, <2>2, <2>3
  <2> QED BY <1>2, <2>1, <2>4, <2>5, WebTypeOKNext DEF WebInv
<1>7. CASE Web!Stop \/ Web!CloseAll
  <2>1. /\ ~acceptor' /\ acceptor' \in BOOLEAN /\ stop_task' \in BOOLEAN
        /\ stopping' \in BOOLEAN /\ (stopping => stopping')
        /\ closing' \subseteq closing \cup list
        /\ UNCHANGED <<list, made, accepts, phase, connected, callback, removing,
                       web, disconnects, expired>>
    <3>1. CASE Web!Stop
      BY <1>1, <3>1 DEF Web!Stop, WebTypes
    <3>2. CASE Web!CloseAll
      <4>1. stop_task /\ stop_task' = FALSE /\ stopping' = TRUE
            /\ acceptor' = acceptor /\ acceptor \in BOOLEAN
        BY <1>1, <3>2 DEF Web!CloseAll, WebTypes
      <4>2. ~acceptor
        BY <1>2, <4>1
      <4>3. /\ closing' \subseteq closing \cup list
            /\ UNCHANGED <<list, made, accepts, phase, connected, callback, removing,
                           web, disconnects, expired>>
        BY <3>2 DEF Web!CloseAll
      <4> QED BY <4>1, <4>2, <4>3
    <3> QED BY <1>7, <3>1, <3>2
  <2>2. WebTypes'
    BY <1>1, <2>1 DEF WebTypes, Web!Phases
  <2> QED BY <1>1, <1>2, <2>1, <2>2, WebTypeOKNext DEF WebInv
<1>8. ASSUME NEW s \in WebSockets, Web!RemoveSocket(s) PROVE WebInv'
  <2>1. /\ s \in removing /\ removing' = removing \ {s}
        /\ list' = IF stopping THEN list ELSE list \ {s}
        /\ UNCHANGED <<made, stopping, acceptor, accepts, stop_task, phase,
                       connected, callback, closing, web, disconnects, expired>>
    BY <1>8 DEF Web!RemoveSocket
  <2>2. WebTypes'
    BY <1>1, <2>1 DEF WebTypes, Web!Phases
  <2> QED BY <1>2, <2>1, <2>2, WebTypeOKNext DEF WebInv
<1>9. ASSUME NEW s \in WebSockets, Web!RunClose(s) PROVE WebInv'
  <2>1. /\ s \in closing /\ closing' = closing \ {s}
        /\ connected' = connected \ {s} /\ callback' = callback \ {s}
        /\ \/ /\ s \in callback /\ removing' = removing \cup {s}
              /\ disconnects' = [disconnects EXCEPT ![s] = @ + 1]
           \/ s \notin callback /\ UNCHANGED <<removing, disconnects>>
        /\ UNCHANGED <<list, made, stopping, acceptor, accepts, stop_task, phase,
                       web, expired>>
    BY <1>9 DEF Web!RunClose
  <2>2. s \in made
    BY <1>1, <2>1 DEF WebTypes
  <2>3. /\ disconnects' \in [WebSockets -> 0 .. 1]
        /\ \A t \in WebSockets \ {s} : disconnects'[t] = disconnects[t]
    BY <1>1, <1>2, <2>1 DEF WebTypes
  <2>4. WebTypes'
    BY <1>1, <2>1, <2>2, <2>3 DEF WebTypes, Web!Phases
  <2>5. /\ \A t \in callback' : disconnects'[t] = 0
        /\ \A t \in WebSockets \ made' : disconnects'[t] = 0 /\ phase'[t] = "none"
    BY <1>1, <1>2, <2>1, <2>2, <2>3 DEF WebTypes
  <2>6. acceptor' => \A t \in WebSockets :
          phase'[t] = "accepting" => t \in callback' /\ t \notin closing'
    BY <1>2, <2>1
  <2> QED BY <1>1, <1>2, <2>1, <2>4, <2>5, <2>6, WebTypeOKNext DEF WebInv
<1>10. ASSUME NEW s \in WebSockets, NEW from \in Web!Phases \ {"none", "accepting"},
              NEW to \in Web!Phases \ {"accepting"}, Web!Completes(s, from, to),
              UNCHANGED <<list, made, stopping, acceptor, accepts, stop_task, removing,
                          callback, disconnects>>,
              connected' \subseteq connected, closing' \subseteq closing \cup {s},
              web' \subseteq web \cup {s}, expired' \subseteq expired
       PROVE  WebInv'
  BY <1>10, HandlerStep DEF Web!Completes
<1>11. /\ "header" \in Web!Phases /\ "response" \in Web!Phases
       /\ "checking" \in Web!Phases /\ "upgrading" \in Web!Phases
       /\ "message" \in Web!Phases /\ "none" \in Web!Phases
  BY DEF Web!Phases
<1>12. ASSUME NEW s \in WebSockets,
              \/ Web!ReadsHeader(s) \/ Web!HeaderFails(s) \/ Web!Posts(s)
              \/ Web!ResponseFails(s) \/ Web!PreConnects(s) \/ Web!Upgrades(s)
              \/ Web!Fails(s)
       PROVE  WebInv'
  <2>1. PICK from \in {"header", "response", "checking", "upgrading", "message"},
             to \in {"header", "response", "checking", "upgrading", "message", "none"} :
          Web!Completes(s, from, to)
    BY <1>12 DEF Web!ReadsHeader, Web!HeaderFails, Web!Posts, Web!ResponseFails,
                 Web!PreConnects, Web!Upgrades, Web!Fails
  <2>2. /\ UNCHANGED <<list, made, stopping, acceptor, accepts, stop_task, removing,
                       callback, disconnects>>
        /\ connected' \subseteq connected /\ closing' \subseteq closing \cup {s}
        /\ web' \subseteq web \cup {s} /\ expired' \subseteq expired
    BY <1>12 DEF Web!ReadsHeader, Web!HeaderFails, Web!Posts, Web!ResponseFails,
                 Web!PreConnects, Web!Upgrades, Web!Fails, Web!Close, Web!server
  <2> QED BY <1>10, <1>11, <2>1, <2>2
<1>13. ASSUME NEW s \in WebSockets, Web!WritesResponse(s) PROVE WebInv'
  BY <1>11, <1>13, HandlerStep
  DEF Web!WritesResponse, Web!ReadHttpRequest, Web!server
<1>14. ASSUME NEW s \in WebSockets, Web!CloseWebSocket(s) \/ Web!DeadlinePasses(s)
       PROVE  WebInv'
  <2>1. /\ phase[s] \notin {"none", "accepting"}
        /\ closing' \subseteq closing \cup {s} /\ expired' \subseteq expired \cup {s}
        /\ UNCHANGED <<list, made, stopping, acceptor, accepts, stop_task, removing,
                       phase, connected, callback, web, disconnects>>
    BY <1>14 DEF Web!CloseWebSocket, Web!DeadlinePasses, Web!Close, Web!server
  <2>2. s \in made
    BY <1>2, <2>1
  <2>3. WebTypes'
    BY <1>1, <2>1, <2>2 DEF WebTypes, Web!Phases
  <2>4. acceptor' => \A t \in WebSockets :
          phase'[t] = "accepting" => t \in callback' /\ t \notin closing'
    BY <1>2, <2>1
  <2> QED BY <1>2, <2>1, <2>3, <2>4, WebTypeOKNext DEF WebInv
<1>15. CASE Web!Next
  <2>1. CASE Web!ListStep \/ Web!Stop
    BY <1>4, <1>7, <1>8, <2>1 DEF Web!ListStep
  <2>2. ASSUME NEW s \in WebSockets, Web!SocketStep(s) PROVE WebInv'
    BY <1>6, <1>9, <1>12, <2>2 DEF Web!SocketStep, Web!Aborted
  <2>3. ASSUME NEW s \in WebSockets, Web!ClientStep(s) PROVE WebInv'
    BY <1>5, <1>6, <1>12, <1>13, <1>14, <2>3 DEF Web!ClientStep
  <2> QED BY <1>14, <1>15, <2>1, <2>2, <2>3 DEF Web!Next
<1> QED BY <1>3, <1>15

\* At first there is no socket.
LEMMA WebInit ==
  ASSUME Web!Init
  PROVE  WebInv
<1>1. WebTypes
  <2>1. "none" \in Web!Phases
    BY DEF Web!Phases
  <2>2. /\ phase \in [WebSockets -> Web!Phases]
        /\ disconnects \in [WebSockets -> 0 .. 1]
    BY <2>1 DEF Web!Init
  <2> QED BY <2>2 DEF Web!Init, WebTypes
<1> QED BY <1>1, WebTypeOK DEF Web!Init, WebInv

\* A step of the whole is one of the web server, or leaves it alone.
LEMMA WebSteps == [SocketsNext]_all_vars => [Web!Next]_web_vars
BY DEF SocketsNext, all_vars, web_vars

\* An open connection is in the list with its close callback, and a socket that
\* was closed is erased from the list once, also when the server stops while
\* connections are accepted: for any number of sockets.
THEOREM ConnectionsStayListed == SocketsSpec => []ConnectionsListed
<1>1. SocketsInit => WebInv
  BY WebInit DEF SocketsInit
<1>2. WebInv /\ [SocketsNext]_all_vars => WebInv'
  BY WebStep, WebSteps
<1>3. WebInv => ConnectionsListed
  BY DEF WebInv, ConnectionsListed, Web!ErasesListed, Web!OpenIsListed
<1> QED BY <1>1, <1>2, <1>3, PTL DEF SocketsSpec


-----------------------------------------------------------------------------
(* The names of guests: Usernames, with sockets that wait for the answer to a *)
(* request before they send the next one.                                     *)

AnyName == Names!Names \cup {NoName}
NameTasks == [op: {"connect", "change", "set", "disconnect"}, name: AnyName]
GuestTasks ==
  [op: {"generate", "change", "erase"}, socket: NameSockets, name: AnyName,
   current: AnyName]

\* A task is on the strand of guests_.
In(m, u) == \E i \in 1 .. Len(m) : m[i] = u

\* Every socket has at most one task there.
OneEach(m) ==
  /\ m \in Seq(GuestTasks)
  /\ \A i, j \in 1 .. Len(m) : m[i].socket = m[j].socket => i = j

\* s holds the name n in guests_, and no other; none if n is NoName.
HoldsOnly(s, n) == \A k \in Names!Names : guests[k] = s <=> k = n

\* A guest holds its name; a registered user that is open has that of an account.
Settled(s) ==
  /\ ~is_logged_in[s] => HoldsOnly(s, username[s])
  /\ is_logged_in[s] => username[s] \in Accounts

\* What is so while a task of s is on its own strand.
TaskFits(s, t) ==
  /\ t.op # "set" => Settled(s)
  /\ t.op = "change" => ~is_logged_in[s] /\ t.name \in GuestNames
  /\ t.op = "set" =>
       /\ ~is_logged_in[s] => t.name \in GuestNames /\ HoldsOnly(s, t.name)
       /\ is_logged_in[s] => t.name \in Accounts
  /\ s \in closed <=> t.op = "disconnect"

\* What is so while a task of s is on the strand of guests_.
GuestTaskFits(s, u) ==
  /\ u.op \in {"generate", "change"} => ~is_logged_in[s] /\ Settled(s)
  /\ u.op = "generate" => username[s] = NoName
  /\ u.op = "change" => u.current = username[s] /\ u.name \in GuestNames
  /\ u.op = "erase" =>
       /\ username[s] = NoName /\ u.name \in Names!Names
       /\ ~is_logged_in[s] => HoldsOnly(s, u.name)
       /\ is_logged_in[s] => u.name \in Accounts
  /\ s \in closed <=> u.op = "erase"

\* Nothing of s is on the strand of guests_.
NotIn(m, s) == \A u \in GuestTasks : In(m, u) => u.socket # s

NameOk(s) ==
  /\ \/ tasks[s] = <<>>
     \/ \E t \in NameTasks :
          tasks[s] = <<t>> /\ TaskFits(s, t) /\ NotIn(map_tasks, s)
  /\ \A u \in GuestTasks : In(map_tasks, u) /\ u.socket = s =>
       tasks[s] = <<>> /\ GuestTaskFits(s, u)
  /\ tasks[s] = <<>> /\ NotIn(map_tasks, s) =>
       /\ ~is_logged_in[s] => HoldsOnly(s, username[s])
       /\ is_logged_in[s] /\ s \notin closed => username[s] \in Accounts

NamesTypes ==
  /\ guests \in [Names!Names -> NameSockets \cup {Nobody}]
  /\ username \in [NameSockets -> AnyName]
  /\ is_logged_in \in [NameSockets -> BOOLEAN]
  /\ closed \subseteq NameSockets
  /\ tasks \in [NameSockets -> Seq(NameTasks)]

\* Inductive for patient sockets, where no guest asks for an account's name.
NamesInv ==
  /\ NamesTypes
  /\ OneEach(map_tasks)
  /\ \A a \in Accounts : guests[a] = Nobody
  /\ \A s \in NameSockets : NameOk(s)

\* What is assumed of the constants.
LEMMA NamesConstants ==
  NoName \notin Names!Names /\ Nobody \notin NameSockets
BY PartsAssumption DEF Names!UsernamesAssumption

\* A queue of one task.
LEMMA OneTask ==
  ASSUME NEW T, NEW x \in T
  PROVE  /\ <<x>> \in Seq(T) /\ <<x>> # <<>> /\ Head(<<x>>) = x
         /\ Tail(<<x>>) = <<>> /\ Append(<<>>, x) = <<x>> /\ <<>> \in Seq(T)
OBVIOUS

\* A task is given to the strand of guests_.
LEMMA InAppended ==
  ASSUME NEW m, OneEach(m), NEW u \in GuestTasks, NotIn(m, u.socket)
  PROVE  /\ OneEach(Append(m, u))
         /\ \A x : In(Append(m, u), x) <=> In(m, x) \/ x = u
<1> DEFINE p == Append(m, u)
<1>1. /\ p \in Seq(GuestTasks) /\ Len(p) = Len(m) + 1 /\ p[Len(m) + 1] = u
      /\ \A i \in 1 .. Len(m) : p[i] = m[i]
      /\ Len(m) \in Nat /\ m \in Seq(GuestTasks)
  BY DEF OneEach
<1> HIDE DEF p
<1>2. \A i \in 1 .. Len(m) : m[i].socket # u.socket
  <2> SUFFICES ASSUME NEW i \in 1 .. Len(m) PROVE m[i].socket # u.socket
    OBVIOUS
  <2>1. m[i] \in GuestTasks
    BY <1>1
  <2>2. In(m, m[i])
    BY DEF In
  <2> QED BY <2>1, <2>2 DEF NotIn
<1>3. \A i \in 1 .. Len(p) : i \in 1 .. Len(m) \/ i = Len(m) + 1
  BY <1>1
<1>4. ASSUME NEW i \in 1 .. Len(p), NEW j \in 1 .. Len(p), p[i].socket = p[j].socket
      PROVE  i = j
  <2>1. CASE i \in 1 .. Len(m) /\ j \in 1 .. Len(m)
    BY <1>1, <1>4, <2>1 DEF OneEach
  <2>2. CASE i = Len(m) + 1 \/ j = Len(m) + 1
    BY <1>1, <1>2, <1>3, <1>4, <2>2
  <2> QED BY <1>3, <2>1, <2>2
<1>5. ASSUME NEW x, In(p, x) PROVE In(m, x) \/ x = u
  BY <1>1, <1>3, <1>5 DEF In
<1>6. ASSUME NEW x, In(m, x) \/ x = u PROVE In(p, x)
  <2>1. CASE x = u
    <3>1. Len(m) + 1 \in 1 .. Len(p)
      BY <1>1
    <3> QED BY <1>1, <2>1, <3>1 DEF In
  <2>2. CASE In(m, x)
    <3>1. PICK i \in 1 .. Len(m) : m[i] = x
      BY <2>2 DEF In
    <3>2. i \in 1 .. Len(p) /\ p[i] = x
      BY <1>1, <3>1
    <3> QED BY <3>2 DEF In
  <2> QED BY <1>6, <2>1, <2>2
<1>7. OneEach(p)
  BY <1>1, <1>4 DEF OneEach
<1> QED BY <1>5, <1>6, <1>7 DEF p

\* The first task on the strand of guests_ is run.
LEMMA InTail ==
  ASSUME NEW m, OneEach(m), m # <<>>
  PROVE  /\ OneEach(Tail(m)) /\ Head(m) \in GuestTasks /\ In(m, Head(m))
         /\ \A x : In(m, x) <=> In(Tail(m), x) \/ x = Head(m)
         /\ NotIn(Tail(m), Head(m).socket)
<1> DEFINE p == Tail(m)
           h == Head(m)
<1>1. /\ p \in Seq(GuestTasks) /\ Len(m) = Len(p) + 1 /\ Len(p) \in Nat
      /\ \A i \in 1 .. Len(p) : p[i] = m[i + 1]
      /\ m[1] = h /\ h \in GuestTasks
  BY DEF OneEach
<1> HIDE DEF p, h
<1>2. /\ \A i \in 1 .. Len(p) : i + 1 \in 1 .. Len(m) /\ i + 1 # 1
      /\ 1 \in 1 .. Len(m)
  BY <1>1
<1>3. ASSUME NEW i \in 1 .. Len(p), NEW j \in 1 .. Len(p), p[i].socket = p[j].socket
      PROVE  i = j
  <2>1. i + 1 = j + 1
    BY <1>1, <1>2, <1>3 DEF OneEach
  <2> QED BY <2>1
<1>4. ASSUME NEW x, In(m, x) PROVE In(p, x) \/ x = h
  <2>1. PICK i \in 1 .. Len(m) : m[i] = x
    BY <1>4 DEF In
  <2>2. CASE i = 1
    BY <1>1, <2>1, <2>2
  <2>3. CASE i # 1
    <3>1. i - 1 \in 1 .. Len(p) /\ (i - 1) + 1 = i
      BY <1>1, <2>3
    <3>2. p[i - 1] = x
      BY <1>1, <2>1, <3>1
    <3> QED BY <3>1, <3>2 DEF In
  <2> QED BY <2>2, <2>3
<1>5. ASSUME NEW x, In(p, x) PROVE In(m, x)
  BY <1>1, <1>2, <1>5 DEF In
<1>6. In(m, h)
  BY <1>1, <1>2 DEF In
<1>7. \A i \in 1 .. Len(p) : p[i].socket # h.socket
  BY <1>1, <1>2 DEF OneEach
<1>8. NotIn(p, h.socket)
  BY <1>7 DEF NotIn, In
<1>9. OneEach(p)
  BY <1>1, <1>3 DEF OneEach
<1> QED BY <1>1, <1>4, <1>5, <1>6, <1>8, <1>9 DEF p, h

\* Nothing changes for a socket.
LEMMA NameKept ==
  ASSUME NEW w, NameOk(w), tasks'[w] = tasks[w], username'[w] = username[w],
         is_logged_in'[w] = is_logged_in[w], w \in closed' <=> w \in closed,
         \A n \in Names!Names : guests'[n] = w <=> guests[n] = w,
         \A u \in GuestTasks : u.socket = w => (In(map_tasks', u) <=> In(map_tasks, u))
  PROVE  NameOk(w)'
<1>1. GuestTasks' = GuestTasks /\ NameTasks' = NameTasks /\ Names!Names' = Names!Names
  BY DEF GuestTasks, NameTasks, AnyName, Names!Names
<1>2. \A n : HoldsOnly(w, n)' <=> HoldsOnly(w, n)
  BY <1>1 DEF HoldsOnly
<1>3. (NotIn(map_tasks, w)' <=> NotIn(map_tasks, w)) /\ (Settled(w)' <=> Settled(w))
  BY <1>1, <1>2 DEF NotIn, Settled
<1>4. ASSUME NEW t \in NameTasks, TaskFits(w, t) PROVE TaskFits(w, t)'
  BY <1>2, <1>3, <1>4 DEF TaskFits
<1>5. ASSUME NEW u \in GuestTasks, GuestTaskFits(w, u) PROVE GuestTaskFits(w, u)'
  BY <1>1, <1>2, <1>3, <1>5 DEF GuestTaskFits
<1>6. (\/ tasks[w] = <<>>
       \/ \E t \in NameTasks :
            tasks[w] = <<t>> /\ TaskFits(w, t) /\ NotIn(map_tasks, w))'
  BY <1>1, <1>3, <1>4 DEF NameOk
<1>7. (\A u \in GuestTasks : In(map_tasks, u) /\ u.socket = w =>
         tasks[w] = <<>> /\ GuestTaskFits(w, u))'
  BY <1>1, <1>5 DEF NameOk
<1>8. (tasks[w] = <<>> /\ NotIn(map_tasks, w) =>
       /\ ~is_logged_in[w] => HoldsOnly(w, username[w])
       /\ is_logged_in[w] /\ w \notin closed => username[w] \in Accounts)'
  <2>1. HoldsOnly(w, username[w])' <=> HoldsOnly(w, username[w])
    BY <1>1 DEF HoldsOnly
  <2> QED BY <1>3, <2>1 DEF NameOk
<1> QED BY <1>6, <1>7, <1>8 DEF NameOk


\* What is to be shown of a step of one socket.
LEMMA NamesTogether ==
  ASSUME NamesInv, NEW s \in NameSockets, NamesTypes', OneEach(map_tasks'),
         \A a \in Accounts : guests'[a] = Nobody,
         \A w \in NameSockets \ {s} :
           /\ tasks'[w] = tasks[w] /\ username'[w] = username[w]
           /\ is_logged_in'[w] = is_logged_in[w] /\ (w \in closed' <=> w \in closed)
           /\ \A n \in Names!Names : guests'[n] = w <=> guests[n] = w
           /\ \A u \in GuestTasks :
                u.socket = w => (In(map_tasks', u) <=> In(map_tasks, u)),
         NameOk(s)'
  PROVE  NamesInv'
<1>1. OneEach(map_tasks)'
  BY DEF OneEach, GuestTasks, AnyName, Names!Names
<1>2. ASSUME NEW w \in NameSockets, w # s PROVE NameOk(w)'
  <2>1. NameOk(w)
    BY DEF NamesInv
  <2> QED BY <1>2, <2>1, NameKept
<1> QED BY <1>1, <1>2 DEF NamesInv

\* The sets of the model are constants.
LEMMA NamesRigid ==
  /\ Names!Names' = Names!Names /\ AnyName' = AnyName
  /\ NameTasks' = NameTasks /\ GuestTasks' = GuestTasks
BY DEF GuestTasks, NameTasks, AnyName, Names!Names

\* A socket with nothing under way sends its next message.
LEMMA RequestStep ==
  ASSUME NamesInv, Patient, NEW s \in NameSockets, Names!MaySend(s),
         NEW t \in NameTasks, Names!Dispatch(s, t),
         UNCHANGED <<guests, username, map_tasks>>,
         is_logged_in' \in [NameSockets -> BOOLEAN], closed' \subseteq NameSockets,
         \A w \in NameSockets \ {s} :
           is_logged_in'[w] = is_logged_in[w] /\ (w \in closed' <=> w \in closed),
         TaskFits(s, t)'
  PROVE  NamesInv'
<1>1. NamesTypes /\ OneEach(map_tasks) /\ map_tasks \in Seq(GuestTasks)
  BY DEF NamesInv, OneEach
<1>2. tasks[s] = <<>> /\ NotIn(map_tasks, s)
  BY <1>1 DEF Names!MaySend, Names!Idle, NotIn, In
<1>3. Append(<<>>, t) = <<t>> /\ <<t>> \in Seq(NameTasks) /\ <<t>> # <<>>
  BY OneTask
<1>4. /\ tasks' \in [NameSockets -> Seq(NameTasks)] /\ tasks'[s] = <<t>>
      /\ \A w \in NameSockets \ {s} : tasks'[w] = tasks[w]
  BY <1>1, <1>2, <1>3 DEF Names!Dispatch, NamesTypes
<1>5. NamesTypes'
  BY <1>1, <1>4, NamesRigid DEF NamesTypes
<1>6. NotIn(map_tasks, s)'
  BY <1>2, NamesRigid DEF NotIn
<1>7. NameOk(s)'
  <2>1. (\A u \in GuestTasks : In(map_tasks, u) => u.socket # s)'
    BY <1>6 DEF NotIn
  <2> QED BY <1>3, <1>4, <1>6, <2>1, NamesRigid DEF NameOk
<1> QED BY <1>1, <1>4, <1>5, <1>7, NamesTogether DEF NamesInv

\* The task of a socket's strand is run, and gives none to guests_.
LEMMA TaskDone ==
  ASSUME NamesInv, NEW s \in NameSockets, NEW t \in NameTasks, tasks[s] = <<t>>,
         NotIn(map_tasks, s), tasks' = [tasks EXCEPT ![s] = Tail(@)],
         UNCHANGED <<guests, is_logged_in, closed, map_tasks>>,
         username' \in [NameSockets -> AnyName],
         \A w \in NameSockets \ {s} : username'[w] = username[w],
         ~is_logged_in[s] => HoldsOnly(s, username'[s]),
         is_logged_in[s] /\ s \notin closed => username'[s] \in Accounts
  PROVE  NamesInv'
<1>1. NamesTypes /\ OneEach(map_tasks)
  BY DEF NamesInv
<1>2. Tail(tasks[s]) = <<>> /\ <<>> \in Seq(NameTasks)
  BY OneTask
<1>3. /\ tasks' \in [NameSockets -> Seq(NameTasks)] /\ tasks'[s] = <<>>
      /\ \A w \in NameSockets \ {s} : tasks'[w] = tasks[w]
  BY <1>1, <1>2 DEF NamesTypes
<1>4. NamesTypes'
  BY <1>1, <1>3, NamesRigid DEF NamesTypes
<1>5. (\A u \in GuestTasks : In(map_tasks, u) => u.socket # s)'
  BY NamesRigid DEF NotIn
<1>6. HoldsOnly(s, username[s])' <=> HoldsOnly(s, username'[s])
  BY NamesRigid DEF HoldsOnly
<1>7. NameOk(s)'
  BY <1>3, <1>5, <1>6 DEF NameOk
<1> QED BY <1>1, <1>3, <1>4, <1>7, NamesTogether DEF NamesInv

\* The task of a socket's strand is run, and gives u to guests_.
LEMMA TaskPasses ==
  ASSUME NamesInv, NEW s \in NameSockets, NEW t \in NameTasks, tasks[s] = <<t>>,
         NotIn(map_tasks, s), tasks' = [tasks EXCEPT ![s] = Tail(@)],
         UNCHANGED <<guests, is_logged_in, closed>>,
         username' \in [NameSockets -> AnyName],
         \A w \in NameSockets \ {s} : username'[w] = username[w],
         NEW u \in GuestTasks, u.socket = s, map_tasks' = Append(map_tasks, u),
         GuestTaskFits(s, u)'
  PROVE  NamesInv'
<1>1. NamesTypes /\ OneEach(map_tasks)
  BY DEF NamesInv
<1>2. Tail(tasks[s]) = <<>> /\ <<>> \in Seq(NameTasks)
  BY OneTask
<1>3. /\ tasks' \in [NameSockets -> Seq(NameTasks)] /\ tasks'[s] = <<>>
      /\ \A w \in NameSockets \ {s} : tasks'[w] = tasks[w]
  BY <1>1, <1>2 DEF NamesTypes
<1>4. NamesTypes'
  BY <1>1, <1>3, NamesRigid DEF NamesTypes
<1>5. /\ OneEach(map_tasks')
      /\ \A x : In(map_tasks', x) <=> In(map_tasks, x) \/ x = u
  BY <1>1, InAppended
<1>6. \A x \in GuestTasks : In(map_tasks', x) /\ x.socket = s => x = u
  BY <1>5 DEF NotIn
<1>7. ~NotIn(map_tasks, s)'
  BY <1>5, NamesRigid DEF NotIn
<1>8. NameOk(s)'
  BY <1>3, <1>6, <1>7, NamesRigid DEF NameOk
<1> QED BY <1>1, <1>3, <1>4, <1>5, <1>8, NamesTogether DEF NamesInv

\* The strand of a socket's name runs a task.
LEMMA NameTaskStep ==
  ASSUME NamesInv, NEW s \in NameSockets, Names!SocketStep(s)
  PROVE  NamesInv'
<1>1. tasks[s] # <<>> /\ tasks' = [tasks EXCEPT ![s] = Tail(@)]
  BY DEF Names!SocketStep, Names!Connect, Names!Change, Names!Set,
         Names!Disconnect, Names!Run
<1>2. PICK t \in NameTasks :
        tasks[s] = <<t>> /\ TaskFits(s, t) /\ NotIn(map_tasks, s)
  BY <1>1 DEF NamesInv, NameOk
<1>3. Head(tasks[s]) = t
  BY <1>2, OneTask
<1>4. /\ NamesTypes /\ t.name \in AnyName /\ username[s] \in AnyName
      /\ is_logged_in[s] \in BOOLEAN /\ NoName \in AnyName
  BY <1>2 DEF NamesInv, NamesTypes, NameTasks, AnyName
<1>5. \A n : (HoldsOnly(s, n) /\ UNCHANGED guests) => HoldsOnly(s, n)'
  BY NamesRigid DEF HoldsOnly
<1>6. CASE Names!Connect(s)
  <2>1. /\ t.op = "connect" /\ UNCHANGED <<guests, username, is_logged_in, closed>>
        /\ username[s] # NoName => map_tasks' = map_tasks
        /\ username[s] = NoName =>
             map_tasks' = Append(map_tasks, Names!MapTask("generate", s, NoName, NoName))
    BY <1>3, <1>6 DEF Names!Connect, Names!Run, Names!DispatchIf
  <2>2. Settled(s) /\ s \notin closed
    BY <1>2, <2>1 DEF TaskFits
  <2>3. CASE username[s] # NoName
    BY <1>1, <1>2, <1>4, <2>1, <2>2, <2>3, TaskDone DEF Settled, NamesTypes
  <2>4. CASE username[s] = NoName
    <3> DEFINE u == Names!MapTask("generate", s, NoName, NoName)
    <3>1. u \in GuestTasks /\ u.socket = s /\ u.op = "generate"
      BY <1>4 DEF Names!MapTask, GuestTasks
    <3>2. ~is_logged_in[s]
      BY <2>2, <2>4, NamesConstants DEF Settled, Names!Names
    <3>3. Settled(s)'
      BY <1>5, <2>1, <2>2, <3>2, <2>4, NamesRigid DEF Settled, HoldsOnly
    <3>4. u' = u
      BY DEF Names!MapTask
    <3> HIDE DEF u
    <3>5. GuestTaskFits(s, u)'
      BY <2>1, <2>2, <2>4, <3>1, <3>2, <3>3, <3>4 DEF GuestTaskFits
    <3> QED BY <1>1, <1>2, <1>4, <2>1, <2>4, <3>1, <3>4, <3>5, TaskPasses
            DEF NamesTypes, u
  <2> QED BY <2>3, <2>4
<1>7. CASE Names!Change(s)
  <2>1. /\ t.op = "change" /\ UNCHANGED <<guests, username, is_logged_in, closed>>
        /\ username[s] = t.name => map_tasks' = map_tasks
        /\ username[s] # t.name =>
             map_tasks' = Append(map_tasks, Names!MapTask("change", s, t.name, username[s]))
    BY <1>3, <1>7 DEF Names!Change, Names!Run, Names!DispatchIf
  <2>2. Settled(s) /\ s \notin closed /\ ~is_logged_in[s] /\ t.name \in GuestNames
    BY <1>2, <2>1 DEF TaskFits
  <2>3. CASE username[s] = t.name
    BY <1>1, <1>2, <1>4, <2>1, <2>2, <2>3, TaskDone DEF Settled, NamesTypes
  <2>4. CASE username[s] # t.name
    <3>1. PICK u : u = Names!MapTask("change", s, t.name, username[s])
      OBVIOUS
    <3>2. /\ u \in GuestTasks /\ u.socket = s /\ u.op = "change"
          /\ u.name = t.name /\ u.current = username[s]
      BY <1>4, <3>1 DEF Names!MapTask, GuestTasks
    <3>3. Settled(s)'
      BY <2>1, <2>2, NamesRigid DEF Settled, HoldsOnly
    <3>4. GuestTaskFits(s, u)'
      BY <2>1, <2>2, <3>2, <3>3 DEF GuestTaskFits
    <3> QED BY <1>1, <1>2, <1>4, <2>1, <2>4, <3>1, <3>2, <3>4, TaskPasses
            DEF NamesTypes
  <2> QED BY <2>3, <2>4
<1>8. CASE Names!Set(s)
  <2>1. /\ t.op = "set" /\ UNCHANGED <<guests, is_logged_in, closed, map_tasks>>
        /\ username' = [username EXCEPT ![s] = t.name]
    BY <1>3, <1>8 DEF Names!Set, Names!Run
  <2>2. /\ ~is_logged_in[s] => HoldsOnly(s, t.name)
        /\ is_logged_in[s] => t.name \in Accounts
    BY <1>2, <2>1 DEF TaskFits
  <2>3. /\ username' \in [NameSockets -> AnyName] /\ username'[s] = t.name
        /\ \A w \in NameSockets \ {s} : username'[w] = username[w]
    BY <1>4, <2>1 DEF NamesTypes
  <2> QED BY <1>1, <1>2, <2>1, <2>2, <2>3, TaskDone
<1>9. CASE Names!Disconnect(s)
  <2>1. /\ t.op = "disconnect" /\ UNCHANGED <<guests, is_logged_in, closed>>
        /\ username' = [username EXCEPT ![s] = NoName]
        /\ username[s] = NoName => map_tasks' = map_tasks
        /\ username[s] # NoName =>
             map_tasks' = Append(map_tasks, Names!MapTask("erase", s, username[s], NoName))
    BY <1>3, <1>9 DEF Names!Disconnect, Names!Run, Names!DispatchIf
  <2>2. Settled(s) /\ s \in closed
    BY <1>2, <2>1 DEF TaskFits
  <2>3. /\ username' \in [NameSockets -> AnyName] /\ username'[s] = NoName
        /\ \A w \in NameSockets \ {s} : username'[w] = username[w]
    BY <1>4, <2>1 DEF NamesTypes
  <2>4. CASE username[s] = NoName
    BY <1>1, <1>2, <2>1, <2>2, <2>3, <2>4, TaskDone DEF Settled
  <2>5. CASE username[s] # NoName
    <3>1. PICK u : u = Names!MapTask("erase", s, username[s], NoName)
      OBVIOUS
    <3>2. /\ u \in GuestTasks /\ u.socket = s /\ u.op = "erase"
          /\ u.name = username[s]
      BY <1>4, <3>1 DEF Names!MapTask, GuestTasks
    <3>3. u.name \in Names!Names
      BY <1>4, <2>5, <3>2 DEF AnyName
    <3>4. ~is_logged_in[s] => HoldsOnly(s, u.name)'
      BY <2>1, <2>2, <3>2, NamesRigid DEF Settled, HoldsOnly
    <3>5. GuestTaskFits(s, u)'
      BY <2>1, <2>2, <2>3, <3>2, <3>3, <3>4, NamesRigid DEF GuestTaskFits, Settled
    <3> QED BY <1>1, <1>2, <2>1, <2>3, <2>5, <3>1, <3>2, <3>5, TaskPasses
  <2> QED BY <2>4, <2>5
<1> QED BY <1>6, <1>7, <1>8, <1>9 DEF Names!SocketStep


\* The strand of guests_ runs a task, which hands the socket its new name.
LEMMA GuestTaskSets ==
  ASSUME NamesInv, map_tasks # <<>>, NEW u, u = Head(map_tasks),
         NEW n \in GuestNames, GuestNames \cap Accounts = {}, guests[n] = Nobody,
         u.op \in {"generate", "change"},
         guests' \in [Names!Names -> NameSockets \cup {Nobody}],
         \A k \in Names!Names :
           guests'[k] = IF k = n THEN u.socket
                        ELSE IF k = username[u.socket] THEN Nobody ELSE guests[k],
         map_tasks' = Tail(map_tasks),
         Names!Dispatch(u.socket, Names!Task("set", n)),
         UNCHANGED <<username, is_logged_in, closed>>
  PROVE  NamesInv'
<1> DEFINE s == u.socket
           t == Names!Task("set", n)
<1>1. /\ OneEach(Tail(map_tasks)) /\ u \in GuestTasks /\ In(map_tasks, u)
      /\ \A x : In(map_tasks, x) <=> In(Tail(map_tasks), x) \/ x = u
      /\ NotIn(Tail(map_tasks), s)
  BY InTail DEF NamesInv
<1>2. s \in NameSockets /\ n \in Names!Names /\ NamesTypes
  BY <1>1 DEF GuestTasks, Names!Names, NamesInv
<1> HIDE DEF s
<1>3. tasks[s] = <<>> /\ GuestTaskFits(s, u)
  BY <1>1, <1>2 DEF NamesInv, NameOk, s
<1>4. ~is_logged_in[s] /\ HoldsOnly(s, username[s]) /\ s \notin closed
  BY <1>3 DEF GuestTaskFits, Settled
<1>5. t \in NameTasks /\ t.op = "set" /\ t.name = n /\ t' = t
  BY <1>2 DEF Names!Task, NameTasks, AnyName
<1> HIDE DEF t
<1>6. <<t>> \in Seq(NameTasks) /\ <<t>> # <<>> /\ Append(<<>>, t) = <<t>>
  BY <1>5, OneTask
<1>7. /\ tasks' \in [NameSockets -> Seq(NameTasks)] /\ tasks'[s] = <<t>>
      /\ \A w \in NameSockets \ {s} : tasks'[w] = tasks[w]
  BY <1>2, <1>3, <1>6 DEF Names!Dispatch, NamesTypes, s, t
<1>8. s # Nobody
  BY <1>2, NamesConstants
<1>9. /\ HoldsOnly(s, n)'
      /\ \A w \in NameSockets \ {s} : \A k \in Names!Names :
           guests'[k] = w <=> guests[k] = w
      /\ \A a \in Accounts : guests'[a] = Nobody
  <2>1. ASSUME NEW k \in Names!Names PROVE guests'[k] = s <=> k = n
    BY <1>4, <1>8 DEF HoldsOnly, s
  <2>2. ASSUME NEW w \in NameSockets \ {s}, NEW k \in Names!Names
        PROVE  guests'[k] = w <=> guests[k] = w
    BY <1>2, <1>4, <1>8, NamesConstants DEF HoldsOnly, s
  <2>3. ASSUME NEW a \in Accounts PROVE guests'[a] = Nobody
    <3>1. a \in Names!Names /\ a # n /\ guests[a] = Nobody
      BY DEF Names!Names, NamesInv
    <3> QED BY <3>1
  <2> QED BY <2>1, <2>2, <2>3, NamesRigid DEF HoldsOnly
<1>10. NamesTypes'
  BY <1>2, <1>7, NamesRigid DEF NamesTypes
<1>11. NotIn(map_tasks, s)'
  BY <1>1, NamesRigid DEF NotIn
<1>12. TaskFits(s, t)'
  <2>1. s' = s
    BY DEF s
  <2>2. \A x : x = t => TaskFits(s, x)'
    BY <1>4, <1>5, <1>9 DEF TaskFits
  <2> QED BY <1>5, <2>1, <2>2
<1>13. NameOk(s)'
  <2>1. (\A x \in GuestTasks : In(map_tasks, x) => x.socket # s)'
    BY <1>11 DEF NotIn
  <2> QED BY <1>5, <1>6, <1>7, <1>11, <1>12, <2>1, NamesRigid DEF NameOk
<1>14. \A w \in NameSockets \ {s} : \A x \in GuestTasks :
         x.socket = w => (In(map_tasks', x) <=> In(map_tasks, x))
  BY <1>1 DEF s
<1> QED BY <1>1, <1>2, <1>7, <1>9, <1>10, <1>13, <1>14, NamesTogether

\* The strand of guests_ runs a task, and the socket has nothing more to do.
LEMMA GuestTaskEnds ==
  ASSUME NamesInv, map_tasks # <<>>, NEW u, u = Head(map_tasks),
         guests' \in [Names!Names -> NameSockets \cup {Nobody}],
         \/ u.op = "change" /\ UNCHANGED guests
         \/ /\ u.op = "erase"
            /\ \A k \in Names!Names :
                 guests'[k] = IF k = u.name THEN Nobody ELSE guests[k],
         map_tasks' = Tail(map_tasks),
         UNCHANGED <<username, is_logged_in, closed, tasks>>
  PROVE  NamesInv'
<1>1. /\ OneEach(Tail(map_tasks)) /\ u \in GuestTasks /\ In(map_tasks, u)
      /\ \A x : In(map_tasks, x) <=> In(Tail(map_tasks), x) \/ x = u
      /\ NotIn(Tail(map_tasks), u.socket)
  BY InTail DEF NamesInv
<1>2. PICK s \in NameSockets : s = u.socket
  BY <1>1 DEF GuestTasks
<1>3. tasks[s] = <<>> /\ GuestTaskFits(s, u) /\ NamesTypes
  BY <1>1, <1>2 DEF NamesInv, NameOk
<1>4. NamesTypes'
  BY <1>3, NamesRigid DEF NamesTypes
<1>5. s # Nobody /\ \A a \in Accounts : a \in Names!Names /\ guests[a] = Nobody
  BY NamesConstants DEF NamesInv, Names!Names
<1>6. /\ \A w \in NameSockets \ {s} : \A k \in Names!Names :
           guests'[k] = w <=> guests[k] = w
      /\ \A a \in Accounts : guests'[a] = Nobody
      /\ ~is_logged_in[s] => \A k \in Names!Names : guests'[k] = s <=> k = username[s]
      /\ is_logged_in[s] => s \in closed
  <2>1. CASE u.op = "change" /\ UNCHANGED guests
    BY <1>3, <1>5, <2>1 DEF GuestTaskFits, Settled, HoldsOnly
  <2>2. CASE /\ u.op = "erase"
             /\ \A k \in Names!Names :
                  guests'[k] = IF k = u.name THEN Nobody ELSE guests[k]
    <3>1. /\ username[s] = NoName /\ u.name \in Names!Names /\ s \in closed
          /\ ~is_logged_in[s] => HoldsOnly(s, u.name)
          /\ is_logged_in[s] => u.name \in Accounts
      BY <1>3, <2>2 DEF GuestTaskFits
    <3>2. guests[u.name] = s \/ guests[u.name] = Nobody
      BY <1>5, <3>1 DEF HoldsOnly
    <3>3. ASSUME NEW w \in NameSockets \ {s}, NEW k \in Names!Names
          PROVE  guests'[k] = w <=> guests[k] = w
      BY <2>2, <3>1, <3>2, NamesConstants
    <3>4. ASSUME ~is_logged_in[s], NEW k \in Names!Names
          PROVE  guests'[k] = s <=> k = username[s]
      BY <1>5, <2>2, <3>1, <3>4, NamesConstants DEF HoldsOnly
    <3>5. \A a \in Accounts : guests'[a] = Nobody
      BY <1>5, <2>2
    <3> QED BY <3>1, <3>3, <3>4, <3>5
  <2> QED BY <2>1, <2>2
<1>7. NotIn(map_tasks, s)'
  BY <1>1, <1>2, NamesRigid DEF NotIn
<1>8. ~is_logged_in[s] => HoldsOnly(s, username[s])'
  BY <1>6, NamesRigid DEF HoldsOnly
<1>9. NameOk(s)'
  <2>1. (\A x \in GuestTasks : In(map_tasks, x) => x.socket # s)'
    BY <1>7 DEF NotIn
  <2> QED BY <1>3, <1>6, <1>8, <2>1 DEF NameOk
<1>10. \A w \in NameSockets \ {s} : \A x \in GuestTasks :
         x.socket = w => (In(map_tasks', x) <=> In(map_tasks, x))
  BY <1>1, <1>2
<1> QED BY <1>1, <1>4, <1>6, <1>9, <1>10, NamesTogether

\* Every step of the names keeps the invariant.
LEMMA NamesStep ==
  ASSUME NamesInv, Patient, GuestNames \cap Accounts = {}, [Names!Next]_names_vars
  PROVE  NamesInv'
<1>1. /\ NamesTypes /\ guests \in [Names!Names -> NameSockets \cup {Nobody}]
      /\ username \in [NameSockets -> AnyName]
      /\ is_logged_in \in [NameSockets -> BOOLEAN] /\ closed \subseteq NameSockets
  BY DEF NamesInv, NamesTypes
<1>2. ASSUME UNCHANGED names_vars PROVE NamesInv'
  <2>1. NamesTypes' /\ OneEach(map_tasks)'
    BY <1>2, NamesRigid DEF NamesInv, NamesTypes, OneEach, names_vars
  <2>2. \A s \in NameSockets : NameOk(s)'
    BY <1>2, NameKept DEF NamesInv, names_vars
  <2> QED BY <1>2, <2>1, <2>2 DEF NamesInv, names_vars
<1>3. ASSUME NEW s \in NameSockets, Names!MaySend(s)
      PROVE  /\ ~is_logged_in[s] => HoldsOnly(s, username[s])
             /\ is_logged_in[s] => username[s] \in Accounts
             /\ s \notin closed
  <2>1. map_tasks \in Seq(GuestTasks)
    BY DEF NamesInv, OneEach
  <2>2. tasks[s] = <<>> /\ NotIn(map_tasks, s) /\ s \notin closed
    BY <1>3, <2>1 DEF Names!MaySend, Names!Idle, NotIn, In
  <2> QED BY <2>2 DEF NamesInv, NameOk
<1>4. ASSUME NEW s \in NameSockets,
             \/ Names!ConnectToChannel(s) \/ Names!OnDisconnect(s)
             \/ \E n \in GuestNames : Names!ChangeUsername(s, n)
      PROVE  NamesInv'
  <2>1. PICK n \in GuestNames \cup {NoName}, op \in {"connect", "disconnect", "change"} :
          /\ Names!MaySend(s) /\ Names!Dispatch(s, Names!Task(op, n))
          /\ op = "change" => ~is_logged_in[s] /\ n \in GuestNames
          /\ closed' = IF op = "disconnect" THEN closed \cup {s} ELSE closed
          /\ UNCHANGED <<guests, username, is_logged_in, map_tasks>>
    BY <1>4 DEF Names!ConnectToChannel, Names!OnDisconnect, Names!ChangeUsername
  <2>2. PICK t : t = Names!Task(op, n)
    OBVIOUS
  <2>3. t \in NameTasks /\ t.op = op /\ t.name = n
    BY <2>2 DEF NameTasks, Names!Task, AnyName, Names!Names
  <2>4. Settled(s)'
    BY <1>3, <2>1, NamesRigid DEF Settled, HoldsOnly
  <2>5. TaskFits(s, t)'
    BY <1>3, <2>1, <2>3, <2>4 DEF TaskFits
  <2> QED BY <1>1, <2>1, <2>2, <2>3, <2>5, RequestStep
<1>5. ASSUME NEW s \in NameSockets, NEW n \in Accounts, Names!CreateSession(s, n)
      PROVE  NamesInv'
  <2>1. /\ Names!MaySend(s) /\ Names!Dispatch(s, Names!Task("set", n))
        /\ is_logged_in' = [is_logged_in EXCEPT ![s] = TRUE]
        /\ UNCHANGED <<guests, username, closed, map_tasks>>
    BY <1>5 DEF Names!CreateSession
  <2>2. PICK t : t = Names!Task("set", n)
    OBVIOUS
  <2>3. t \in NameTasks /\ t.op = "set" /\ t.name = n
    BY <2>2 DEF NameTasks, Names!Task, AnyName, Names!Names
  <2>4. /\ is_logged_in' \in [NameSockets -> BOOLEAN] /\ is_logged_in'[s] = TRUE
        /\ \A w \in NameSockets \ {s} : is_logged_in'[w] = is_logged_in[w]
    BY <1>1, <2>1
  <2>5. TaskFits(s, t)'
    BY <1>3, <2>1, <2>3, <2>4 DEF TaskFits
  <2> QED BY <1>1, <2>1, <2>2, <2>3, <2>4, <2>5, RequestStep
<1>6. CASE Names!MapStep
  <2>1. map_tasks # <<>> /\ map_tasks' = Tail(map_tasks)
    BY <1>6 DEF Names!MapStep, Names!GenerateUsername, Names!ChangeGuest,
                Names!EraseGuest, Names!RunMap
  <2>2. PICK u : u = Head(map_tasks)
    OBVIOUS
  <2>3. u \in GuestTasks /\ In(map_tasks, u)
    BY <2>1, <2>2, InTail DEF NamesInv
  <2>4. u.socket \in NameSockets
    BY <2>3 DEF GuestTasks
  <2>5. GuestTaskFits(u.socket, u)
    BY <2>3, <2>4 DEF NamesInv, NameOk
  <2>6. CASE Names!GenerateUsername
    <3>1. PICK n \in GuestNames :
            /\ guests[n] = Nobody /\ guests' = [guests EXCEPT ![n] = u.socket]
            /\ Names!Dispatch(u.socket, Names!Task("set", n))
      BY <2>2, <2>6 DEF Names!GenerateUsername, Names!Free
    <3>2. u.op = "generate" /\ UNCHANGED <<username, is_logged_in, closed>>
      BY <2>2, <2>6 DEF Names!GenerateUsername, Names!RunMap
    <3>3. username[u.socket] = NoName /\ n \in Names!Names
      BY <2>5, <3>2 DEF GuestTaskFits, Names!Names
    <3>4. /\ guests' \in [Names!Names -> NameSockets \cup {Nobody}]
          /\ \A k \in Names!Names :
               guests'[k] = IF k = n THEN u.socket
                            ELSE IF k = username[u.socket] THEN Nobody ELSE guests[k]
      BY <1>1, <2>4, <3>1, <3>3, NamesConstants
    <3> QED BY <2>1, <2>2, <3>1, <3>2, <3>4, GuestTaskSets
  <2>7. CASE Names!ChangeGuest
    <3>1. u.op = "change" /\ UNCHANGED <<username, is_logged_in, closed>>
      BY <2>2, <2>7 DEF Names!ChangeGuest, Names!RunMap
    <3>2. u.current = username[u.socket] /\ u.name \in GuestNames
      BY <2>5, <3>1 DEF GuestTaskFits
    <3>3. CASE guests[u.name] = Nobody
      <4>1. /\ guests' = [k \in Names!Names |->
                            IF k = u.name THEN u.socket
                            ELSE IF k = u.current THEN Nobody ELSE guests[k]]
            /\ Names!Dispatch(u.socket, Names!Task("set", u.name))
        BY <2>2, <2>7, <3>3 DEF Names!ChangeGuest, Names!Free
      <4>2. /\ guests' \in [Names!Names -> NameSockets \cup {Nobody}]
            /\ \A k \in Names!Names :
                 guests'[k] = IF k = u.name THEN u.socket
                              ELSE IF k = username[u.socket] THEN Nobody ELSE guests[k]
        BY <1>1, <2>4, <3>2, <4>1
      <4> QED BY <2>1, <2>2, <3>1, <3>2, <3>3, <4>1, <4>2, GuestTaskSets
    <3>4. CASE guests[u.name] # Nobody
      <4>1. UNCHANGED <<guests, tasks>>
        BY <2>2, <2>7, <3>4 DEF Names!ChangeGuest, Names!Free
      <4> QED BY <1>1, <2>1, <2>2, <3>1, <4>1, GuestTaskEnds
    <3> QED BY <3>3, <3>4
  <2>8. CASE Names!EraseGuest
    <3>1. /\ u.op = "erase" /\ UNCHANGED <<username, is_logged_in, closed, tasks>>
          /\ guests' = [guests EXCEPT ![u.name] = Nobody]
      BY <2>2, <2>8 DEF Names!EraseGuest, Names!RunMap
    <3>2. u.name \in Names!Names
      BY <2>5, <3>1 DEF GuestTaskFits
    <3>3. /\ guests' \in [Names!Names -> NameSockets \cup {Nobody}]
          /\ \A k \in Names!Names :
               guests'[k] = IF k = u.name THEN Nobody ELSE guests[k]
      BY <1>1, <3>1, <3>2
    <3> QED BY <2>1, <2>2, <3>1, <3>3, GuestTaskEnds
  <2> QED BY <1>6, <2>6, <2>7, <2>8 DEF Names!MapStep
<1>7. CASE Names!Done
  BY <1>2, <1>7 DEF Names!Done, Names!vars, names_vars
<1> QED BY <1>2, <1>4, <1>5, <1>6, <1>7, NameTaskStep DEF Names!Next

\* At first nobody has a name.
LEMMA NamesInit ==
  ASSUME Names!Init
  PROVE  NamesInv
<1>1. /\ guests = [n \in Names!Names |-> Nobody]
      /\ username = [s \in NameSockets |-> NoName]
      /\ is_logged_in = [s \in NameSockets |-> FALSE] /\ closed = {}
      /\ tasks = [s \in NameSockets |-> <<>>] /\ map_tasks = <<>>
  BY DEF Names!Init
<1>2. <<>> \in Seq(NameTasks) /\ <<>> \in Seq(GuestTasks) /\ \A u : ~In(<<>>, u)
  BY DEF In
<1>3. NamesTypes
  BY <1>1, <1>2 DEF NamesTypes, AnyName
<1>4. OneEach(map_tasks)
  BY <1>1, <1>2 DEF OneEach
<1>5. \A a \in Accounts : guests[a] = Nobody
  BY <1>1 DEF Names!Names
<1>6. \A s \in NameSockets : NameOk(s)
  BY <1>1, <1>2, NamesConstants DEF NameOk, HoldsOnly
<1> QED BY <1>3, <1>4, <1>5, <1>6 DEF NamesInv

\* A step of the whole is one of the names, or leaves them alone.
LEMMA NamesSteps == [SocketsNext]_all_vars => [Names!Next]_names_vars
BY DEF SocketsNext, all_vars, names_vars

\* What holds of a socket with nothing under way.
LEMMA IdleSocket ==
  ASSUME NamesInv, NEW s \in NameSockets, Names!Idle(s)
  PROVE  ~is_logged_in[s] => HoldsOnly(s, username[s])
<1>1. map_tasks \in Seq(GuestTasks)
  BY DEF NamesInv, OneEach
<1>2. tasks[s] = <<>> /\ NotIn(map_tasks, s)
  BY <1>1 DEF Names!Idle, NotIn, In
<1> QED BY <1>2 DEF NamesInv, NameOk

\* The tasks have the type that the model gives them.
LEMMA NamesTypeOK ==
  ASSUME NamesInv
  PROVE  Names!TypeOK
<1>1. ASSUME NEW s \in NameSockets, NEW i \in DOMAIN tasks[s]
      PROVE  Names!TaskOK(tasks[s][i])
  <2>1. tasks[s] \in Seq(NameTasks)
    BY DEF NamesInv, NamesTypes
  <2>2. tasks[s] # <<>> /\ tasks[s][i] \in NameTasks
    BY <1>1, <2>1
  <2>3. PICK t \in NameTasks : tasks[s] = <<t>> /\ TaskFits(s, t)
    BY <2>2 DEF NamesInv, NameOk
  <2>4. tasks[s][i] = t
    BY <1>1, <2>3
  <2>5. is_logged_in[s] \in BOOLEAN
    BY DEF NamesInv, NamesTypes
  <2> QED BY <2>3, <2>4, <2>5
          DEF Names!TaskOK, TaskFits, NameTasks, Names!Names
<1>2. ASSUME NEW i \in DOMAIN map_tasks
      PROVE  Names!MapTaskOK(map_tasks[i])
  <2>1. map_tasks \in Seq(GuestTasks)
    BY DEF NamesInv, OneEach
  <2>2. PICK u \in GuestTasks : u = map_tasks[i]
    BY <1>2, <2>1
  <2>3. In(map_tasks, u)
    BY <1>2, <2>1, <2>2 DEF In
  <2>4. u.socket \in NameSockets /\ u.op \in {"generate", "change", "erase"}
    BY <2>2 DEF GuestTasks
  <2>5. GuestTaskFits(u.socket, u)
    BY <2>2, <2>3, <2>4 DEF NamesInv, NameOk
  <2>6. Names!MapTaskOK(u)
    BY <2>4, <2>5 DEF GuestTaskFits, Names!MapTaskOK
  <2> QED BY <2>2, <2>6
<1> QED BY <1>1, <1>2 DEF NamesInv, NamesTypes, AnyName, Names!TypeOK

\* No two guests are left with the same name, and each holds its name, and no
\* other, in guests_: for any number of sockets that wait for their answers,
\* as long as no guest asks for the name of an account.
THEOREM NamesAreSound ==
  Patient /\ GuestNames \cap Accounts = {} => (SocketsSpec => []NamesSound)
<1> SUFFICES ASSUME Patient, GuestNames \cap Accounts = {}
             PROVE  SocketsSpec => []NamesSound
  OBVIOUS
<1>1. SocketsInit => NamesInv
  BY NamesInit DEF SocketsInit
<1>2. NamesInv /\ [SocketsNext]_all_vars => NamesInv'
  BY NamesStep, NamesSteps
<1>3. NamesInv => NamesSound
  <2> SUFFICES ASSUME NamesInv PROVE NamesSound
    OBVIOUS
  <2>1. ASSUME NEW s \in NameSockets, Names!Idle(s), ~is_logged_in[s]
        PROVE  /\ HoldsOnly(s, username[s]) /\ username[s] \in AnyName
               /\ {n \in Names!Names : guests[n] = s} = {username[s]} \ {NoName}
    <3>1. HoldsOnly(s, username[s]) /\ username[s] \in AnyName
      BY <2>1, IdleSocket DEF NamesInv, NamesTypes
    <3> QED BY <3>1, NamesConstants DEF HoldsOnly, AnyName
  <2>2. Names!HoldsItsName
    BY <2>1 DEF Names!HoldsItsName
  <2>3. Names!UniqueNames
    <3> SUFFICES ASSUME NEW s \in NameSockets, NEW t \in NameSockets, s # t,
                        Names!Idle(s), Names!Idle(t), ~is_logged_in[s],
                        ~is_logged_in[t], username[s] # NoName,
                        username[s] = username[t]
                 PROVE  FALSE
      BY DEF Names!UniqueNames
    <3>1. username[s] \in Names!Names
      BY <2>1 DEF AnyName
    <3> QED BY <2>1, <3>1 DEF HoldsOnly
  <2> QED BY <2>2, <2>3, NamesTypeOK DEF NamesSound
<1> QED BY <1>1, <1>2, <1>3, PTL DEF SocketsSpec

\* Once a user has the name of its account it never has a guest's, for sockets
\* that wait for their answers.
THEOREM AccountNamesAreKept ==
  Patient /\ GuestNames \cap Accounts = {} => (SocketsSpec => KeepsAccountName)
<1> SUFFICES ASSUME Patient, GuestNames \cap Accounts = {}
             PROVE  SocketsSpec => KeepsAccountName
  OBVIOUS
<1>1. SocketsInit => NamesInv
  BY NamesInit DEF SocketsInit
<1>2. NamesInv /\ [SocketsNext]_all_vars => NamesInv'
  BY NamesStep, NamesSteps
<1>3. NamesInv /\ [SocketsNext]_all_vars => [Names!AccountNameStays]_(Names!vars)
  <2> SUFFICES ASSUME NamesInv, [Names!Next]_names_vars, NEW s \in NameSockets,
                      is_logged_in[s], username[s] \in Accounts
               PROVE  username'[s] \in Accounts \cup {NoName}
    BY NamesSteps DEF Names!AccountNameStays
  <2>1. username \in [NameSockets -> AnyName]
    BY DEF NamesInv, NamesTypes
  <2>2. CASE UNCHANGED username
    BY <2>2
  <2>3. ASSUME NEW w \in NameSockets, Names!Set(w)
        PROVE  username'[s] \in Accounts \cup {NoName}
    <3>1. /\ tasks[w] # <<>> /\ Head(tasks[w]).op = "set"
          /\ username' = [username EXCEPT ![w] = Head(tasks[w]).name]
      BY <2>3 DEF Names!Set, Names!Run
    <3>2. PICK t \in NameTasks : tasks[w] = <<t>> /\ TaskFits(w, t)
      BY <3>1 DEF NamesInv, NameOk
    <3>3. Head(tasks[w]) = t
      BY <3>2, OneTask
    <3>4. w = s => t.name \in Accounts
      BY <3>1, <3>2, <3>3 DEF TaskFits
    <3> QED BY <2>1, <3>1, <3>3, <3>4
  <2>4. ASSUME NEW w \in NameSockets, Names!Disconnect(w)
        PROVE  username'[s] \in Accounts \cup {NoName}
    BY <2>1, <2>4 DEF Names!Disconnect
  <2>5. \/ UNCHANGED username
        \/ \E w \in NameSockets : Names!Set(w) \/ Names!Disconnect(w)
    BY DEF Names!Next, Names!SocketStep, Names!MapStep, Names!Done, Names!vars,
           names_vars, Names!ConnectToChannel, Names!OnDisconnect, Names!Connect,
           Names!Change, Names!ChangeUsername, Names!CreateSession,
           Names!GenerateUsername, Names!ChangeGuest, Names!EraseGuest
  <2> QED BY <2>2, <2>3, <2>4, <2>5
<1> QED BY <1>1, <1>2, <1>3, PTL DEF SocketsSpec, KeepsAccountName, Names!KeepsAccountName

-----------------------------------------------------------------------------
(* Direct chats: DirectChat. *)

\* In a strand x comes before y; a request has one task in it at most.
InOrder(m, x, y) == \E i, j \in 1 .. Len(m) : i < j /\ m[i] = x /\ m[j] = y
OnceEach(m) == \A i, j \in 1 .. Len(m) : m[i].req = m[j].req => i = j

\* The task x waits on the strand of s; it waits there in front of y.
Queued(s, x) == In(chat_tasks[s], x)
Before(s, x, y) == InOrder(chat_tasks[s], x, y)

\* Room a of s leads to t, and o is the id of the room at the other end.
Leads(s, t, a, o) ==
  a \in DOMAIN rooms[s] /\ rooms[s][a].peer = t /\ rooms[s][a].other = o

\* x is a request from s to t for which a room was made.
Sent(s, t, x) ==
  /\ x.step # "open" /\ requests[x.req].from = s /\ requests[x.req].to = t
  /\ \E u \in ChatSockets : Queued(u, x)

\* A request of s to t is under way, or waits for t to accept it.
Busy(s, t) == \E x \in Direct!Task : Sent(s, t, x)
Accepting(s, t) == \E x \in Direct!Task : Sent(s, t, x) /\ x.step = "accept"

\* The requests of s for which a room was made at s, and those to s.
Waiting(k, steps) ==
  \E s \in ChatSockets : \E x \in Direct!Task :
    Queued(s, x) /\ x.req = k /\ x.step \in steps
Opened(s) == {k \in 1 .. Len(requests) :
                requests[k].from = s /\ ~Waiting(k, {"open"})}
Accepted(s) == {k \in 1 .. Len(requests) :
                  requests[k].to = s /\ ~Waiting(k, {"open", "accept"})}

\* The ids of a socket's rooms are no more than requests were opened and
\* accepted.
IdsCounted(s) == next_id[s] - 1 <= Cardinality(Opened(s)) + Cardinality(Accepted(s))

\* The rooms and the ids: an id in use was handed out, and the limit holds.
RoomTypes ==
  /\ rooms = [s \in ChatSockets |-> rooms[s]]
  /\ next_id \in [ChatSockets -> Nat \ {0}]
  /\ \A s \in ChatSockets :
       /\ rooms[s] \in [DOMAIN rooms[s] -> Direct!Room]
       /\ DOMAIN rooms[s] \subseteq 1 .. next_id[s] - 1
  /\ \A s \in ChatSockets : Cardinality(DOMAIN rooms[s]) <= Limit

\* A newDirectChat message: who sent it, and to whom.
ChatRequest == [from : ChatSockets, to : ChatSockets]

\* The types of all five variables.
DirectTypes ==
  /\ RoomTypes
  /\ chat_tasks \in [ChatSockets -> Seq(Direct!Task)]
  /\ requests \in Seq(ChatRequest)
  /\ Len(requests) <= MaxRequests
  /\ answers \in Seq(Seq(Direct!Answer)) /\ Len(answers) = Len(requests)

\* A request has one task, which waits where it should.
TaskPlaced(s, x) ==
  /\ x.req \in 1 .. Len(requests) /\ answers[x.req] = <<>>
  /\ s = IF x.step = "accept" THEN requests[x.req].to ELSE requests[x.req].from
  /\ x.step # "open" => \E o \in Direct!Ids \cup {0} :
       Leads(requests[x.req].from, requests[x.req].to, x.id, o)
  /\ x.step # "open" => x.id # 0
  /\ x.step = "link" => x.other # 0

\* A request has one task at most, on all strands together.
TasksOnce ==
  /\ \A s \in ChatSockets : OnceEach(chat_tasks[s])
  /\ \A s, t \in ChatSockets : \A x, y \in Direct!Task :
       Queued(s, x) /\ Queued(t, y) /\ x.req = y.req => s = t /\ x = y

\* s has one room to t at most, and one request to t under way.
OneRoom(s, t) ==
  /\ \A a, b \in Direct!Ids : \A o, p \in Direct!Ids \cup {0} :
       Leads(s, t, a, o) /\ Leads(s, t, b, p) => a = b
  /\ \A x, y \in Direct!Task : Sent(s, t, x) /\ Sent(s, t, y) => x = y

\* When s linked its room while its own request still waits for t to accept it,
\* t is done with its request, and its room still waits for that link.
CrossedIsLinked(s, t) ==
  \A a, o \in Direct!Ids : Leads(s, t, a, o) /\ Accepting(s, t) =>
    ~Busy(t, s) /\ Leads(t, s, o, 0)

\* While an answer of t is on its way to s, the room of s is not linked; and if
\* t has a room to s, a request of t waits at s behind that answer.
AnswerIsNext(s, t) ==
  \A x \in Direct!Task : Sent(s, t, x) /\ x.step # "accept" =>
    /\ Leads(s, t, x.id, 0)
    /\ \A b \in Direct!Ids : \A p \in Direct!Ids \cup {0} : Leads(t, s, b, p) =>
         /\ p = 0
         /\ \E y \in Direct!Task :
              Sent(t, s, y) /\ y.step = "accept" /\ Before(s, x, y)

\* A room of s that nothing is under way to link has a linked room at t, which
\* is done or has asked s to accept it.
UnlinkedIsAnswered(s, t) ==
  \A a \in Direct!Ids : Leads(s, t, a, 0) /\ ~Busy(s, t) =>
    \E b, p \in Direct!Ids :
      Leads(t, s, b, p) /\ (~Busy(t, s) \/ (Accepting(t, s) /\ p = a))

\* What holds of two sockets, in either direction.
PairOk(s, t) ==
  /\ OneRoom(s, t) /\ CrossedIsLinked(s, t) /\ AnswerIsNext(s, t)
  /\ UnlinkedIsAnswered(s, t)

\* A chat of a socket with itself.
SelfOk(s) ==
  /\ \A x \in Direct!Task : Sent(s, s, x) =>
       /\ x.step = "accept" /\ Leads(s, s, x.id, 0)
       /\ \A a \in Direct!Ids : Leads(s, s, a, 0) => a = x.id
  /\ \A x, y \in Direct!Task : Sent(s, s, x) /\ Sent(s, s, y) => x = y

\* The two ends lead to each other, or are about to.
Linked(s, t) ==
  \E a, b \in Direct!Ids : \E o \in Direct!Ids \cup {0} :
    Leads(s, t, a, o) /\ Leads(t, s, b, a) /\ (o = b \/ (o = 0 /\ Accepting(t, s)))
SelfLinked(s) == \E a \in Direct!Ids : Leads(s, s, a, a)

\* A request waits in a strand, was answered once, or its ends are linked.
RequestOk(k) ==
  LET s == requests[k].from
      t == requests[k].to
  IN  \/ Waiting(k, {"open", "accept", "link", "full"})
      \/ Len(answers[k]) = 1
      \/ answers[k] = <<>> /\ IF s = t THEN SelfLinked(s) ELSE Linked(s, t)

\* The inductive invariant of direct chats.
DirectInv ==
  /\ DirectTypes /\ TasksOnce
  /\ \A s \in ChatSockets : \A x \in Direct!Task : Queued(s, x) => TaskPlaced(s, x)
  /\ \A s \in ChatSockets : IdsCounted(s)
  /\ \A s, t \in ChatSockets : s # t => PairOk(s, t)
  /\ \A s \in ChatSockets : SelfOk(s)
  /\ \A k \in 1 .. Len(requests) : RequestOk(k)

\* The head of a strand is done.
LEMMA ChatTail ==
  ASSUME NEW m \in Seq(Direct!Task), m # <<>>, OnceEach(m)
  PROVE  /\ Head(m) \in Direct!Task /\ In(m, Head(m))
         /\ Tail(m) \in Seq(Direct!Task) /\ OnceEach(Tail(m))
         /\ \A x \in Direct!Task : In(Tail(m), x) <=> In(m, x) /\ x # Head(m)
         /\ \A x, y \in Direct!Task :
              InOrder(m, x, y) /\ x # Head(m) => InOrder(Tail(m), x, y)
         /\ \A x \in Direct!Task : ~InOrder(m, x, Head(m))
<1> DEFINE p == Tail(m)
<1>1. /\ Len(m) \in Nat /\ Len(m) >= 1 /\ Head(m) = m[1]
      /\ p \in Seq(Direct!Task) /\ Len(p) = Len(m) - 1
      /\ \A i \in 1 .. Len(p) : p[i] = m[i + 1]
      /\ \A i \in 1 .. Len(m) : m[i] \in Direct!Task
  OBVIOUS
<1>2. 1 \in 1 .. Len(m) /\ \A i \in 1 .. Len(p) : i + 1 \in 1 .. Len(m) /\ i + 1 # 1
  BY <1>1
<1> HIDE DEF p
<1>3. OnceEach(p)
  <2> SUFFICES ASSUME NEW i \in 1 .. Len(p), NEW j \in 1 .. Len(p),
                      p[i].req = p[j].req
               PROVE  i = j
    BY DEF OnceEach
  <2>1. i + 1 = j + 1
    BY <1>1, <1>2 DEF OnceEach
  <2> QED BY <2>1
<1>4. ASSUME NEW i \in 1 .. Len(m), m[i] # m[1]
      PROVE  i - 1 \in 1 .. Len(p) /\ p[i - 1] = m[i]
  <2>1. i # 1 /\ i - 1 \in 1 .. Len(p) /\ (i - 1) + 1 = i
    BY <1>1, <1>4
  <2> QED BY <1>1, <2>1
<1>5. ASSUME NEW i \in 1 .. Len(m), m[i] = m[1] PROVE i = 1
  BY <1>2, <1>5 DEF OnceEach
<1>6. ASSUME NEW x \in Direct!Task PROVE In(p, x) <=> In(m, x) /\ x # m[1]
  <2>1. ASSUME NEW i \in 1 .. Len(p), p[i] = x PROVE In(m, x) /\ x # m[1]
    <3>1. m[i + 1] = x /\ i + 1 \in 1 .. Len(m) /\ i + 1 # 1
      BY <1>1, <1>2, <2>1
    <3> QED BY <1>5, <3>1 DEF In
  <2>2. ASSUME NEW i \in 1 .. Len(m), m[i] = x, x # m[1] PROVE In(p, x)
    BY <1>4, <2>2 DEF In
  <2> QED BY <2>1, <2>2 DEF In
<1>7. ASSUME NEW x \in Direct!Task, NEW y \in Direct!Task, InOrder(m, x, y), x # m[1]
      PROVE  InOrder(p, x, y)
  <2>1. PICK i, j \in 1 .. Len(m) : i < j /\ m[i] = x /\ m[j] = y
    BY <1>7 DEF InOrder
  <2>2. j # 1
    BY <2>1
  <2>3. m[j] # m[1]
    BY <1>5, <2>2
  <2>4. /\ i - 1 \in 1 .. Len(p) /\ p[i - 1] = x
        /\ j - 1 \in 1 .. Len(p) /\ p[j - 1] = y
    BY <1>4, <1>7, <2>1, <2>3
  <2>5. i - 1 < j - 1
    BY <2>1
  <2> QED BY <2>4, <2>5 DEF InOrder
<1>8. ASSUME NEW x \in Direct!Task, InOrder(m, x, m[1]) PROVE FALSE
  <2>1. PICK i, j \in 1 .. Len(m) : i < j /\ m[j] = m[1]
    BY <1>8 DEF InOrder
  <2>2. j = 1
    BY <1>5, <2>1
  <2> QED BY <2>1, <2>2
<1> QED BY <1>1, <1>2, <1>3, <1>6, <1>7, <1>8 DEF In, p

\* A task goes behind the others.
LEMMA ChatAppend ==
  ASSUME NEW m \in Seq(Direct!Task), OnceEach(m), NEW z \in Direct!Task,
         \A x \in Direct!Task : In(m, x) => x.req # z.req
  PROVE  /\ Append(m, z) \in Seq(Direct!Task) /\ OnceEach(Append(m, z))
         /\ \A x \in Direct!Task : In(Append(m, z), x) <=> In(m, x) \/ x = z
         /\ \A x, y \in Direct!Task : InOrder(m, x, y) => InOrder(Append(m, z), x, y)
         /\ \A x \in Direct!Task : In(m, x) => InOrder(Append(m, z), x, z)
<1> DEFINE p == Append(m, z)
<1>1. /\ Len(m) \in Nat /\ p \in Seq(Direct!Task) /\ Len(p) = Len(m) + 1
      /\ \A i \in 1 .. Len(m) : p[i] = m[i] /\ i \in 1 .. Len(p) /\ i < Len(p)
      /\ p[Len(p)] = z /\ Len(p) \in 1 .. Len(p)
      /\ \A i \in 1 .. Len(m) : m[i] \in Direct!Task
  OBVIOUS
<1>2. \A i \in 1 .. Len(p) : i \in 1 .. Len(m) \/ i = Len(p)
  BY <1>1
<1> HIDE DEF p
<1>3. \A i \in 1 .. Len(m) : m[i].req # z.req
  BY <1>1 DEF In
<1>4. OnceEach(p)
  BY <1>1, <1>2, <1>3 DEF OnceEach
<1>5. \A x \in Direct!Task : In(p, x) <=> In(m, x) \/ x = z
  BY <1>1, <1>2 DEF In
<1>6. \A x, y \in Direct!Task : InOrder(m, x, y) => InOrder(p, x, y)
  BY <1>1 DEF InOrder
<1>7. \A x \in Direct!Task : In(m, x) => InOrder(p, x, z)
  BY <1>1 DEF In, InOrder
<1> QED BY <1>1, <1>4, <1>5, <1>6, <1>7 DEF p

\* The task at the head of r is done.
LEMMA ChatDone ==
  ASSUME DirectInv, NEW r \in ChatSockets, chat_tasks[r] # <<>>,
         NEW h, h = Head(chat_tasks[r]), Direct!Done(r)
  PROVE  /\ h \in Direct!Task /\ Queued(r, h)
         /\ chat_tasks' \in [ChatSockets -> Seq(Direct!Task)] /\ TasksOnce'
         /\ \A v \in ChatSockets : \A x \in Direct!Task :
              Queued(v, x)' <=> Queued(v, x) /\ x # h
         /\ \A v \in ChatSockets : \A x, y \in Direct!Task :
              Before(v, x, y) /\ x # h => Before(v, x, y)'
         /\ \A x \in Direct!Task : ~Before(r, x, h)
<1>1. /\ chat_tasks \in [ChatSockets -> Seq(Direct!Task)]
      /\ \A v \in ChatSockets : OnceEach(chat_tasks[v])
  BY DEF DirectInv, DirectTypes, TasksOnce
<1>2. PICK m \in Seq(Direct!Task) : m = chat_tasks[r]
  BY <1>1
<1>3. m # <<>> /\ OnceEach(m) /\ h = Head(m)
  BY <1>1, <1>2
<1>4. /\ h \in Direct!Task /\ In(m, h)
      /\ Tail(m) \in Seq(Direct!Task) /\ OnceEach(Tail(m))
      /\ \A x \in Direct!Task : In(Tail(m), x) <=> In(m, x) /\ x # h
      /\ \A x, y \in Direct!Task : InOrder(m, x, y) /\ x # h => InOrder(Tail(m), x, y)
      /\ \A x \in Direct!Task : ~InOrder(m, x, h)
  BY <1>3, ChatTail
<1>5. chat_tasks' = [chat_tasks EXCEPT ![r] = Tail(m)]
  BY <1>2 DEF Direct!Done
<1>6. /\ chat_tasks' \in [ChatSockets -> Seq(Direct!Task)] /\ chat_tasks'[r] = Tail(m)
      /\ \A v \in ChatSockets \ {r} : chat_tasks'[v] = chat_tasks[v]
  BY <1>1, <1>4, <1>5
<1>7. Queued(r, h)
  BY <1>2, <1>4 DEF Queued
<1>8. \A v \in ChatSockets \ {r} : ~Queued(v, h)
  BY <1>4, <1>7 DEF DirectInv, TasksOnce
<1>9. ASSUME NEW v \in ChatSockets, NEW x \in Direct!Task
      PROVE  Queued(v, x)' <=> Queued(v, x) /\ x # h
  <2>1. CASE v = r
    BY <1>2, <1>4, <1>6, <2>1 DEF Queued
  <2>2. CASE v # r
    BY <1>6, <1>8, <2>2 DEF Queued
  <2> QED BY <2>1, <2>2
<1>10. ASSUME NEW v \in ChatSockets, NEW x \in Direct!Task, NEW y \in Direct!Task,
              Before(v, x, y), x # h
       PROVE  Before(v, x, y)'
  <2>1. CASE v = r
    BY <1>2, <1>4, <1>6, <1>10, <2>1 DEF Before
  <2>2. CASE v # r
    BY <1>6, <1>10, <2>2 DEF Before
  <2> QED BY <2>1, <2>2
<1>11. \A v \in ChatSockets : OnceEach(chat_tasks'[v])
  BY <1>1, <1>4, <1>6
<1>12. TasksOnce'
  BY <1>9, <1>11 DEF DirectInv, TasksOnce
<1> QED BY <1>2, <1>4, <1>6, <1>7, <1>9, <1>10, <1>12 DEF Before

\* The task at the head of r is done, and z goes to u.
HeadGoes(r, u, z) ==
  chat_tasks' = [[chat_tasks EXCEPT ![r] = Tail(@)] EXCEPT ![u] = Append(@, z)]

\* One task is done, and one for the same request goes to u.
LEMMA ChatPasses ==
  ASSUME DirectInv, NEW r \in ChatSockets, chat_tasks[r] # <<>>,
         NEW h, h = Head(chat_tasks[r]), NEW u \in ChatSockets,
         NEW z \in Direct!Task, z.req = h.req, HeadGoes(r, u, z)
  PROVE  /\ h \in Direct!Task /\ Queued(r, h)
         /\ chat_tasks' \in [ChatSockets -> Seq(Direct!Task)] /\ TasksOnce'
         /\ \A v \in ChatSockets : \A x \in Direct!Task :
              Queued(v, x)' <=> (Queued(v, x) /\ x # h) \/ (v = u /\ x = z)
         /\ \A v \in ChatSockets : \A x, y \in Direct!Task :
              Before(v, x, y) /\ x # h => Before(v, x, y)'
         /\ \A x \in Direct!Task : Queued(u, x) /\ x # h => Before(u, x, z)'
         /\ \A x \in Direct!Task : ~Before(r, x, h)
<1>1. /\ chat_tasks \in [ChatSockets -> Seq(Direct!Task)]
      /\ \A v \in ChatSockets : OnceEach(chat_tasks[v])
  BY DEF DirectInv, DirectTypes, TasksOnce
<1>2. PICK m \in Seq(Direct!Task) : m = chat_tasks[r]
  BY <1>1
<1>3. m # <<>> /\ OnceEach(m) /\ h = Head(m)
  BY <1>1, <1>2
<1>4. /\ h \in Direct!Task /\ In(m, h)
      /\ Tail(m) \in Seq(Direct!Task) /\ OnceEach(Tail(m))
      /\ \A x \in Direct!Task : In(Tail(m), x) <=> In(m, x) /\ x # h
      /\ \A x, y \in Direct!Task : InOrder(m, x, y) /\ x # h => InOrder(Tail(m), x, y)
      /\ \A x \in Direct!Task : ~InOrder(m, x, h)
  BY <1>3, ChatTail
<1>5. Queued(r, h)
  BY <1>2, <1>4 DEF Queued
<1>6. \A v \in ChatSockets : \A x \in Direct!Task :
        Queued(v, x) /\ x.req = h.req => v = r /\ x = h
  BY <1>4, <1>5 DEF DirectInv, TasksOnce
<1>7. PICK c \in [ChatSockets -> Seq(Direct!Task)] :
        c = [chat_tasks EXCEPT ![r] = Tail(m)]
  BY <1>1, <1>4
<1>8. c[r] = Tail(m) /\ \A v \in ChatSockets \ {r} : c[v] = chat_tasks[v]
  BY <1>1, <1>7
<1>9. ASSUME NEW v \in ChatSockets, NEW x \in Direct!Task
      PROVE  In(c[v], x) <=> Queued(v, x) /\ x # h
  <2>1. CASE v = r
    BY <1>2, <1>4, <1>8, <2>1 DEF Queued
  <2>2. CASE v # r
    BY <1>6, <1>8, <2>2 DEF Queued
  <2> QED BY <2>1, <2>2
<1>10. ASSUME NEW v \in ChatSockets, NEW x \in Direct!Task, NEW y \in Direct!Task,
              Before(v, x, y), x # h
       PROVE  InOrder(c[v], x, y)
  <2>1. CASE v = r
    BY <1>2, <1>4, <1>8, <1>10, <2>1 DEF Before
  <2>2. CASE v # r
    BY <1>8, <1>10, <2>2 DEF Before
  <2> QED BY <2>1, <2>2
<1>11. \A v \in ChatSockets : OnceEach(c[v])
  BY <1>1, <1>4, <1>8
<1>12. PICK n \in Seq(Direct!Task) : n = c[u]
  OBVIOUS
<1>13. OnceEach(n) /\ \A x \in Direct!Task : In(n, x) => x.req # z.req
  BY <1>6, <1>9, <1>11, <1>12
<1>14. /\ Append(n, z) \in Seq(Direct!Task) /\ OnceEach(Append(n, z))
       /\ \A x \in Direct!Task : In(Append(n, z), x) <=> In(n, x) \/ x = z
       /\ \A x, y \in Direct!Task : InOrder(n, x, y) => InOrder(Append(n, z), x, y)
       /\ \A x \in Direct!Task : In(n, x) => InOrder(Append(n, z), x, z)
  BY <1>13, ChatAppend
<1>15. chat_tasks' = [c EXCEPT ![u] = Append(n, z)]
  BY <1>2, <1>7, <1>12 DEF HeadGoes
<1>16. /\ chat_tasks' \in [ChatSockets -> Seq(Direct!Task)]
       /\ chat_tasks'[u] = Append(n, z)
       /\ \A v \in ChatSockets \ {u} : chat_tasks'[v] = c[v]
  BY <1>14, <1>15
<1>17. ASSUME NEW v \in ChatSockets, NEW x \in Direct!Task
       PROVE  Queued(v, x)' <=> (Queued(v, x) /\ x # h) \/ (v = u /\ x = z)
  <2>1. CASE v = u
    BY <1>9, <1>12, <1>14, <1>16, <2>1 DEF Queued
  <2>2. CASE v # u
    BY <1>9, <1>16, <2>2 DEF Queued
  <2> QED BY <2>1, <2>2
<1>18. ASSUME NEW v \in ChatSockets, NEW x \in Direct!Task, NEW y \in Direct!Task,
              Before(v, x, y), x # h
       PROVE  Before(v, x, y)'
  <2>1. CASE v = u
    BY <1>10, <1>12, <1>14, <1>16, <1>18, <2>1 DEF Before
  <2>2. CASE v # u
    BY <1>10, <1>16, <1>18, <2>2 DEF Before
  <2> QED BY <2>1, <2>2
<1>19. \A x \in Direct!Task : Queued(u, x) /\ x # h => Before(u, x, z)'
  BY <1>9, <1>12, <1>14, <1>16 DEF Before
<1>20. \A v \in ChatSockets : OnceEach(chat_tasks'[v])
  BY <1>11, <1>14, <1>16
<1>21. ASSUME NEW v \in ChatSockets, NEW w \in ChatSockets, NEW x \in Direct!Task,
              NEW y \in Direct!Task, Queued(v, x)', Queued(w, y)', x.req = y.req
       PROVE  v = w /\ x = y
  <2>1. (Queued(v, x) /\ x.req # z.req) \/ (v = u /\ x = z)
    BY <1>6, <1>17, <1>21
  <2>2. (Queued(w, y) /\ y.req # z.req) \/ (w = u /\ y = z)
    BY <1>6, <1>17, <1>21
  <2> QED BY <1>21, <2>1, <2>2 DEF DirectInv, TasksOnce
<1>22. TasksOnce'
  BY <1>20, <1>21 DEF TasksOnce
<1> QED BY <1>2, <1>4, <1>5, <1>16, <1>17, <1>18, <1>19, <1>22 DEF Before

-----------------------------------------------------------------------------
(* What the steps of a request from s to t do to the two sockets, for s and *)
(* t different.                                                             *)

\* The id of a room, or 0 where none is known yet.
Ids0 == Direct!Ids \cup {0}

\* The rooms and tasks of the two sockets stay as they are.
SameRooms(s, t) == \A a, o \in Ids0 : Leads(s, t, a, o)' <=> Leads(s, t, a, o)
SameTasks(s, t) == \A x \in Direct!Task : Sent(s, t, x)' <=> Sent(s, t, x)

\* Ids are not 0, and a task has one or 0.
LEMMA ChatIds ==
  /\ MaxRequests \in Nat /\ Limit \in Nat /\ 0 \notin Direct!Ids
  /\ \A x \in Direct!Task : x.id \in Ids0 /\ x.other \in Ids0
<1>1. MaxRequests \in Nat /\ Limit \in Nat
  BY PartsAssumption DEF Direct!DirectChatAssumption
<1>2. 0 \notin Direct!Ids
  BY <1>1 DEF Direct!Ids
<1> QED BY <1>1, <1>2 DEF Direct!Task, Ids0

\* What follows of the tasks alone.
LEMMA SameBusy ==
  ASSUME NEW s, NEW t, SameTasks(s, t)
  PROVE  (Busy(s, t)' <=> Busy(s, t)) /\ (Accepting(s, t)' <=> Accepting(s, t))
BY DEF Busy, Accepting, SameTasks

\* Requests of other sockets change nothing.
LEMMA PairKept ==
  ASSUME NEW s \in ChatSockets, NEW t \in ChatSockets, PairOk(s, t),
         SameRooms(s, t), SameRooms(t, s), SameTasks(s, t), SameTasks(t, s),
         \A x, y \in Direct!Task :
           Sent(s, t, x) /\ Sent(t, s, y) /\ Before(s, x, y) => Before(s, x, y)'
  PROVE  PairOk(s, t)' /\ (Linked(s, t) => Linked(s, t)')
<1>1. OneRoom(s, t)'
  BY DEF PairOk, OneRoom, SameRooms, SameTasks, Ids0
<1>2. /\ Busy(s, t)' <=> Busy(s, t)
      /\ Busy(t, s)' <=> Busy(t, s)
      /\ Accepting(s, t)' <=> Accepting(s, t)
      /\ Accepting(t, s)' <=> Accepting(t, s)
  BY SameBusy
<1>3. CrossedIsLinked(s, t)'
  BY <1>2 DEF PairOk, CrossedIsLinked, SameRooms, Ids0
<1>4. AnswerIsNext(s, t)'
  <2> SUFFICES ASSUME NEW x \in Direct!Task, Sent(s, t, x)', x.step # "accept"
               PROVE  /\ Leads(s, t, x.id, 0)'
                      /\ \A b \in Direct!Ids : \A p \in Ids0 : Leads(t, s, b, p)' =>
                           /\ p = 0
                           /\ \E y \in Direct!Task : /\ Sent(t, s, y)'
                                /\ y.step = "accept" /\ Before(s, x, y)'
    BY DEF AnswerIsNext, Ids0
  <2>1. Sent(s, t, x) /\ x.id \in Ids0 /\ 0 \in Ids0
    BY ChatIds DEF SameTasks, Ids0
  <2>2. Leads(s, t, x.id, 0)'
    BY <2>1 DEF PairOk, AnswerIsNext, SameRooms
  <2>3. ASSUME NEW b \in Direct!Ids, NEW p \in Ids0, Leads(t, s, b, p)'
        PROVE  /\ p = 0
               /\ \E y \in Direct!Task : /\ Sent(t, s, y)'
                                         /\ y.step = "accept" /\ Before(s, x, y)'
    <3>1. Leads(t, s, b, p) /\ b \in Ids0
      BY <2>3 DEF SameRooms, Ids0
    <3>2. /\ p = 0
          /\ \E y \in Direct!Task :
               Sent(t, s, y) /\ y.step = "accept" /\ Before(s, x, y)
      BY <2>1, <3>1 DEF PairOk, AnswerIsNext, Ids0
    <3> QED BY <2>1, <3>2 DEF SameTasks
  <2> QED BY <2>2, <2>3
<1>5. UnlinkedIsAnswered(s, t)'
  BY <1>2 DEF PairOk, UnlinkedIsAnswered, SameRooms, Ids0
<1>6. Linked(s, t) => Linked(s, t)'
  BY <1>2 DEF Linked, SameRooms, Ids0
<1> QED BY <1>1, <1>3, <1>4, <1>5, <1>6 DEF PairOk

\* Open: s makes a room and asks t.
LEMMA PairOpens ==
  ASSUME NEW s \in ChatSockets, NEW t \in ChatSockets, PairOk(s, t), PairOk(t, s),
         NEW z \in Direct!Task, z.step = "accept", z.id \in Direct!Ids,
         \A a, o \in Ids0 : ~Leads(s, t, a, o),
         \A a, o \in Ids0 : Leads(s, t, a, o)' <=> a = z.id /\ o = 0,
         \A x \in Direct!Task : Sent(s, t, x)' <=> x = z,
         SameRooms(t, s), SameTasks(t, s),
         \A x \in Direct!Task :
           Sent(t, s, x) /\ x.step # "accept" => Before(t, x, z)'
  PROVE  /\ PairOk(s, t)' /\ PairOk(t, s)'
         /\ ~Linked(s, t) /\ ~Linked(t, s)
<1>1. /\ Busy(s, t)' /\ Accepting(s, t)'
      /\ Busy(t, s)' <=> Busy(t, s)
      /\ Accepting(t, s)' <=> Accepting(t, s)
  BY SameBusy DEF Busy, Accepting
<1>2. OneRoom(s, t)' /\ OneRoom(t, s)'
  BY DEF PairOk, OneRoom, SameRooms, SameTasks, Ids0
<1>3. CrossedIsLinked(s, t)'
  BY ChatIds DEF CrossedIsLinked, Ids0
<1>4. CrossedIsLinked(t, s)'
  <2> SUFFICES ASSUME NEW a \in Direct!Ids, NEW o \in Direct!Ids,
                      Leads(t, s, a, o)', Accepting(t, s)'
               PROVE  FALSE
    BY DEF CrossedIsLinked
  <2>1. Leads(t, s, a, o) /\ Accepting(t, s)
    BY <1>1 DEF SameRooms, Ids0
  <2>2. Leads(s, t, o, 0)
    BY <2>1 DEF PairOk, CrossedIsLinked
  <2> QED BY <2>2 DEF Ids0
<1>5. AnswerIsNext(s, t)'
  BY DEF AnswerIsNext
<1>6. AnswerIsNext(t, s)'
  <2> SUFFICES ASSUME NEW x \in Direct!Task, Sent(t, s, x)', x.step # "accept"
               PROVE  /\ Leads(t, s, x.id, 0)'
                      /\ \A b \in Direct!Ids : \A p \in Ids0 : Leads(s, t, b, p)' =>
                           /\ p = 0
                           /\ \E y \in Direct!Task : /\ Sent(s, t, y)'
                                /\ y.step = "accept" /\ Before(t, x, y)'
    BY DEF AnswerIsNext, Ids0
  <2>1. Sent(t, s, x) /\ x.id \in Ids0 /\ 0 \in Ids0
    BY ChatIds DEF SameTasks, Ids0
  <2>2. Leads(t, s, x.id, 0)'
    BY <2>1 DEF PairOk, AnswerIsNext, SameRooms
  <2>3. Sent(s, t, z)' /\ Before(t, x, z)'
    BY <2>1
  <2> QED BY <2>2, <2>3 DEF Ids0
<1>7. UnlinkedIsAnswered(s, t)'
  BY <1>1 DEF UnlinkedIsAnswered
<1>8. UnlinkedIsAnswered(t, s)'
  <2> SUFFICES ASSUME NEW a \in Direct!Ids, Leads(t, s, a, 0)', ~Busy(t, s)'
               PROVE  FALSE
    BY DEF UnlinkedIsAnswered
  <2>1. Leads(t, s, a, 0) /\ ~Busy(t, s)
    BY <1>1 DEF SameRooms, Ids0
  <2>2. \E b, p \in Direct!Ids : Leads(s, t, b, p)
    BY <2>1 DEF PairOk, UnlinkedIsAnswered
  <2> QED BY <2>2 DEF Ids0
<1>9. ~Linked(s, t) /\ ~Linked(t, s)
  BY DEF Linked, Ids0
<1> QED BY <1>2, <1>3, <1>4, <1>5, <1>6, <1>7, <1>8, <1>9 DEF PairOk

\* AcceptLimit and Accept: t has no room to s, and sends the request back.
LEMMA PairAnswers ==
  ASSUME NEW s \in ChatSockets, NEW t \in ChatSockets, PairOk(s, t), PairOk(t, s),
         NEW h \in Direct!Task, Sent(s, t, h), h.step = "accept",
         h.id \in Direct!Ids, \E o \in Ids0 : Leads(s, t, h.id, o),
         NEW z \in Direct!Task, z.step # "accept", z.id = h.id,
         \A a, o \in Ids0 : ~Leads(t, s, a, o), \A x \in Direct!Task : ~Sent(t, s, x),
         SameRooms(s, t), SameRooms(t, s), SameTasks(t, s),
         \A x \in Direct!Task : Sent(s, t, x)' <=> x = z
  PROVE  /\ PairOk(s, t)' /\ PairOk(t, s)'
         /\ ~Linked(s, t) /\ ~Linked(t, s)
<1>1. Busy(s, t)' /\ ~Accepting(s, t)' /\ ~Busy(t, s)' /\ ~Accepting(t, s)'
  BY DEF Busy, Accepting, SameTasks
<1>2. /\ \A a, o \in Ids0 : ~Leads(t, s, a, o)'
      /\ \A x \in Direct!Task : ~Sent(t, s, x)'
  BY DEF SameRooms, SameTasks
<1>3. Leads(s, t, h.id, 0)
  <2>1. PICK o \in Ids0 : Leads(s, t, h.id, o)
    OBVIOUS
  <2>2. o \notin Direct!Ids
    BY <2>1 DEF PairOk, CrossedIsLinked, Accepting, Ids0
  <2> QED BY <2>1, <2>2 DEF Ids0
<1>4. OneRoom(s, t)' /\ OneRoom(t, s)'
  BY <1>2 DEF PairOk, OneRoom, SameRooms, Ids0
<1>5. CrossedIsLinked(s, t)' /\ CrossedIsLinked(t, s)'
  BY <1>1 DEF CrossedIsLinked
<1>6. AnswerIsNext(s, t)'
  BY <1>2, <1>3 DEF AnswerIsNext, SameRooms, Ids0
<1>7. AnswerIsNext(t, s)'
  BY <1>2 DEF AnswerIsNext
<1>8. UnlinkedIsAnswered(s, t)' /\ UnlinkedIsAnswered(t, s)'
  BY <1>1, <1>2 DEF UnlinkedIsAnswered, Ids0
<1>9. ~Linked(s, t) /\ ~Linked(t, s)
  BY DEF Linked, Ids0
<1> QED BY <1>4, <1>5, <1>6, <1>7, <1>8, <1>9 DEF PairOk

\* RecipientLimit and Link: the answer of t has come back to s, which removes
\* its room or links it.
LEMMA PairAnswered ==
  ASSUME NEW s \in ChatSockets, NEW t \in ChatSockets, PairOk(s, t), PairOk(t, s),
         NEW h \in Direct!Task, Sent(s, t, h), h.step # "accept", h.id \in Direct!Ids,
         \A x \in Direct!Task : Sent(t, s, x) => \E o \in Ids0 : Leads(t, s, x.id, o),
         \A x \in Direct!Task : Sent(t, s, x) => x.id \in Direct!Ids,
         SameRooms(t, s), SameTasks(t, s),
         \A x \in Direct!Task : ~Sent(s, t, x)',
         \/ \A a, o \in Ids0 : ~Leads(s, t, a, o)'
         \/ \E p \in Direct!Ids : \A a, o \in Ids0 :
              Leads(s, t, a, o)' <=> a = h.id /\ o = p
  PROVE  /\ PairOk(s, t)' /\ PairOk(t, s)'
         /\ ~Linked(s, t) /\ ~Linked(t, s)
<1>1. ~Busy(s, t)' /\ ~Accepting(s, t)'
  BY DEF Busy, Accepting
<1>2. /\ Busy(t, s)' <=> Busy(t, s)
      /\ Accepting(t, s)' <=> Accepting(t, s)
  BY SameBusy
<1>3. Leads(s, t, h.id, 0)
  BY DEF PairOk, AnswerIsNext
<1>4. ASSUME NEW b \in Direct!Ids, NEW p \in Ids0, Leads(t, s, b, p)
      PROVE  p = 0 /\ Accepting(t, s) /\ Busy(t, s)
  BY <1>4 DEF PairOk, AnswerIsNext, Accepting, Busy, Ids0
<1>5. ASSUME NEW x \in Direct!Task, Sent(t, s, x) PROVE x.step = "accept"
  <2>1. Accepting(t, s)
    BY <1>4, <1>5
  <2> QED BY <1>5, <2>1 DEF Accepting, PairOk, OneRoom
<1>6. OneRoom(s, t)'
  BY DEF OneRoom, Ids0
<1>7. OneRoom(t, s)'
  BY DEF PairOk, OneRoom, SameRooms, SameTasks, Ids0
<1>8. CrossedIsLinked(s, t)'
  BY <1>1 DEF CrossedIsLinked
<1>9. CrossedIsLinked(t, s)'
  BY <1>4, ChatIds DEF CrossedIsLinked, SameRooms, Ids0
<1>10. AnswerIsNext(s, t)'
  BY DEF AnswerIsNext
<1>11. AnswerIsNext(t, s)'
  BY <1>5 DEF AnswerIsNext, SameTasks
<1>12. UnlinkedIsAnswered(s, t)'
  BY ChatIds DEF UnlinkedIsAnswered, Ids0
<1>13. UnlinkedIsAnswered(t, s)'
  BY <1>2, <1>4 DEF UnlinkedIsAnswered, SameRooms, Ids0
<1>14. ~Linked(s, t)
  BY <1>4, ChatIds DEF Linked, Ids0
<1>15. ~Linked(t, s)
  <2> SUFFICES ASSUME NEW a \in Direct!Ids, NEW b \in Direct!Ids, NEW o \in Ids0,
                      Leads(t, s, a, o), Leads(s, t, b, a)
               PROVE  FALSE
    BY DEF Linked, Ids0
  <2>1. b = h.id
    BY <1>3 DEF PairOk, OneRoom, Ids0
  <2> QED BY <1>3, <2>1, ChatIds DEF Leads
<1> QED BY <1>6, <1>7, <1>8, <1>9, <1>10, <1>11, <1>12, <1>13, <1>14, <1>15
        DEF PairOk

\* AcceptExisting: t has asked s as well, and its room is linked.
LEMMA PairCrossed ==
  ASSUME NEW s \in ChatSockets, NEW t \in ChatSockets, PairOk(s, t), PairOk(t, s),
         NEW h \in Direct!Task, Sent(s, t, h), h.step = "accept",
         h.id \in Direct!Ids, \E o \in Ids0 : Leads(s, t, h.id, o),
         NEW b \in Direct!Ids, Leads(t, s, b, 0),
         \A x \in Direct!Task : ~Before(t, x, h),
         SameRooms(s, t), SameTasks(t, s), \A x \in Direct!Task : ~Sent(s, t, x)',
         \A a, o \in Ids0 : Leads(t, s, a, o)' <=> a = b /\ o = h.id
  PROVE  /\ PairOk(s, t)' /\ PairOk(t, s)'
         /\ Linked(s, t)' /\ (Linked(t, s) => Linked(t, s)')
<1>1. PICK q \in Ids0 : Leads(s, t, h.id, q)
  OBVIOUS
<1>2. /\ ~Busy(s, t)' /\ ~Accepting(s, t)' /\ Accepting(s, t)
      /\ Busy(t, s)' <=> Busy(t, s)
      /\ Accepting(t, s)' <=> Accepting(t, s)
  BY SameBusy DEF Busy, Accepting
<1>3. ASSUME NEW x \in Direct!Task, Sent(t, s, x) PROVE x.step = "accept"
  <2> SUFFICES ASSUME x.step # "accept" PROVE FALSE
    OBVIOUS
  <2>1. \E y \in Direct!Task : Sent(s, t, y) /\ Before(t, x, y)
    BY <1>1, <1>3 DEF PairOk, AnswerIsNext, Ids0
  <2> QED BY <2>1 DEF PairOk, OneRoom
<1>4. Busy(t, s) => Accepting(t, s)
  BY <1>3 DEF Busy, Accepting
<1>5. \A a \in Direct!Ids : \A o \in Ids0 : Leads(t, s, a, o) => a = b /\ o = 0
  <2> SUFFICES ASSUME NEW a \in Direct!Ids, NEW o \in Ids0, Leads(t, s, a, o)
               PROVE  a = b /\ o = 0
    OBVIOUS
  <2>1. a = b
    BY DEF PairOk, OneRoom, Ids0
  <2> QED BY <2>1 DEF Leads
<1>6. \A a \in Direct!Ids : \A o \in Ids0 : Leads(s, t, a, o) => a = h.id /\ o = q
  <2> SUFFICES ASSUME NEW a \in Direct!Ids, NEW o \in Ids0, Leads(s, t, a, o)
               PROVE  a = h.id /\ o = q
    OBVIOUS
  <2>1. a = h.id
    BY <1>1 DEF PairOk, OneRoom, Ids0
  <2> QED BY <1>1, <2>1 DEF Leads
<1>7. q # 0 => q = b /\ ~Busy(t, s)
  <2> SUFFICES ASSUME q \in Direct!Ids PROVE q = b /\ ~Busy(t, s)
    BY DEF Ids0
  <2>1. ~Busy(t, s) /\ Leads(t, s, q, 0)
    BY <1>1, <1>2 DEF PairOk, CrossedIsLinked
  <2> QED BY <1>5, <2>1 DEF Ids0
<1>8. ~Busy(t, s) => q = b
  <2> SUFFICES ASSUME ~Busy(t, s) PROVE q # 0
    BY <1>7
  <2>1. \E c, p \in Direct!Ids : Leads(s, t, c, p)
    BY DEF PairOk, UnlinkedIsAnswered
  <2> QED BY <1>6, <2>1, ChatIds DEF Ids0
<1>9. /\ Leads(s, t, h.id, q)' /\ Leads(t, s, b, h.id)'
      /\ h.id \in Ids0 /\ b \in Ids0 /\ 0 \in Ids0
      /\ \A a, o \in Ids0 : Leads(s, t, a, o)' <=> Leads(s, t, a, o)
  BY <1>1 DEF SameRooms, Ids0
<1>10. OneRoom(s, t)' /\ OneRoom(t, s)'
  BY DEF PairOk, OneRoom, SameRooms, SameTasks, Ids0
<1>11. CrossedIsLinked(s, t)'
  BY <1>2 DEF CrossedIsLinked
<1>12. CrossedIsLinked(t, s)'
  <2> SUFFICES ASSUME NEW a \in Direct!Ids, NEW o \in Direct!Ids,
                      Leads(t, s, a, o)', Accepting(t, s)'
               PROVE  Leads(s, t, o, 0)'
    BY <1>2 DEF CrossedIsLinked
  <2>1. o = h.id /\ Busy(t, s)
    BY <1>2 DEF Ids0, Busy, Accepting
  <2>2. q = 0
    BY <1>7, <2>1
  <2> QED BY <1>9, <2>1, <2>2
<1>13. AnswerIsNext(s, t)'
  BY DEF AnswerIsNext
<1>14. AnswerIsNext(t, s)'
  BY <1>3 DEF AnswerIsNext, SameTasks
<1>15. UnlinkedIsAnswered(s, t)'
  <2> SUFFICES ASSUME NEW a \in Direct!Ids, Leads(s, t, a, 0)'
               PROVE  \E c, p \in Direct!Ids : /\ Leads(t, s, c, p)'
                                               /\ Accepting(t, s)' /\ p = a
    BY DEF UnlinkedIsAnswered
  <2>1. Leads(s, t, a, 0)
    BY <1>9 DEF Ids0
  <2>2. a = h.id /\ q = 0
    BY <1>6, <1>9, <2>1
  <2>3. q # b
    BY <2>2, ChatIds
  <2>4. Accepting(t, s)'
    BY <1>2, <1>4, <1>8, <2>3
  <2> QED BY <1>9, <2>2, <2>4
<1>16. UnlinkedIsAnswered(t, s)'
  BY <1>9, ChatIds DEF UnlinkedIsAnswered, Ids0
<1>17. Linked(s, t)'
  <2>1. q = b \/ (q = 0 /\ Accepting(t, s)')
    BY <1>2, <1>4, <1>7, <1>8
  <2> QED BY <1>1, <1>9, <2>1 DEF Linked, Ids0
<1>18. ASSUME Linked(t, s) PROVE Linked(t, s)'
  <2>1. PICK c \in Direct!Ids, d \in Direct!Ids : \E o \in Ids0 :
          Leads(t, s, c, o) /\ Leads(s, t, d, c)
    BY <1>18 DEF Linked, Ids0
  <2>2. c = b /\ d = h.id
    BY <1>5, <1>6, <2>1 DEF Ids0
  <2>3. q = b
    BY <1>6, <2>1, <2>2 DEF Ids0
  <2> QED BY <1>9, <2>3 DEF Linked, Ids0
<1> QED BY <1>10, <1>11, <1>12, <1>13, <1>14, <1>15, <1>16, <1>17, <1>18 DEF PairOk

\* AcceptExisting: the room of t to s is linked already.
LEMMA PairTold ==
  ASSUME NEW s \in ChatSockets, NEW t \in ChatSockets, PairOk(s, t), PairOk(t, s),
         NEW h \in Direct!Task, Sent(s, t, h), h.step = "accept",
         h.id \in Direct!Ids, \E o \in Ids0 : Leads(s, t, h.id, o),
         NEW b \in Direct!Ids, NEW p \in Direct!Ids, Leads(t, s, b, p),
         \A x \in Direct!Task : Sent(t, s, x) => x.id \in Direct!Ids,
         SameRooms(s, t), SameRooms(t, s), SameTasks(t, s),
         \A x \in Direct!Task : ~Sent(s, t, x)'
  PROVE  /\ PairOk(s, t)' /\ PairOk(t, s)'
         /\ ~Linked(s, t) /\ ~Linked(t, s)
<1>1. PICK q \in Ids0 : Leads(s, t, h.id, q)
  OBVIOUS
<1>2. /\ ~Busy(s, t)' /\ ~Accepting(s, t)' /\ Accepting(s, t) /\ Busy(s, t)
      /\ Busy(t, s)' <=> Busy(t, s)
      /\ Accepting(t, s)' <=> Accepting(t, s)
  BY SameBusy DEF Busy, Accepting
<1>3. \A a \in Direct!Ids : \A o \in Ids0 : Leads(t, s, a, o) => a = b /\ o = p
  <2> SUFFICES ASSUME NEW a \in Direct!Ids, NEW o \in Ids0, Leads(t, s, a, o)
               PROVE  a = b /\ o = p
    OBVIOUS
  <2>1. a = b
    BY DEF PairOk, OneRoom, Ids0
  <2> QED BY <2>1 DEF Leads
<1>4. \A a \in Direct!Ids : \A o \in Ids0 : Leads(s, t, a, o) => a = h.id /\ o = q
  <2> SUFFICES ASSUME NEW a \in Direct!Ids, NEW o \in Ids0, Leads(s, t, a, o)
               PROVE  a = h.id /\ o = q
    OBVIOUS
  <2>1. a = h.id
    BY <1>1 DEF PairOk, OneRoom, Ids0
  <2> QED BY <1>1, <2>1 DEF Leads
<1>5. q = 0
  <2> SUFFICES ASSUME q \in Direct!Ids PROVE FALSE
    BY DEF Ids0
  <2>1. Leads(t, s, q, 0)
    BY <1>1, <1>2 DEF PairOk, CrossedIsLinked
  <2> QED BY <1>3, <2>1, ChatIds DEF Ids0
<1>6. ~Busy(t, s)
  <2> SUFFICES ASSUME NEW x \in Direct!Task, Sent(t, s, x) PROVE FALSE
    BY DEF Busy
  <2>1. CASE x.step = "accept"
    <3>1. Accepting(t, s)
      BY <2>1 DEF Accepting
    <3> QED BY <1>2, <3>1 DEF PairOk, CrossedIsLinked
  <2>2. CASE x.step # "accept"
    <3>1. Leads(t, s, x.id, 0) /\ x.id \in Direct!Ids
      BY <2>2 DEF PairOk, AnswerIsNext
    <3> QED BY <1>3, <3>1, ChatIds DEF Ids0
  <2> QED BY <2>1, <2>2
<1>7. OneRoom(s, t)' /\ OneRoom(t, s)'
  BY DEF PairOk, OneRoom, SameRooms, SameTasks, Ids0
<1>8. CrossedIsLinked(s, t)' /\ AnswerIsNext(s, t)'
  BY <1>2 DEF CrossedIsLinked, AnswerIsNext
<1>9. CrossedIsLinked(t, s)' /\ AnswerIsNext(t, s)'
  BY <1>6 DEF CrossedIsLinked, AnswerIsNext, SameTasks, Busy, Accepting
<1>10. UnlinkedIsAnswered(s, t)'
  BY <1>2, <1>6 DEF UnlinkedIsAnswered, SameRooms, Ids0
<1>11. UnlinkedIsAnswered(t, s)'
  BY <1>3, ChatIds DEF UnlinkedIsAnswered, SameRooms, Ids0
<1>12. ~Linked(s, t) /\ ~Linked(t, s)
  BY <1>3, <1>4, <1>5, <1>6, ChatIds DEF Linked, Ids0, Busy, Accepting
<1> QED BY <1>7, <1>8, <1>9, <1>10, <1>11, <1>12 DEF PairOk

-----------------------------------------------------------------------------
(* What a step does to the requests it is not about. *)

\* The task h on the strand of r is done; the pairs of M are the sockets that
\* get a task for its request, and the task.
HeadStep(r, h, M) ==
  /\ h \in Direct!Task /\ Queued(r, h) /\ requests' = requests
  /\ chat_tasks' \in [ChatSockets -> Seq(Direct!Task)] /\ TasksOnce'
  /\ M \subseteq ChatSockets \X Direct!Task
  /\ \A v \in ChatSockets : \A x \in Direct!Task : <<v, x>> \in M =>
       /\ x.req = h.req /\ x.step # "open"
       /\ h.step # "open" => x.step # "accept"
  /\ \A v \in ChatSockets : \A x \in Direct!Task :
       Queued(v, x)' <=> (Queued(v, x) /\ x # h) \/ <<v, x>> \in M
  /\ \A v \in ChatSockets : \A x, y \in Direct!Task :
       Before(v, x, y) /\ x # h => Before(v, x, y)'

\* Done(r) is such a step.
LEMMA HeadDone ==
  ASSUME DirectInv, NEW r \in ChatSockets, chat_tasks[r] # <<>>,
         NEW h, h = Head(chat_tasks[r]), Direct!Done(r), requests' = requests
  PROVE  HeadStep(r, h, {}) /\ \A x \in Direct!Task : ~Before(r, x, h)
BY ChatDone DEF HeadStep

\* And so is Passes().
LEMMA HeadPasses ==
  ASSUME DirectInv, NEW r \in ChatSockets, chat_tasks[r] # <<>>,
         NEW h, h = Head(chat_tasks[r]), requests' = requests, NEW u \in ChatSockets,
         NEW z \in Direct!Task, z.req = h.req, z.step # "open",
         h.step # "open" => z.step # "accept",
         HeadGoes(r, u, z)
  PROVE  /\ HeadStep(r, h, {<<u, z>>})
         /\ \A x \in Direct!Task : Queued(u, x) /\ x # h => Before(u, x, z)'
<1> DEFINE M == {<<u, z>>}
<1>1. /\ M \subseteq ChatSockets \X Direct!Task
      /\ \A v, x : <<v, x>> \in M <=> v = u /\ x = z
  OBVIOUS
<1> HIDE DEF M
<1>2. /\ h \in Direct!Task /\ Queued(r, h)
      /\ chat_tasks' \in [ChatSockets -> Seq(Direct!Task)] /\ TasksOnce'
      /\ \A v \in ChatSockets : \A x \in Direct!Task :
           Queued(v, x)' <=> (Queued(v, x) /\ x # h) \/ (v = u /\ x = z)
      /\ \A v \in ChatSockets : \A x, y \in Direct!Task :
           Before(v, x, y) /\ x # h => Before(v, x, y)'
      /\ \A x \in Direct!Task : Queued(u, x) /\ x # h => Before(u, x, z)'
  BY ChatPasses
<1>3. HeadStep(r, h, M)
  BY <1>1, <1>2 DEF HeadStep
<1> QED BY <1>2, <1>3 DEF M

\* The tasks of requests between other sockets stay, and in their order.
LEMMA OtherTasks ==
  ASSUME NEW r \in ChatSockets, NEW h, NEW M, HeadStep(r, h, M),
         NEW s \in ChatSockets, NEW t \in ChatSockets,
         ~(requests[h.req].from = s /\ requests[h.req].to = t)
  PROVE  /\ SameTasks(s, t)
         /\ \A x, y \in Direct!Task :
              Sent(s, t, x) /\ Before(s, x, y) => Before(s, x, y)'
<1>1. ASSUME NEW x \in Direct!Task, requests[x.req].from = s, requests[x.req].to = t,
             NEW v \in ChatSockets
      PROVE  (Queued(v, x)' <=> Queued(v, x)) /\ x # h
  BY <1>1 DEF HeadStep
<1>2. SameTasks(s, t)
  BY <1>1 DEF SameTasks, Sent, HeadStep
<1>3. ASSUME NEW x \in Direct!Task, NEW y \in Direct!Task, Sent(s, t, x), Before(s, x, y)
      PROVE  Before(s, x, y)'
  BY <1>1, <1>3 DEF Sent, HeadStep
<1> QED BY <1>2, <1>3

\* The tasks of requests between the sockets of h.
LEMMA OwnTasks ==
  ASSUME NEW r \in ChatSockets, NEW h, NEW M, HeadStep(r, h, M),
         NEW s, NEW t, requests[h.req].from = s, requests[h.req].to = t
  PROVE  /\ h.step # "open" => Sent(s, t, h)
         /\ \A x \in Direct!Task : Sent(s, t, x)' <=>
              (Sent(s, t, x) /\ x # h) \/ \E v \in ChatSockets : <<v, x>> \in M
<1>1. h.step # "open" => Sent(s, t, h)
  BY DEF HeadStep, Sent
<1>2. ASSUME NEW x \in Direct!Task
      PROVE  Sent(s, t, x)' <=>
               (Sent(s, t, x) /\ x # h) \/ \E v \in ChatSockets : <<v, x>> \in M
  BY DEF HeadStep, Sent
<1> QED BY <1>1, <1>2

\* The request h goes on as z, or ends.
LEMMA OwnPassed ==
  ASSUME NEW r \in ChatSockets, NEW h, NEW M, HeadStep(r, h, M),
         NEW s, NEW t, requests[h.req].from = s, requests[h.req].to = t,
         \A x \in Direct!Task : Sent(s, t, x) => x = h
  PROVE  /\ \A u \in ChatSockets : \A z :
              (\A v, x : <<v, x>> \in M <=> v = u /\ x = z) =>
                \A x \in Direct!Task : Sent(s, t, x)' <=> x = z
         /\ (\A v, x : <<v, x>> \notin M) => \A x \in Direct!Task : ~Sent(s, t, x)'
<1>1. \A x \in Direct!Task : Sent(s, t, x)' <=> \E v \in ChatSockets : <<v, x>> \in M
  <2>1. \A x \in Direct!Task : Sent(s, t, x)' <=>
          (Sent(s, t, x) /\ x # h) \/ \E v \in ChatSockets : <<v, x>> \in M
    BY OwnTasks
  <2> QED BY <2>1
<1>2. ASSUME NEW u \in ChatSockets, NEW z, \A v, x : <<v, x>> \in M <=> v = u /\ x = z
      PROVE  \A x \in Direct!Task : Sent(s, t, x)' <=> x = z
  <2>1. <<u, z>> \in M
    BY <1>2
  <2>2. \A x : \A v \in ChatSockets : <<v, x>> \in M => x = z
    BY <1>2
  <2> QED BY <1>1, <2>1, <2>2
<1>3. ASSUME \A v, x : <<v, x>> \notin M PROVE \A x \in Direct!Task : ~Sent(s, t, x)'
  BY <1>1, <1>3
<1> QED BY <1>2, <1>3

\* Which requests wait, and for what.
LEMMA OtherWaits ==
  ASSUME DirectInv, NEW r \in ChatSockets, NEW h, NEW M, HeadStep(r, h, M), NEW steps
  PROVE  /\ \A k : k # h.req => (Waiting(k, steps)' <=> Waiting(k, steps))
         /\ Waiting(h.req, steps) <=> h.step \in steps
         /\ Waiting(h.req, steps)' <=> \E v \in ChatSockets : \E x \in Direct!Task :
              <<v, x>> \in M /\ x.step \in steps
<1>1. \A k : k # h.req => (Waiting(k, steps)' <=> Waiting(k, steps))
  BY DEF HeadStep, Waiting
<1>2. Waiting(h.req, steps) <=> h.step \in steps
  BY DEF HeadStep, Waiting, DirectInv, TasksOnce
<1>3. \A v \in ChatSockets : \A x \in Direct!Task :
        Queued(v, x)' /\ x.req = h.req <=> <<v, x>> \in M
  BY DEF HeadStep, DirectInv, TasksOnce
<1>4. Waiting(h.req, steps)' <=> \E v \in ChatSockets : \E x \in Direct!Task :
        <<v, x>> \in M /\ x.step \in steps
  BY <1>3 DEF Waiting
<1> QED BY <1>1, <1>2, <1>4

\* A set of requests is no larger than their number.
LEMMA RequestsCounted ==
  ASSUME DirectTypes, NEW S \in SUBSET (1 .. Len(requests))
  PROVE  /\ IsFiniteSet(S) /\ Cardinality(S) \in Nat
         /\ Len(requests) \in Nat /\ Cardinality(S) <= Len(requests)
<1>1. Len(requests) \in Nat
  BY DEF DirectTypes
<1>2. IsFiniteSet(1 .. Len(requests)) /\ Cardinality(1 .. Len(requests)) = Len(requests)
  BY <1>1, FS_Interval
<1> QED BY <1>1, <1>2, FS_Subset, FS_CardinalityType

\* Nothing that was opened or accepted ceases to be.
LEMMA CountsGrow ==
  ASSUME DirectInv, NEW r \in ChatSockets, NEW h, NEW M, HeadStep(r, h, M)
  PROVE  /\ \A s \in ChatSockets :
              Opened(s) \subseteq Opened(s)' /\ Accepted(s) \subseteq Accepted(s)'
         /\ \A s \in ChatSockets : requests[h.req].from = s /\ h.step = "open" =>
              h.req \in Opened(s)' /\ h.req \notin Opened(s)
         /\ \A s \in ChatSockets : requests[h.req].to = s /\ h.step = "accept" =>
              h.req \in Accepted(s)' /\ h.req \notin Accepted(s)
<1>1. h.req \in 1 .. Len(requests) /\ requests' = requests
  BY DEF DirectInv, HeadStep, TaskPlaced
<1>2. /\ \A k : k # h.req => (Waiting(k, {"open"})' <=> Waiting(k, {"open"}))
      /\ Waiting(h.req, {"open"}) <=> h.step = "open"
      /\ ~Waiting(h.req, {"open"})'
  <2>1. /\ \A k : k # h.req => (Waiting(k, {"open"})' <=> Waiting(k, {"open"}))
        /\ Waiting(h.req, {"open"}) <=> h.step \in {"open"}
        /\ Waiting(h.req, {"open"})' <=> \E v \in ChatSockets : \E x \in Direct!Task :
              <<v, x>> \in M /\ x.step \in {"open"}
    BY OtherWaits
  <2> QED BY <2>1 DEF HeadStep
<1>3. /\ \A k : k # h.req =>
           (Waiting(k, {"open", "accept"})' <=> Waiting(k, {"open", "accept"}))
      /\ Waiting(h.req, {"open", "accept"}) <=> h.step \in {"open", "accept"}
      /\ h.step # "open" => ~Waiting(h.req, {"open", "accept"})'
  <2>1. /\ \A k : k # h.req =>
             (Waiting(k, {"open", "accept"})' <=> Waiting(k, {"open", "accept"}))
        /\ Waiting(h.req, {"open", "accept"}) <=> h.step \in {"open", "accept"}
        /\ Waiting(h.req, {"open", "accept"})' <=>
             \E v \in ChatSockets : \E x \in Direct!Task :
               <<v, x>> \in M /\ x.step \in {"open", "accept"}
    BY OtherWaits
  <2> QED BY <2>1 DEF HeadStep
<1> QED BY <1>1, <1>2, <1>3 DEF Opened, Accepted

\* The bound holds on where no room is made, and for the room of a request.
LEMMA IdsKept ==
  ASSUME DirectInv, DirectTypes', NEW s \in ChatSockets,
         Opened(s) \subseteq Opened(s)', Accepted(s) \subseteq Accepted(s)',
         \/ next_id'[s] = next_id[s]
         \/ /\ next_id'[s] = next_id[s] + 1
            /\ \E k : \/ k \in Opened(s)' /\ k \notin Opened(s)
                      \/ k \in Accepted(s)' /\ k \notin Accepted(s)
  PROVE  IdsCounted(s)'
<1>1. PICK A, B, C, D : /\ A = Opened(s) /\ B = Opened(s)'
                        /\ C = Accepted(s) /\ D = Accepted(s)'
  OBVIOUS
<1>2. B \subseteq (1 .. Len(requests))' /\ D \subseteq (1 .. Len(requests))'
  BY <1>1 DEF Opened, Accepted
<1>3. IsFiniteSet(B) /\ IsFiniteSet(D)
  <2>1. Len(requests)' \in Nat
    BY DEF DirectTypes
  <2>2. IsFiniteSet(1 .. Len(requests)')
    BY <2>1, FS_Interval
  <2> QED BY <1>2, <2>2, FS_Subset
<1>4. /\ IsFiniteSet(A) /\ IsFiniteSet(C)
      /\ Cardinality(A) <= Cardinality(B) /\ Cardinality(C) <= Cardinality(D)
      /\ A # B => Cardinality(A) # Cardinality(B)
      /\ C # D => Cardinality(C) # Cardinality(D)
  BY <1>1, <1>3, FS_Subset
<1>5. /\ Cardinality(A) \in Nat /\ Cardinality(B) \in Nat
      /\ Cardinality(C) \in Nat /\ Cardinality(D) \in Nat
  BY <1>3, <1>4, FS_CardinalityType
<1>6. next_id[s] \in Nat /\ next_id[s] - 1 <= Cardinality(A) + Cardinality(C)
  BY <1>1 DEF DirectInv, DirectTypes, RoomTypes, IdsCounted
<1>7. \/ next_id'[s] = next_id[s]
      \/ next_id'[s] = next_id[s] + 1 /\ (A # B \/ C # D)
  BY <1>1
<1>8. next_id'[s] - 1 <= Cardinality(B) + Cardinality(D)
  BY <1>4, <1>5, <1>6, <1>7
<1> QED BY <1>1, <1>8 DEF IdsCounted

\* A request that is opened or accepted has an id left for its room.
LEMMA IdLeft ==
  ASSUME DirectInv, NEW s \in ChatSockets, NEW k \in 1 .. Len(requests),
         k \notin Opened(s) \/ k \notin Accepted(s)
  PROVE  next_id[s] \in Direct!Ids
<1>1. PICK n \in Nat : n = Len(requests)
  BY DEF DirectInv, DirectTypes
<1>2. PICK A, C : A = Opened(s) /\ C = Accepted(s)
  OBVIOUS
<1>3. A \subseteq 1 .. n /\ C \subseteq 1 .. n /\ (A # 1 .. n \/ C # 1 .. n)
  BY <1>1, <1>2 DEF Opened, Accepted
<1>4. IsFiniteSet(1 .. n) /\ Cardinality(1 .. n) = n
  BY FS_Interval
<1>5. /\ IsFiniteSet(A) /\ IsFiniteSet(C)
      /\ Cardinality(A) <= n /\ Cardinality(C) <= n
      /\ A # 1 .. n => Cardinality(A) # n
      /\ C # 1 .. n => Cardinality(C) # n
  BY <1>3, <1>4, FS_Subset
<1>6. Cardinality(A) \in Nat /\ Cardinality(C) \in Nat
  BY <1>5, FS_CardinalityType
<1>7. /\ next_id[s] \in Nat \ {0} /\ n <= MaxRequests /\ MaxRequests \in Nat
      /\ next_id[s] - 1 <= Cardinality(A) + Cardinality(C)
  BY <1>1, <1>2, ChatIds DEF DirectInv, DirectTypes, RoomTypes, IdsCounted
<1>8. next_id[s] <= 2 * MaxRequests
  BY <1>3, <1>5, <1>6, <1>7
<1> QED BY <1>7, <1>8 DEF Direct!Ids

-----------------------------------------------------------------------------
(* The rooms of a socket. *)

\* A socket has finitely many rooms, and 1 to next_id - 1 have been given away.
LEMMA RoomsFinite ==
  ASSUME RoomTypes, NEW v \in ChatSockets
  PROVE  /\ IsFiniteSet(DOMAIN rooms[v]) /\ Cardinality(DOMAIN rooms[v]) \in Nat
         /\ next_id[v] \notin DOMAIN rooms[v]
<1>1. next_id[v] \in Nat \ {0} /\ DOMAIN rooms[v] \subseteq 1 .. next_id[v] - 1
  BY DEF RoomTypes
<1>2. IsFiniteSet(1 .. next_id[v] - 1)
  BY <1>1, FS_Interval
<1> QED BY <1>1, <1>2, FS_Subset, FS_CardinalityType

\* emplace() of a room with a new id; a room is told of the other end; removed.
AddsRoom(v, n, w, o) ==
  /\ rooms' = [rooms EXCEPT ![v] = Direct!With(@, n, w, o)]
  /\ next_id' = [next_id EXCEPT ![v] = @ + 1]
LinksRoom(v, i, o) ==
  rooms' = [rooms EXCEPT ![v][i].other = o] /\ next_id' = next_id
RemovesRoom(v, i) ==
  /\ rooms' = [rooms EXCEPT ![v] = Direct!Restrict(@, DOMAIN @ \ {i})]
  /\ next_id' = next_id

\* A room is added.
LEMMA RoomAdded ==
  ASSUME RoomTypes, NEW v \in ChatSockets, NEW w \in ChatSockets,
         NEW n \in Direct!Ids, n = next_id[v], NEW o \in Ids0,
         Cardinality(DOMAIN rooms[v]) < Limit, AddsRoom(v, n, w, o)
  PROVE  /\ RoomTypes'
         /\ \A c \in ChatSockets : \A d, a, q : Leads(c, d, a, q)' <=>
              Leads(c, d, a, q) \/ (c = v /\ d = w /\ a = n /\ q = o)
         /\ \A d, q : ~Leads(v, d, n, q)
         /\ next_id'[v] = next_id[v] + 1
         /\ \A c \in ChatSockets \ {v} : next_id'[c] = next_id[c]
<1>1. PICK R : R = rooms[v]
  OBVIOUS
<1>2. /\ rooms = [c \in ChatSockets |-> rooms[c]] /\ next_id \in [ChatSockets -> Nat \ {0}]
      /\ R \in [DOMAIN R -> Direct!Room] /\ DOMAIN R \subseteq 1 .. n - 1
      /\ n \in Nat \ {0}
  BY <1>1 DEF RoomTypes
<1>3. PICK W : W = Direct!With(R, n, w, o)
  OBVIOUS
<1>4. [peer |-> w, other |-> o] \in Direct!Room
  BY DEF Direct!Room, Ids0
<1>5. /\ W \in [DOMAIN R \cup {n} -> Direct!Room]
      /\ W[n] = [peer |-> w, other |-> o]
      /\ \A i \in DOMAIN R : i # n /\ W[i] = R[i]
  <2>1. \A i \in DOMAIN R : i # n
    BY <1>2
  <2> QED BY <1>2, <1>3, <1>4, <2>1 DEF Direct!With
<1>6. DOMAIN W = DOMAIN R \cup {n} /\ W \in [DOMAIN W -> Direct!Room]
  BY <1>5
<1>7. /\ rooms' = [c \in ChatSockets |-> rooms'[c]] /\ rooms'[v] = W
      /\ \A c \in ChatSockets \ {v} : rooms'[c] = rooms[c]
  <2>1. rooms' = [rooms EXCEPT ![v] = W]
    BY <1>1, <1>3 DEF AddsRoom
  <2> QED BY <1>2, <2>1
<1>8. /\ next_id' \in [ChatSockets -> Nat \ {0}] /\ next_id'[v] = n + 1
      /\ \A c \in ChatSockets \ {v} : next_id'[c] = next_id[c]
  BY <1>2 DEF AddsRoom
<1>9. DOMAIN W \subseteq 1 .. (n + 1) - 1
  BY <1>2, <1>6
<1>10. Cardinality(DOMAIN W) <= Limit
  <2>1. IsFiniteSet(DOMAIN R) /\ Cardinality(DOMAIN R) \in Nat /\ n \notin DOMAIN R
    BY <1>1, RoomsFinite
  <2>2. Cardinality(DOMAIN R \cup {n}) = Cardinality(DOMAIN R) + 1
    BY <2>1, FS_AddElement
  <2>3. Cardinality(DOMAIN R) < Limit /\ Limit \in Nat
    BY <1>1, ChatIds
  <2> QED BY <1>6, <2>1, <2>2, <2>3
<1>11. ASSUME NEW c \in ChatSockets
       PROVE  /\ rooms'[c] \in [DOMAIN rooms'[c] -> Direct!Room]
              /\ DOMAIN rooms'[c] \subseteq 1 .. next_id'[c] - 1
              /\ Cardinality(DOMAIN rooms'[c]) <= Limit
  <2>1. CASE c = v
    BY <1>6, <1>7, <1>8, <1>9, <1>10, <2>1
  <2>2. CASE c # v
    BY <1>7, <1>8, <2>2 DEF RoomTypes
  <2> QED BY <2>1, <2>2
<1>12. RoomTypes'
  BY <1>7, <1>8, <1>11 DEF RoomTypes
<1>13. ASSUME NEW c \in ChatSockets, NEW d, NEW a, NEW q
       PROVE  Leads(c, d, a, q)' <=>
                Leads(c, d, a, q) \/ (c = v /\ d = w /\ a = n /\ q = o)
  <2>1. CASE c # v
    BY <1>7, <2>1 DEF Leads
  <2>2. CASE c = v /\ a = n
    <3>1. ~Leads(c, d, a, q)
      BY <1>1, <1>2, <2>2 DEF Leads
    <3>2. W[n].peer = w /\ W[n].other = o /\ n \in DOMAIN W
      BY <1>5, <1>6
    <3> QED BY <1>7, <2>2, <3>1, <3>2 DEF Leads
  <2>3. CASE c = v /\ a # n
    <3>1. a \in DOMAIN W <=> a \in DOMAIN R
      BY <1>6, <2>3
    <3>2. a \in DOMAIN R => W[a] = R[a]
      BY <1>5
    <3> QED BY <1>1, <1>7, <2>3, <3>1, <3>2 DEF Leads
  <2> QED BY <2>1, <2>2, <2>3
<1>14. \A d, q : ~Leads(v, d, n, q)
  BY <1>1, <1>2 DEF Leads
<1> QED BY <1>8, <1>12, <1>13, <1>14

\* A room is told the id of the other end.
LEMMA RoomLinked ==
  ASSUME RoomTypes, NEW v \in ChatSockets, NEW i \in DOMAIN rooms[v], NEW o \in Ids0,
         LinksRoom(v, i, o)
  PROVE  /\ RoomTypes'
         /\ \A c \in ChatSockets : \A d, a, q : Leads(c, d, a, q)' <=>
              IF c = v /\ a = i THEN rooms[v][i].peer = d /\ q = o
              ELSE Leads(c, d, a, q)
<1>1. PICK R : R = rooms[v]
  OBVIOUS
<1>2. /\ rooms = [c \in ChatSockets |-> rooms[c]]
      /\ R \in [DOMAIN R -> Direct!Room] /\ i \in DOMAIN R
  BY <1>1 DEF RoomTypes
<1>3. PICK W : W = [R EXCEPT ![i] = [R[i] EXCEPT !.other = o]]
  OBVIOUS
<1>4. R[i] \in [peer : ChatSockets, other : Ids0]
  BY <1>2 DEF Direct!Room, Ids0
<1>5. PICK x \in [peer : ChatSockets, other : Ids0] : x = [R[i] EXCEPT !.other = o]
  BY <1>4
<1>6. x.peer = R[i].peer /\ x.other = o /\ x \in Direct!Room
  BY <1>4, <1>5 DEF Direct!Room, Ids0
<1>7. /\ W \in [DOMAIN R -> Direct!Room] /\ DOMAIN W = DOMAIN R /\ W[i] = x
      /\ \A a \in DOMAIN R \ {i} : W[a] = R[a]
  BY <1>2, <1>3, <1>5, <1>6
<1>8. /\ rooms' = [c \in ChatSockets |-> rooms'[c]] /\ rooms'[v] = W
      /\ \A c \in ChatSockets \ {v} : rooms'[c] = rooms[c]
  <2>1. rooms' = [rooms EXCEPT ![v] = W]
    BY <1>1, <1>3 DEF LinksRoom
  <2> QED BY <1>2, <2>1
<1>9. ASSUME NEW c \in ChatSockets
      PROVE  /\ rooms'[c] \in [DOMAIN rooms'[c] -> Direct!Room]
             /\ DOMAIN rooms'[c] = DOMAIN rooms[c]
  <2>1. CASE c = v
    BY <1>1, <1>7, <1>8, <2>1
  <2>2. CASE c # v
    BY <1>8, <2>2 DEF RoomTypes
  <2> QED BY <2>1, <2>2
<1>10. RoomTypes'
  BY <1>8, <1>9 DEF RoomTypes, LinksRoom
<1>11. ASSUME NEW c \in ChatSockets, NEW d, NEW a, NEW q
       PROVE  Leads(c, d, a, q)' <=>
                IF c = v /\ a = i THEN rooms[v][i].peer = d /\ q = o
                ELSE Leads(c, d, a, q)
  <2>1. CASE c # v
    BY <1>8, <2>1 DEF Leads
  <2>2. CASE c = v /\ a = i
    BY <1>1, <1>2, <1>6, <1>7, <1>8, <2>2 DEF Leads
  <2>3. CASE c = v /\ a # i
    BY <1>1, <1>7, <1>8, <2>3 DEF Leads
  <2> QED BY <2>1, <2>2, <2>3
<1> QED BY <1>10, <1>11

\* A room is removed.
LEMMA RoomRemoved ==
  ASSUME RoomTypes, NEW v \in ChatSockets, NEW i, RemovesRoom(v, i)
  PROVE  /\ RoomTypes'
         /\ \A c \in ChatSockets : \A d, a, q : Leads(c, d, a, q)' <=>
              Leads(c, d, a, q) /\ ~(c = v /\ a = i)
<1>1. PICK R : R = rooms[v]
  OBVIOUS
<1>2. /\ rooms = [c \in ChatSockets |-> rooms[c]]
      /\ R \in [DOMAIN R -> Direct!Room]
  BY <1>1 DEF RoomTypes
<1>3. PICK W : W = [a \in DOMAIN R \ {i} |-> R[a]]
  OBVIOUS
<1>4. /\ W \in [DOMAIN W -> Direct!Room] /\ DOMAIN W = DOMAIN R \ {i}
      /\ \A a \in DOMAIN W : W[a] = R[a]
  BY <1>2, <1>3
<1>5. /\ rooms' = [c \in ChatSockets |-> rooms'[c]] /\ rooms'[v] = W
      /\ \A c \in ChatSockets \ {v} : rooms'[c] = rooms[c]
  <2>1. Direct!Restrict(R, DOMAIN R \ {i}) = W
    BY <1>3 DEF Direct!Restrict
  <2>2. rooms' = [rooms EXCEPT ![v] = W]
    BY <1>1, <2>1 DEF RemovesRoom
  <2> QED BY <1>2, <2>2
<1>6. Cardinality(DOMAIN W) <= Limit
  <2>1. IsFiniteSet(DOMAIN R) /\ Cardinality(DOMAIN R) \in Nat
        /\ Cardinality(DOMAIN R) <= Limit /\ Limit \in Nat
    BY <1>1, RoomsFinite, ChatIds DEF RoomTypes
  <2>2. IsFiniteSet(DOMAIN W) /\ Cardinality(DOMAIN W) <= Cardinality(DOMAIN R)
    BY <1>4, <2>1, FS_Subset
  <2>3. Cardinality(DOMAIN W) \in Nat
    BY <2>2, FS_CardinalityType
  <2> QED BY <2>1, <2>2, <2>3
<1>7. ASSUME NEW c \in ChatSockets
      PROVE  /\ rooms'[c] \in [DOMAIN rooms'[c] -> Direct!Room]
             /\ DOMAIN rooms'[c] \subseteq DOMAIN rooms[c]
             /\ Cardinality(DOMAIN rooms'[c]) <= Limit
  <2>1. CASE c = v
    BY <1>1, <1>4, <1>5, <1>6, <2>1
  <2>2. CASE c # v
    BY <1>5, <2>2 DEF RoomTypes
  <2> QED BY <2>1, <2>2
<1>8. RoomTypes'
  BY <1>5, <1>7 DEF RoomTypes, RemovesRoom
<1>9. ASSUME NEW c \in ChatSockets, NEW d, NEW a, NEW q
      PROVE  Leads(c, d, a, q)' <=> Leads(c, d, a, q) /\ ~(c = v /\ a = i)
  <2>1. CASE c # v
    BY <1>5, <2>1 DEF Leads
  <2>2. CASE c = v
    BY <1>1, <1>4, <1>5, <2>2 DEF Leads
  <2> QED BY <2>1, <2>2
<1> QED BY <1>8, <1>9

-----------------------------------------------------------------------------
(* The invariant. *)

\* The chat of a socket with itself stays as it is.
LEMMA SelfKept ==
  ASSUME NEW s, SelfOk(s), SameTasks(s, s),
         \A a \in Ids0 : Leads(s, s, a, 0)' <=> Leads(s, s, a, 0)
  PROVE  SelfOk(s)'
<1>1. ASSUME NEW x \in Direct!Task, Sent(s, s, x)'
      PROVE  /\ x.step = "accept" /\ Leads(s, s, x.id, 0)'
             /\ \A a \in Direct!Ids : Leads(s, s, a, 0)' => a = x.id
  <2>1. Sent(s, s, x) /\ x.id \in Ids0
    BY <1>1, ChatIds DEF SameTasks
  <2> QED BY <2>1 DEF SelfOk, Ids0
<1>2. \A x, y \in Direct!Task : Sent(s, s, x)' /\ Sent(s, s, y)' => x = y
  BY DEF SelfOk, SameTasks
<1> QED BY <1>1, <1>2 DEF SelfOk

\* A task that waits, its request and the room that was made for it.
LEMMA QueuedFacts ==
  ASSUME DirectInv, NEW r \in ChatSockets, NEW h \in Direct!Task, Queued(r, h)
  PROVE  /\ h.req \in 1 .. Len(requests) /\ answers[h.req] = <<>>
         /\ requests[h.req].from \in ChatSockets /\ requests[h.req].to \in ChatSockets
         /\ h.step = "accept" => r = requests[h.req].to
         /\ h.step # "accept" => r = requests[h.req].from
         /\ h.step # "open" =>
              /\ h.id \in Direct!Ids
              /\ \E o \in Ids0 :
                   Leads(requests[h.req].from, requests[h.req].to, h.id, o)
         /\ h.step = "link" => h.other \in Direct!Ids
<1>1. TaskPlaced(r, h)
  BY DEF DirectInv
<1>2. h.req \in 1 .. Len(requests)
  BY <1>1 DEF TaskPlaced
<1>3. requests \in Seq(ChatRequest)
  BY DEF DirectInv, DirectTypes
<1>4. requests[h.req] \in ChatRequest
  BY <1>2, <1>3
<1> QED BY <1>1, <1>2, <1>4, ChatIds DEF TaskPlaced, Ids0, ChatRequest

\* What a step of the request h, between f and g, has to do: only h is answered,
\* only its rooms are made, the tasks of M are right, every request keeps its
\* room, nobody else's rooms change, f and g are right, and every socket is with
\* itself.
AnswersKept(h) ==
  /\ answers' \in Seq(Seq(Direct!Answer)) /\ Len(answers') = Len(answers)
  /\ \A k \in 1 .. Len(requests) : k # h.req => answers'[k] = answers[k]
IdsMove(h, f, g) ==
  \A s \in ChatSockets :
    \/ next_id'[s] = next_id[s]
    \/ /\ next_id'[s] = next_id[s] + 1
       /\ (h.step = "open" /\ s = f) \/ (h.step = "accept" /\ s = g)
PlacesTasks(M) ==
  \A v \in ChatSockets : \A x \in Direct!Task : <<v, x>> \in M => TaskPlaced(v, x)'
RoomsThere(h) ==
  \A v \in ChatSockets : \A x \in Direct!Task :
    Queued(v, x) /\ x # h /\ x.step # "open" => \E o \in Ids0 :
      Leads(requests[x.req].from, requests[x.req].to, x.id, o)'
RoomsElsewhere(f, g) ==
  \A s, t \in ChatSockets :
    s # t /\ ~(s = f /\ t = g) /\ ~(s = g /\ t = f) => SameRooms(s, t)
PairRight(f, g) ==
  f # g => /\ PairOk(f, g)' /\ PairOk(g, f)'
           /\ Linked(f, g) => Linked(f, g)'
           /\ Linked(g, f) => Linked(g, f)'
SelvesRight ==
  \A s \in ChatSockets : SelfOk(s)' /\ (SelfLinked(s) => SelfLinked(s)')

\* Such a step keeps the invariant.
LEMMA DirectKept ==
  ASSUME DirectInv, NEW r \in ChatSockets, NEW h, NEW M, HeadStep(r, h, M),
         NEW f \in ChatSockets, NEW g \in ChatSockets,
         requests[h.req].from = f, requests[h.req].to = g,
         RoomTypes', AnswersKept(h), IdsMove(h, f, g), PlacesTasks(M), RoomsThere(h),
         RoomsElsewhere(f, g), PairRight(f, g), SelvesRight, RequestOk(h.req)'
  PROVE  DirectInv'
<1>1. requests' = requests /\ TasksOnce' /\ h \in Direct!Task /\ Queued(r, h)
  BY DEF HeadStep
<1>2. DirectTypes'
  BY <1>1 DEF HeadStep, DirectInv, DirectTypes, AnswersKept
<1>3. ASSUME NEW v \in ChatSockets, NEW x \in Direct!Task, Queued(v, x)'
      PROVE  TaskPlaced(v, x)'
  <2>1. CASE <<v, x>> \in M
    BY <2>1 DEF PlacesTasks
  <2>2. CASE Queued(v, x) /\ x # h
    <3>1. TaskPlaced(v, x) /\ x.req # h.req
      BY <1>1, <2>2 DEF DirectInv, TasksOnce
    <3>2. x.req \in 1 .. Len(requests) /\ answers'[x.req] = <<>>
      BY <3>1 DEF TaskPlaced, AnswersKept
    <3>3. x.step # "open" => \E o \in Ids0 :
             Leads(requests[x.req].from, requests[x.req].to, x.id, o)'
      BY <2>2 DEF RoomsThere
    <3> QED BY <1>1, <3>1, <3>2, <3>3 DEF TaskPlaced, Ids0
  <2> QED BY <1>3, <2>1, <2>2 DEF HeadStep
<1>4. ASSUME NEW s \in ChatSockets PROVE IdsCounted(s)'
  <2>1. Opened(s) \subseteq Opened(s)' /\ Accepted(s) \subseteq Accepted(s)'
    BY CountsGrow
  <2>2. h.step = "open" /\ s = f => h.req \in Opened(s)' /\ h.req \notin Opened(s)
    BY CountsGrow
  <2>3. h.step = "accept" /\ s = g => h.req \in Accepted(s)' /\ h.req \notin Accepted(s)
    BY CountsGrow
  <2>4. \/ next_id'[s] = next_id[s]
        \/ /\ next_id'[s] = next_id[s] + 1
           /\ \E k : \/ k \in Opened(s)' /\ k \notin Opened(s)
                     \/ k \in Accepted(s)' /\ k \notin Accepted(s)
    BY <2>2, <2>3 DEF IdsMove
  <2> QED BY <1>2, <2>1, <2>4, IdsKept
<1>5. ASSUME NEW s \in ChatSockets, NEW t \in ChatSockets, s # t
      PROVE  PairOk(s, t)' /\ (Linked(s, t) => Linked(s, t)')
  <2>1. CASE (s = f /\ t = g) \/ (s = g /\ t = f)
    BY <1>5, <2>1 DEF PairRight
  <2>2. CASE ~(s = f /\ t = g) /\ ~(s = g /\ t = f)
    <3>1. /\ SameRooms(s, t) /\ SameRooms(t, s) /\ SameTasks(t, s) /\ SameTasks(s, t)
          /\ \A x, y \in Direct!Task :
               Sent(s, t, x) /\ Before(s, x, y) => Before(s, x, y)'
      BY <1>5, <2>2, OtherTasks DEF RoomsElsewhere
    <3>2. PairOk(s, t)
      BY <1>5 DEF DirectInv
    <3> QED BY <3>1, <3>2, PairKept
  <2> QED BY <2>1, <2>2
<1>6. ASSUME NEW k \in 1 .. Len(requests) PROVE RequestOk(k)'
  <2>1. CASE k = h.req
    BY <2>1
  <2>2. CASE k # h.req
    <3>1. /\ Waiting(k, {"open", "accept", "link", "full"})' <=>
               Waiting(k, {"open", "accept", "link", "full"})
          /\ answers'[k] = answers[k] /\ RequestOk(k)
      <4>1. RequestOk(k)
        BY DEF DirectInv
      <4>2. answers'[k] = answers[k]
        BY <2>2 DEF AnswersKept
      <4>3. Waiting(k, {"open", "accept", "link", "full"})' <=>
               Waiting(k, {"open", "accept", "link", "full"})
        BY <2>2, OtherWaits
      <4> QED BY <4>1, <4>2, <4>3
    <3>2. requests[k].from \in ChatSockets /\ requests[k].to \in ChatSockets
      <4>1. requests \in Seq(ChatRequest)
        BY DEF DirectInv, DirectTypes
      <4>2. requests[k] \in ChatRequest
        BY <4>1
      <4> QED BY <4>2 DEF ChatRequest
    <3> QED BY <1>1, <1>5, <3>1, <3>2 DEF RequestOk, SelvesRight
  <2> QED BY <2>1, <2>2
<1>7. \A k \in (1 .. Len(requests))' : RequestOk(k)'
  BY <1>1, <1>6
<1> QED BY <1>1, <1>2, <1>3, <1>4, <1>5, <1>7 DEF DirectInv, SelvesRight

\* The socket of request k is told something for the first time.
LEMMA ToldOnce ==
  ASSUME DirectInv, NEW r \in ChatSockets, NEW h, h = Head(chat_tasks[r]),
         h.req \in 1 .. Len(requests), answers[h.req] = <<>>,
         NEW a \in Direct!Answer, Direct!Tell(r, a)
  PROVE  AnswersKept(h) /\ Len(answers'[h.req]) = 1
<1>1. /\ answers \in Seq(Seq(Direct!Answer)) /\ Len(answers) = Len(requests)
      /\ Len(answers) \in Nat
  BY DEF DirectInv, DirectTypes
<1>2. answers' = [answers EXCEPT ![h.req] = <<a>>]
  <2>1. Append(<<>>, a) = <<a>>
    OBVIOUS
  <2> QED BY <2>1 DEF Direct!Tell, Direct!Current
<1>3. <<a>> \in Seq(Direct!Answer) /\ Len(<<a>>) = 1
  OBVIOUS
<1>4. PICK b \in Seq(Direct!Answer) : b = <<a>>
  BY <1>3
<1>5. /\ answers' = [answers EXCEPT ![h.req] = b]
      /\ h.req \in 1 .. Len(answers) /\ Len(b) = 1
  BY <1>1, <1>2, <1>3, <1>4
<1> QED BY <1>1, <1>5 DEF AnswersKept

\* The same, in the step itself: the request is answered.
LEMMA RequestTold ==
  ASSUME NEW k, Len(answers'[k]) = 1
  PROVE  RequestOk(k)'
BY DEF RequestOk

\* No room changes.
LEMMA RoomsSame ==
  ASSUME RoomTypes, rooms' = rooms, next_id' = next_id
  PROVE  /\ RoomTypes'
         /\ \A c, d, a, q : Leads(c, d, a, q)' <=> Leads(c, d, a, q)
         /\ \A s, t : SameRooms(s, t)
         /\ \A s \in ChatSockets : SelfLinked(s) => SelfLinked(s)'
<1>1. \A c, d, a, q : Leads(c, d, a, q)' <=> Leads(c, d, a, q)
  BY DEF Leads
<1>2. RoomTypes'
  BY DEF RoomTypes
<1> QED BY <1>1, <1>2 DEF SameRooms, SelfLinked

\* OpenLimit and OpenExisting: the request is answered at once.
LEMMA OpenEndsStep ==
  ASSUME DirectInv, NEW r \in ChatSockets, Direct!At(r, "open"),
         NEW a \in Direct!Answer, Direct!Tell(r, a), Direct!Done(r),
         rooms' = rooms, next_id' = next_id, requests' = requests
  PROVE  DirectInv'
<1>1. PICK h : h = Head(chat_tasks[r])
  OBVIOUS
<1>2. h.step = "open" /\ chat_tasks[r] # <<>>
  BY <1>1 DEF Direct!At, Direct!Current
<1>3. PICK M : HeadStep(r, h, M) /\ \A v, x : <<v, x>> \notin M
  BY <1>1, <1>2, HeadDone
<1>4. h \in Direct!Task /\ Queued(r, h)
  BY <1>3 DEF HeadStep
<1>5. PICK f, g \in ChatSockets : requests[h.req].from = f /\ requests[h.req].to = g
  BY <1>4, QueuedFacts
<1>6. h.req \in 1 .. Len(requests) /\ answers[h.req] = <<>>
  BY <1>4, QueuedFacts
<1>7. AnswersKept(h) /\ Len(answers'[h.req]) = 1
  BY <1>1, <1>6, ToldOnce
<1>8. /\ RoomTypes'
      /\ \A c, d, i, q : Leads(c, d, i, q)' <=> Leads(c, d, i, q)
      /\ \A s, t : SameRooms(s, t)
      /\ \A s \in ChatSockets : SelfLinked(s) => SelfLinked(s)'
  BY RoomsSame DEF DirectInv, DirectTypes
<1>9. \A x \in Direct!Task : Sent(f, g, x)' <=> Sent(f, g, x)
  <2>1. \A x \in Direct!Task : Sent(f, g, x)' <=>
          (Sent(f, g, x) /\ x # h) \/ \E v \in ChatSockets : <<v, x>> \in M
    BY <1>3, <1>5, OwnTasks
  <2> QED BY <1>2, <1>3, <2>1 DEF Sent
<1>10. \A s, t \in ChatSockets :
         /\ SameTasks(s, t)
         /\ \A x, y \in Direct!Task :
              Sent(s, t, x) /\ Before(s, x, y) => Before(s, x, y)'
  <2> SUFFICES ASSUME NEW s \in ChatSockets, NEW t \in ChatSockets
               PROVE  /\ SameTasks(s, t)
                      /\ \A x, y \in Direct!Task :
                           Sent(s, t, x) /\ Before(s, x, y) => Before(s, x, y)'
    OBVIOUS
  <2>1. CASE ~(s = f /\ t = g)
    BY <1>3, <1>5, <2>1, OtherTasks
  <2>2. CASE s = f /\ t = g
    BY <1>2, <1>3, <1>9, <2>2 DEF SameTasks, HeadStep, Sent
  <2> QED BY <2>1, <2>2
<1>11. PairRight(f, g)
  <2> SUFFICES ASSUME f # g
               PROVE  /\ PairOk(f, g)' /\ PairOk(g, f)'
                      /\ Linked(f, g) => Linked(f, g)'
                      /\ Linked(g, f) => Linked(g, f)'
    BY DEF PairRight
  <2>1. PairOk(f, g) /\ PairOk(g, f)
    BY DEF DirectInv
  <2>2. PairOk(f, g)' /\ (Linked(f, g) => Linked(f, g)')
    BY <1>8, <1>10, <2>1, PairKept
  <2>3. PairOk(g, f)' /\ (Linked(g, f) => Linked(g, f)')
    BY <1>8, <1>10, <2>1, PairKept
  <2> QED BY <2>2, <2>3
<1>12. SelvesRight
  BY <1>8, <1>10, SelfKept DEF DirectInv, SelvesRight
<1>13. RoomsThere(h) /\ RoomsElsewhere(f, g) /\ IdsMove(h, f, g) /\ PlacesTasks(M)
  BY <1>3, <1>8, QueuedFacts DEF RoomsThere, RoomsElsewhere, IdsMove, PlacesTasks
<1>14. RequestOk(h.req)'
  BY <1>7, RequestTold
<1> QED BY <1>3, <1>5, <1>7, <1>8, <1>11, <1>12, <1>13, <1>14, DirectKept

\* The ids of rooms are ids.
LEMMA RoomIds ==
  ASSUME DirectInv, NEW s \in ChatSockets
  PROVE  /\ next_id[s] \in 1 .. 2 * MaxRequests + 1
         /\ DOMAIN rooms[s] \subseteq Direct!Ids
<1>1. Opened(s) \subseteq 1 .. Len(requests) /\ Accepted(s) \subseteq 1 .. Len(requests)
  BY DEF Opened, Accepted
<1>2. DirectTypes
  BY DEF DirectInv
<1>3. PICK a, b, n \in Nat : /\ a = Cardinality(Opened(s)) /\ b = Cardinality(Accepted(s))
                             /\ n = Len(requests) /\ a <= n /\ b <= n
  BY <1>1, <1>2, RequestsCounted
<1>4. /\ next_id[s] \in Nat \ {0} /\ DOMAIN rooms[s] \subseteq 1 .. next_id[s] - 1
      /\ n <= MaxRequests /\ MaxRequests \in Nat
  BY <1>2, <1>3, ChatIds DEF DirectTypes, RoomTypes
<1>5. next_id[s] - 1 <= a + b
  BY <1>3 DEF DirectInv, IdsCounted
<1>6. next_id[s] - 1 <= 2 * MaxRequests
  BY <1>3, <1>4, <1>5
<1> QED BY <1>4, <1>6 DEF Direct!Ids

\* The task that r runs.
LEMMA HeadFacts ==
  ASSUME DirectInv, NEW r \in ChatSockets, NEW step, Direct!At(r, step),
         NEW h, h = Head(chat_tasks[r])
  PROVE  /\ chat_tasks[r] # <<>> /\ h \in Direct!Task /\ Queued(r, h)
         /\ h.step = step /\ h.req \in 1 .. Len(requests) /\ answers[h.req] = <<>>
         /\ Direct!Current(r) = h
<1>1. chat_tasks[r] # <<>> /\ h.step = step /\ Direct!Current(r) = h
  BY DEF Direct!At, Direct!Current
<1>2. h \in Direct!Task /\ Queued(r, h)
  <2>1. chat_tasks[r] \in Seq(Direct!Task) /\ OnceEach(chat_tasks[r])
    BY DEF DirectInv, DirectTypes, TasksOnce
  <2> QED BY <1>1, <2>1, ChatTail DEF Queued
<1> QED BY <1>1, <1>2, QueuedFacts

\* No answer is sent.
LEMMA AnswersSame ==
  ASSUME DirectInv, answers' = answers, NEW h
  PROVE  AnswersKept(h)
BY DEF DirectInv, DirectTypes, AnswersKept

\* A room that is there comes with the type of its ids.
LEMMA LeadsIds ==
  ASSUME DirectInv, NEW s \in ChatSockets, NEW t, NEW a, NEW o, Leads(s, t, a, o)
  PROVE  a \in Direct!Ids /\ o \in Ids0 /\ t \in ChatSockets
<1>1. a \in DOMAIN rooms[s] /\ rooms[s][a].peer = t /\ rooms[s][a].other = o
  BY DEF Leads
<1>2. rooms[s][a] \in Direct!Room
  BY <1>1 DEF DirectInv, DirectTypes, RoomTypes
<1> QED BY <1>1, <1>2, RoomIds DEF Direct!Room, Ids0

\* Requests keep their rooms if no room is removed.
LEMMA RoomsGrow ==
  ASSUME DirectInv, NEW h, requests' = requests,
         \A c \in ChatSockets : \A d, a, q : Leads(c, d, a, q) => Leads(c, d, a, q)'
  PROVE  RoomsThere(h)
<1> SUFFICES ASSUME NEW v \in ChatSockets, NEW x \in Direct!Task, Queued(v, x),
                    x.step # "open"
             PROVE  \E o \in Ids0 :
                      Leads(requests[x.req].from, requests[x.req].to, x.id, o)'
  BY DEF RoomsThere
<1>1. /\ requests[x.req].from \in ChatSockets
      /\ \E o \in Ids0 : Leads(requests[x.req].from, requests[x.req].to, x.id, o)
  BY QueuedFacts
<1>2. PICK f, g : f = requests[x.req].from /\ g = requests[x.req].to
  OBVIOUS
<1>3. \E o \in Ids0 : Leads(f, g, x.id, o)'
  BY <1>1, <1>2
<1> QED BY <1>2, <1>3

\* Open().
LEMMA OpenStep ==
  ASSUME DirectInv, NEW r \in ChatSockets, Direct!Open(r)
  PROVE  DirectInv'
<1>1. PICK h : h = Head(chat_tasks[r])
  OBVIOUS
<1>2. /\ chat_tasks[r] # <<>> /\ h \in Direct!Task /\ Queued(r, h)
      /\ h.step = "open" /\ h.req \in 1 .. Len(requests) /\ answers[h.req] = <<>>
      /\ Direct!Current(r) = h
  BY <1>1, HeadFacts DEF Direct!Open
<1>3. requests[h.req].from = r
  BY <1>2, QueuedFacts
<1>4. PICK g \in ChatSockets : requests[h.req].to = g
  BY <1>2, QueuedFacts
<1>5. PICK n : n = next_id[r]
  OBVIOUS
<1>6. n \in Direct!Ids
  <2>1. h.req \notin Opened(r)
    BY <1>2 DEF Opened, Waiting
  <2> QED BY <1>2, <1>5, <2>1, IdLeft
<1>7. PICK z \in Direct!Task : z = [h EXCEPT !.step = "accept", !.id = n, !.other = 0]
  BY <1>2, <1>6 DEF Direct!Task
<1>8. z.req = h.req /\ z.step = "accept" /\ z.id = n
  BY <1>2, <1>7 DEF Direct!Task
<1>9. /\ HeadGoes(r, g, z) /\ requests' = requests /\ answers' = answers
      /\ AddsRoom(r, n, g, 0)
  BY <1>2, <1>4, <1>5, <1>7 DEF Direct!Open, Direct!Passes, HeadGoes, Direct!To,
                                AddsRoom
<1>10. /\ \A a, o : ~Leads(r, g, a, o)
       /\ Cardinality(DOMAIN rooms[r]) < Limit
  BY <1>2, <1>4 DEF Direct!Open, Direct!RoomsTo, Leads, Direct!To, Direct!Size,
                    Direct!Cardinality, Cardinality
<1>11. /\ RoomTypes'
       /\ \A c \in ChatSockets : \A d, a, q : Leads(c, d, a, q)' <=>
            Leads(c, d, a, q) \/ (c = r /\ d = g /\ a = n /\ q = 0)
       /\ next_id'[r] = next_id[r] + 1
       /\ \A c \in ChatSockets \ {r} : next_id'[c] = next_id[c]
  <2>1. RoomTypes /\ 0 \in Ids0
    BY DEF DirectInv, DirectTypes, Ids0
  <2> QED BY <1>5, <1>6, <1>9, <1>10, <2>1, RoomAdded
<1>12. PICK M : /\ HeadStep(r, h, M) /\ \A v, x : <<v, x>> \in M <=> v = g /\ x = z
                /\ \A x \in Direct!Task : Queued(g, x) /\ x # h => Before(g, x, z)'
  <2>1. /\ HeadStep(r, h, {<<g, z>>})
        /\ \A x \in Direct!Task : Queued(g, x) /\ x # h => Before(g, x, z)'
    BY <1>1, <1>2, <1>8, <1>9, HeadPasses
  <2>2. \A v, x : <<v, x>> \in {<<g, z>>} <=> v = g /\ x = z
    OBVIOUS
  <2> QED BY <2>1, <2>2
<1>13. \A x \in Direct!Task : ~Sent(r, g, x)
  BY <1>10, QueuedFacts DEF Sent
<1>14. \A x \in Direct!Task : Sent(r, g, x)' <=> x = z
  <2>1. HeadStep(r, h, M) /\ \A x \in Direct!Task : Sent(r, g, x) => x = h
    BY <1>12, <1>13
  <2> QED BY <1>3, <1>4, <1>12, <2>1, OwnPassed
<1>15. \A s, t \in ChatSockets : ~(s = r /\ t = g) => SameTasks(s, t)
  BY <1>3, <1>4, <1>12, OtherTasks
<1>16. \A s, t \in ChatSockets : ~(s = r /\ t = g) => SameRooms(s, t)
  BY <1>11 DEF SameRooms
<1>17. PairRight(r, g)
  <2> SUFFICES ASSUME r # g PROVE PairRight(r, g)
    BY DEF PairRight
  <2>1. PairOk(r, g) /\ PairOk(g, r)
    BY DEF DirectInv
  <2>2. \A a, o \in Ids0 : Leads(r, g, a, o)' <=> a = z.id /\ o = 0
    BY <1>8, <1>10, <1>11
  <2>3. \A x \in Direct!Task :
          Sent(g, r, x) /\ x.step # "accept" => Before(g, x, z)'
    <3> SUFFICES ASSUME NEW x \in Direct!Task, Sent(g, r, x), x.step # "accept"
                 PROVE  Before(g, x, z)'
      OBVIOUS
    <3>1. PICK u \in ChatSockets : Queued(u, x)
      BY DEF Sent
    <3>2. u = g /\ x # h
      BY <1>2, <3>1, QueuedFacts DEF Sent
    <3> QED BY <1>12, <3>1, <3>2
  <2>4. PairOk(r, g)' /\ PairOk(g, r)' /\ ~Linked(r, g) /\ ~Linked(g, r)
    BY <1>6, <1>8, <1>10, <1>14, <1>15, <1>16, <2>1, <2>2, <2>3, PairOpens
  <2> QED BY <2>4 DEF PairRight
<1>18. SelvesRight
  <2> SUFFICES ASSUME NEW s \in ChatSockets
               PROVE  SelfOk(s)' /\ (SelfLinked(s) => SelfLinked(s)')
    BY DEF SelvesRight
  <2>1. SelfLinked(s) => SelfLinked(s)'
    BY <1>11 DEF SelfLinked
  <2>2. CASE s = r /\ s = g
    <3>1. \A x \in Direct!Task : Sent(s, s, x)' <=> x = z
      BY <1>14, <2>2
    <3>2. \A a, o : Leads(s, s, a, o)' <=> a = n /\ o = 0
      BY <1>10, <1>11, <2>2
    <3> QED BY <1>8, <2>1, <3>1, <3>2 DEF SelfOk
  <2>3. CASE ~(s = r /\ s = g)
    <3>1. SelfOk(s) /\ SameTasks(s, s) /\ SameRooms(s, s) /\ 0 \in Ids0
      BY <1>15, <1>16, <2>3 DEF DirectInv, Ids0
    <3> QED BY <2>1, <3>1, SelfKept DEF SameRooms
  <2> QED BY <2>1, <2>2, <2>3
<1>19. RoomsThere(h)
  BY <1>9, <1>11, RoomsGrow
<1>20. RoomsElsewhere(r, g) /\ IdsMove(h, r, g)
  BY <1>2, <1>11, <1>16 DEF RoomsElsewhere, IdsMove
<1>21. PlacesTasks(M)
  <2>1. Leads(r, g, n, 0)' /\ 0 \notin Direct!Ids
    BY <1>11, ChatIds
  <2>2. TaskPlaced(g, z)'
    BY <1>2, <1>3, <1>4, <1>6, <1>8, <1>9, <2>1 DEF TaskPlaced
  <2> QED BY <1>12, <2>2 DEF PlacesTasks
<1>22. RequestOk(h.req)'
  <2>1. Queued(g, z)'
    BY <1>12 DEF HeadStep
  <2> QED BY <1>8, <2>1 DEF RequestOk, Waiting
<1>23. AnswersKept(h)
  BY <1>9, AnswersSame
<1> QED BY <1>3, <1>4, <1>11, <1>12, <1>17, <1>18, <1>19, <1>20, <1>21, <1>22, <1>23,
           DirectKept

\* A request whose room was made is the only one between its sockets, and from
\* one socket to another unless it is to be accepted.
LEMMA OnlyRequest ==
  ASSUME DirectInv, NEW r \in ChatSockets, NEW h \in Direct!Task, Queued(r, h),
         h.step # "open", NEW f, NEW g, requests[h.req].from = f, requests[h.req].to = g
  PROVE  /\ Sent(f, g, h) /\ \A x \in Direct!Task : Sent(f, g, x) => x = h
         /\ f = g => h.step = "accept" /\ Leads(f, g, h.id, 0)
<1>1. Sent(f, g, h)
  BY DEF Sent
<1>2. f \in ChatSockets /\ g \in ChatSockets
  BY QueuedFacts
<1>3. CASE f = g
  BY <1>1, <1>2, <1>3 DEF DirectInv, SelfOk
<1>4. CASE f # g
  <2>1. OneRoom(f, g)
    BY <1>2, <1>4 DEF DirectInv, PairOk
  <2> QED BY <1>1, <1>4, <2>1 DEF OneRoom
<1> QED BY <1>3, <1>4

\* AcceptLimit and Accept: r has no room to the sender and sends z back; a room
\* that it makes leads to itself.
LEMMA AnswersStep ==
  ASSUME DirectInv, NEW r \in ChatSockets, Direct!At(r, "accept"),
         Direct!RoomsTo(r, Direct!From(r)) = {}, NEW h, h = Head(chat_tasks[r]),
         NEW z \in Direct!Task, z.req = h.req, z.step \in {"link", "full"},
         z.id = h.id, z.step = "link" => z.other # 0,
         HeadGoes(r, requests[h.req].from, z), requests' = requests,
         answers' = answers, RoomTypes',
         \A c \in ChatSockets : \A d, a, q : Leads(c, d, a, q) => Leads(c, d, a, q)',
         \A c \in ChatSockets : \A d, a, q : Leads(c, d, a, q)' =>
           Leads(c, d, a, q) \/ (c = r /\ d = r /\ q = h.id),
         IdsMove(h, requests[h.req].from, r)
  PROVE  DirectInv'
<1>1. /\ chat_tasks[r] # <<>> /\ h \in Direct!Task /\ Queued(r, h)
      /\ h.step = "accept" /\ h.req \in 1 .. Len(requests) /\ answers[h.req] = <<>>
      /\ Direct!Current(r) = h
  BY HeadFacts
<1>2. requests[h.req].to = r
  BY <1>1, QueuedFacts
<1>3. PICK f \in ChatSockets : requests[h.req].from = f
  BY <1>1, QueuedFacts
<1>4. h.id \in Direct!Ids /\ h.id # 0 /\ \E o \in Ids0 : Leads(f, r, h.id, o)
  BY <1>1, <1>2, <1>3, QueuedFacts, ChatIds
<1>5. \A a, o : ~Leads(r, f, a, o)
  BY <1>1, <1>3 DEF Direct!RoomsTo, Direct!From, Leads
<1>6. f # r
  BY <1>4, <1>5
<1>7. /\ Sent(f, r, h) /\ \A x \in Direct!Task : Sent(f, r, x) => x = h
  BY <1>1, <1>2, <1>3, OnlyRequest
<1>8. \A x \in Direct!Task : ~Sent(r, f, x)
  BY <1>5, QueuedFacts DEF Sent
<1>9. PICK M : HeadStep(r, h, M) /\ \A v, x : <<v, x>> \in M <=> v = f /\ x = z
  <2>1. HeadStep(r, h, {<<f, z>>})
    BY <1>1, <1>3, HeadPasses
  <2>2. \A v, x : <<v, x>> \in {<<f, z>>} <=> v = f /\ x = z
    OBVIOUS
  <2> QED BY <2>1, <2>2
<1>10. \A x \in Direct!Task : Sent(f, r, x)' <=> x = z
  <2>1. HeadStep(r, h, M)
    BY <1>9
  <2>2. \A u \in ChatSockets : \A y :
          (\A v, x : <<v, x>> \in M <=> v = u /\ x = y) =>
            \A x \in Direct!Task : Sent(f, r, x)' <=> x = y
    BY <1>2, <1>3, <1>7, <2>1, OwnPassed
  <2>3. \A v, x : <<v, x>> \in M <=> v = f /\ x = z
    BY <1>9
  <2> QED BY <2>2, <2>3
<1>11. \A s, t \in ChatSockets : ~(s = f /\ t = r) => SameTasks(s, t)
  BY <1>2, <1>3, <1>9, OtherTasks
<1>12. \A s, t \in ChatSockets : s # t => SameRooms(s, t)
  BY DEF SameRooms
<1>13. PairRight(f, r)
  <2>1. PairOk(f, r) /\ PairOk(r, f)
    BY <1>6 DEF DirectInv
  <2>2. /\ SameRooms(f, r) /\ SameRooms(r, f) /\ SameTasks(r, f)
        /\ \A a, o \in Ids0 : ~Leads(r, f, a, o)
    BY <1>5, <1>6, <1>11, <1>12
  <2>3. PairOk(f, r)' /\ PairOk(r, f)' /\ ~Linked(f, r) /\ ~Linked(r, f)
    BY <1>1, <1>4, <1>7, <1>8, <1>10, <2>1, <2>2, PairAnswers
  <2> QED BY <2>3 DEF PairRight
<1>14. SelvesRight
  <2> SUFFICES ASSUME NEW s \in ChatSockets
               PROVE  SelfOk(s)' /\ (SelfLinked(s) => SelfLinked(s)')
    BY DEF SelvesRight
  <2>1. SelfLinked(s) => SelfLinked(s)'
    BY DEF SelfLinked
  <2>2. SelfOk(s) /\ SameTasks(s, s)
    BY <1>6, <1>11 DEF DirectInv
  <2>3. \A a \in Ids0 : Leads(s, s, a, 0)' <=> Leads(s, s, a, 0)
    BY <1>4
  <2> QED BY <2>1, <2>2, <2>3, SelfKept
<1>15. RoomsThere(h)
  BY RoomsGrow
<1>16. RoomsElsewhere(f, r) /\ IdsMove(h, f, r)
  BY <1>3, <1>12 DEF RoomsElsewhere
<1>17. PlacesTasks(M)
  <2>1. \E o \in Ids0 : Leads(f, r, h.id, o)'
    BY <1>4
  <2>2. TaskPlaced(f, z)'
    BY <1>1, <1>2, <1>3, <1>4, <2>1 DEF TaskPlaced, Ids0
  <2> QED BY <1>9, <2>2 DEF PlacesTasks
<1>18. RequestOk(h.req)'
  <2>1. Queued(f, z)'
    BY <1>9 DEF HeadStep
  <2> QED BY <2>1 DEF RequestOk, Waiting
<1>19. AnswersKept(h)
  BY AnswersSame
<1> QED BY <1>2, <1>3, <1>9, <1>13, <1>14, <1>15, <1>16, <1>17, <1>18, <1>19,
           DirectKept

\* AcceptLimit().
LEMMA AcceptLimitStep ==
  ASSUME DirectInv, NEW r \in ChatSockets, Direct!AcceptLimit(r)
  PROVE  DirectInv'
<1>1. PICK h : h = Head(chat_tasks[r])
  OBVIOUS
<1>2. /\ h \in Direct!Task /\ Direct!Current(r) = h
      /\ Direct!At(r, "accept") /\ Direct!RoomsTo(r, Direct!From(r)) = {}
  BY <1>1, HeadFacts DEF Direct!AcceptLimit
<1>3. PICK z \in Direct!Task : z = [h EXCEPT !.step = "full", !.id = h.id, !.other = 0]
  BY <1>2 DEF Direct!Task
<1>4. z.req = h.req /\ z.step = "full" /\ z.id = h.id
  BY <1>2, <1>3 DEF Direct!Task
<1>5. /\ HeadGoes(r, requests[h.req].from, z) /\ requests' = requests
      /\ answers' = answers /\ rooms' = rooms /\ next_id' = next_id
  BY <1>2, <1>3 DEF Direct!AcceptLimit, Direct!Passes, HeadGoes, Direct!From
<1>6. RoomTypes' /\ \A c, d, a, q : Leads(c, d, a, q)' <=> Leads(c, d, a, q)
  BY <1>5, RoomsSame DEF DirectInv, DirectTypes
<1>7. IdsMove(h, requests[h.req].from, r)
  BY <1>5 DEF IdsMove
<1> QED BY <1>1, <1>2, <1>4, <1>5, <1>6, <1>7, AnswersStep

\* Accept().
LEMMA AcceptStep ==
  ASSUME DirectInv, NEW r \in ChatSockets, Direct!Accept(r)
  PROVE  DirectInv'
<1>1. PICK h : h = Head(chat_tasks[r])
  OBVIOUS
<1>2. /\ h \in Direct!Task /\ Direct!Current(r) = h /\ Queued(r, h)
      /\ h.step = "accept" /\ h.req \in 1 .. Len(requests)
      /\ Direct!At(r, "accept") /\ Direct!RoomsTo(r, Direct!From(r)) = {}
  BY <1>1, HeadFacts DEF Direct!Accept
<1>3. PICK n : n = next_id[r]
  OBVIOUS
<1>4. n \in Direct!Ids
  <2>1. h.req \notin Accepted(r)
    BY <1>2 DEF Accepted, Waiting
  <2> QED BY <1>2, <1>3, <2>1, IdLeft
<1>5. PICK z \in Direct!Task : z = [h EXCEPT !.step = "link", !.id = h.id, !.other = n]
  BY <1>2, <1>4 DEF Direct!Task
<1>6. z.req = h.req /\ z.step = "link" /\ z.id = h.id /\ z.other = n /\ n # 0
  BY <1>2, <1>4, <1>5, ChatIds DEF Direct!Task
<1>7. /\ HeadGoes(r, requests[h.req].from, z) /\ requests' = requests
      /\ answers' = answers /\ AddsRoom(r, n, r, h.id)
      /\ Cardinality(DOMAIN rooms[r]) < Limit
  BY <1>2, <1>3, <1>5 DEF Direct!Accept, Direct!Passes, HeadGoes, Direct!From, AddsRoom,
                          Direct!Size, Direct!Cardinality, Cardinality
<1>8. /\ RoomTypes'
      /\ \A c \in ChatSockets : \A d, a, q : Leads(c, d, a, q)' <=>
           Leads(c, d, a, q) \/ (c = r /\ d = r /\ a = n /\ q = h.id)
      /\ next_id'[r] = next_id[r] + 1
      /\ \A c \in ChatSockets \ {r} : next_id'[c] = next_id[c]
  <2>1. RoomTypes /\ h.id \in Ids0
    BY <1>2, ChatIds DEF DirectInv, DirectTypes
  <2> QED BY <1>3, <1>4, <1>7, <2>1, RoomAdded
<1>9. IdsMove(h, requests[h.req].from, r)
  BY <1>2, <1>8 DEF IdsMove
<1> QED BY <1>1, <1>2, <1>6, <1>7, <1>8, <1>9, AnswersStep

\* The answers are of their type.
LEMMA AnswerTypes ==
  /\ \A k \in {"not_found", "limit", "recipient_limit"} : [kind |-> k] \in Direct!Answer
  /\ \A i \in Ids0 : [kind |-> "channel", id |-> i] \in Direct!Answer
<1>1. \A k \in {"not_found", "limit", "recipient_limit"} :
        [kind |-> k] \in [kind : {"not_found", "limit", "recipient_limit"}]
  OBVIOUS
<1>2. \A i \in Direct!Ids \cup {0} :
        [kind |-> "channel", id |-> i] \in [kind : {"channel"}, id : Direct!Ids \cup {0}]
  OBVIOUS
<1> QED BY <1>1, <1>2 DEF Direct!Answer, Ids0

\* The steps in which a request ends at the recipient r, by a room of r to the
\* sender: the room is linked, or it was and the sender is told.
LEMMA AcceptExistingStep ==
  ASSUME DirectInv, NEW r \in ChatSockets, Direct!AcceptExisting(r)
  PROVE  DirectInv'
<1>1. PICK h : h = Head(chat_tasks[r])
  OBVIOUS
<1>2. /\ chat_tasks[r] # <<>> /\ h \in Direct!Task /\ Queued(r, h)
      /\ h.step = "accept" /\ h.req \in 1 .. Len(requests) /\ answers[h.req] = <<>>
      /\ Direct!Current(r) = h
  BY <1>1, HeadFacts DEF Direct!AcceptExisting
<1>3. requests[h.req].to = r
  BY <1>2, QueuedFacts
<1>4. PICK f \in ChatSockets : requests[h.req].from = f
  BY <1>2, QueuedFacts
<1>5. h.id \in Direct!Ids /\ h.id # 0 /\ \E o \in Ids0 : Leads(f, r, h.id, o)
  BY <1>2, <1>3, <1>4, QueuedFacts, ChatIds
<1>6. /\ Sent(f, r, h) /\ \A x \in Direct!Task : Sent(f, r, x) => x = h
      /\ f = r => Leads(f, r, h.id, 0)
  BY <1>2, <1>3, <1>4, OnlyRequest
<1>7. PICK b \in Direct!RoomsTo(r, f) :
        IF rooms[r][b].other = 0
        THEN rooms' = [rooms EXCEPT ![r][b].other = h.id] /\ answers' = answers
        ELSE rooms' = rooms /\ Direct!TellChannel(r, h.id)
  BY <1>2, <1>4 DEF Direct!AcceptExisting, Direct!From
<1>8. Direct!Done(r) /\ requests' = requests /\ next_id' = next_id
  BY DEF Direct!AcceptExisting
<1>9. PICK p : p = rooms[r][b].other
  OBVIOUS
<1>10. Leads(r, f, b, p) /\ b \in DOMAIN rooms[r] /\ rooms[r][b].peer = f
  BY <1>7, <1>9 DEF Direct!RoomsTo, Leads
<1>11. b \in Direct!Ids /\ p \in Ids0
  BY <1>10, LeadsIds
<1>12. PICK M : /\ HeadStep(r, h, M) /\ \A v, x : <<v, x>> \notin M
                /\ \A x \in Direct!Task : ~Before(r, x, h)
  BY <1>1, <1>2, <1>8, HeadDone
<1>13. \A x \in Direct!Task : ~Sent(f, r, x)'
  <2>1. HeadStep(r, h, M)
    BY <1>12
  <2>2. (\A v, x : <<v, x>> \notin M) => \A x \in Direct!Task : ~Sent(f, r, x)'
    BY <1>3, <1>4, <1>6, <2>1, OwnPassed
  <2> QED BY <1>12, <2>2
<1>14. \A s, t \in ChatSockets : ~(s = f /\ t = r) => SameTasks(s, t)
  BY <1>3, <1>4, <1>12, OtherTasks
<1>15. IdsMove(h, f, r) /\ PlacesTasks(M)
  BY <1>8, <1>12 DEF IdsMove, PlacesTasks
<1>16. f # r => PairOk(f, r) /\ PairOk(r, f)
  BY DEF DirectInv
<1>17. RoomTypes
  BY DEF DirectInv, DirectTypes
<1>18. CASE p = 0
  <2>1. LinksRoom(r, b, h.id) /\ answers' = answers
    BY <1>7, <1>8, <1>9, <1>18 DEF LinksRoom
  <2>2. /\ RoomTypes'
        /\ \A c \in ChatSockets : \A d, a, q : Leads(c, d, a, q)' <=>
             IF c = r /\ a = b THEN d = f /\ q = h.id ELSE Leads(c, d, a, q)
    <3>1. h.id \in Ids0
      BY <1>5 DEF Ids0
    <3>2. /\ RoomTypes'
          /\ \A c \in ChatSockets : \A d, a, q : Leads(c, d, a, q)' <=>
               IF c = r /\ a = b THEN rooms[r][b].peer = d /\ q = h.id
               ELSE Leads(c, d, a, q)
      BY <1>10, <1>17, <2>1, <3>1, RoomLinked
    <3> QED BY <1>10, <3>2
  <2>3. \A d, q : Leads(r, d, b, q) => d = f /\ q = 0
    BY <1>9, <1>10, <1>18 DEF Leads
  <2>4. \A s, t \in ChatSockets : ~(s = r /\ t = f) => SameRooms(s, t)
    BY <2>2, <2>3 DEF SameRooms
  <2>5. RoomsElsewhere(f, r)
    BY <2>4 DEF RoomsElsewhere
  <2>6. RoomsThere(h)
    <3> SUFFICES ASSUME NEW v \in ChatSockets, NEW x \in Direct!Task, Queued(v, x),
                        x.step # "open"
                 PROVE  \E o \in Ids0 :
                          Leads(requests[x.req].from, requests[x.req].to, x.id, o)'
      BY DEF RoomsThere
    <3>1. PICK c, d \in ChatSockets : c = requests[x.req].from /\ d = requests[x.req].to
      BY QueuedFacts
    <3>2. \E o \in Ids0 : Leads(c, d, x.id, o)
      BY <3>1, QueuedFacts
    <3>3. \E o \in Ids0 : Leads(c, d, x.id, o)'
      BY <1>5, <2>2, <2>3, <3>2 DEF Ids0
    <3> QED BY <1>8, <3>1, <3>3
  <2>7. AnswersKept(h)
    BY <2>1, AnswersSame
  <2>8. CASE f # r
    <3>1. \A a, o \in Ids0 : Leads(r, f, a, o)' <=> a = b /\ o = h.id
      <4>1. \A a, o : Leads(r, f, a, o) => a = b
        BY <1>10, <1>11, <1>16, <2>8, LeadsIds DEF PairOk, OneRoom, Ids0
      <4> QED BY <2>2, <4>1
    <3>2. SameRooms(f, r) /\ SameTasks(r, f)
      BY <1>14, <2>4, <2>8
    <3>3. Leads(r, f, b, 0)
      BY <1>10, <1>18
    <3>4. /\ PairOk(f, r)' /\ PairOk(r, f)'
          /\ Linked(f, r)' /\ (Linked(r, f) => Linked(r, f)')
      BY <1>2, <1>5, <1>6, <1>11, <1>12, <1>13, <1>16, <2>8, <3>1, <3>2, <3>3,
         PairCrossed
    <3>5. PairRight(f, r)
      BY <3>4 DEF PairRight
    <3>6. RequestOk(h.req)'
      BY <1>2, <1>3, <1>4, <1>8, <2>1, <2>8, <3>4 DEF RequestOk
    <3>7. SelvesRight
      <4> SUFFICES ASSUME NEW s \in ChatSockets
                   PROVE  SelfOk(s)' /\ (SelfLinked(s) => SelfLinked(s)')
        BY DEF SelvesRight
      <4>1. SelfOk(s) /\ SameTasks(s, s) /\ SameRooms(s, s) /\ 0 \in Ids0
        BY <1>14, <2>4, <2>8 DEF DirectInv, Ids0
      <4>2. SelfLinked(s) => SelfLinked(s)'
        BY <4>1 DEF SelfLinked, SameRooms, Ids0
      <4> QED BY <4>1, <4>2, SelfKept DEF SameRooms
    <3> QED BY <1>3, <1>4, <1>12, <1>15, <2>2, <2>5, <2>6, <2>7, <3>5, <3>6, <3>7,
               DirectKept
  <2>9. CASE f = r
    <3>1. b = h.id
      <4>1. Leads(r, r, b, 0) /\ SelfOk(r)
        BY <1>10, <1>18, <2>9 DEF DirectInv
      <4> QED BY <1>2, <1>6, <1>11, <2>9, <4>1 DEF SelfOk
    <3>2. SelfLinked(r)'
      BY <1>11, <2>2, <2>9, <3>1 DEF SelfLinked
    <3>3. SelvesRight
      <4> SUFFICES ASSUME NEW s \in ChatSockets
                   PROVE  SelfOk(s)' /\ (SelfLinked(s) => SelfLinked(s)')
        BY DEF SelvesRight
      <4>1. CASE s = r
        BY <1>13, <2>9, <3>2, <4>1 DEF SelfOk
      <4>2. CASE s # r
        <5>1. SelfOk(s) /\ SameTasks(s, s) /\ SameRooms(s, s) /\ 0 \in Ids0
          BY <1>14, <2>4, <4>2 DEF DirectInv, Ids0
        <5>2. SelfLinked(s) => SelfLinked(s)'
          BY <5>1 DEF SelfLinked, SameRooms, Ids0
        <5> QED BY <5>1, <5>2, SelfKept DEF SameRooms
      <4> QED BY <4>1, <4>2
    <3>4. RequestOk(h.req)'
      BY <1>2, <1>3, <1>4, <1>8, <2>1, <2>9, <3>2 DEF RequestOk
    <3>5. PairRight(f, r)
      BY <2>9 DEF PairRight
    <3> QED BY <1>3, <1>4, <1>12, <1>15, <2>2, <2>5, <2>6, <2>7, <3>3, <3>4, <3>5,
               DirectKept
  <2> QED BY <2>8, <2>9
<1>19. CASE p # 0
  <2>1. rooms' = rooms /\ Direct!TellChannel(r, h.id) /\ p \in Direct!Ids
    BY <1>7, <1>9, <1>11, <1>19 DEF Ids0
  <2>2. AnswersKept(h) /\ Len(answers'[h.req]) = 1
    <3>1. PICK a \in Direct!Answer : a = [kind |-> "channel", id |-> h.id]
      BY <1>5, AnswerTypes DEF Ids0
    <3>2. Direct!Tell(r, a)
      BY <2>1, <3>1 DEF Direct!TellChannel
    <3> QED BY <1>1, <1>2, <3>2, ToldOnce
  <2>3. /\ RoomTypes'
        /\ \A c, d, a, q : Leads(c, d, a, q)' <=> Leads(c, d, a, q)
        /\ \A s, t : SameRooms(s, t)
        /\ \A s \in ChatSockets : SelfLinked(s) => SelfLinked(s)'
    BY <1>8, <1>17, <2>1, RoomsSame
  <2>4. PairRight(f, r)
    <3> SUFFICES ASSUME f # r PROVE PairRight(f, r)
      BY DEF PairRight
    <3>1. \A x \in Direct!Task : Sent(r, f, x) => x.id \in Direct!Ids
      BY QueuedFacts DEF Sent
    <3>2. SameRooms(f, r) /\ SameRooms(r, f) /\ SameTasks(r, f)
      BY <1>14, <2>3
    <3>3. PairOk(f, r)' /\ PairOk(r, f)' /\ ~Linked(f, r) /\ ~Linked(r, f)
      BY <1>2, <1>5, <1>6, <1>10, <1>11, <1>13, <1>16, <2>1, <3>1, <3>2, PairTold
    <3> QED BY <3>3 DEF PairRight
  <2>5. SelvesRight
    <3> SUFFICES ASSUME NEW s \in ChatSockets PROVE SelfOk(s)'
      BY <2>3 DEF SelvesRight
    <3>1. CASE s = r /\ s = f
      BY <1>13, <3>1 DEF SelfOk
    <3>2. CASE ~(s = r /\ s = f)
      BY <1>14, <2>3, <3>2, SelfKept DEF DirectInv
    <3> QED BY <3>1, <3>2
  <2>6. RoomsThere(h) /\ RoomsElsewhere(f, r)
    BY <1>8, <2>3, RoomsGrow DEF RoomsElsewhere
  <2>7. RequestOk(h.req)'
    BY <2>2, RequestTold
  <2> QED BY <1>3, <1>4, <1>12, <1>15, <2>2, <2>3, <2>4, <2>5, <2>6, <2>7, DirectKept
<1> QED BY <1>18, <1>19

\* RecipientLimit and Link: the answer has come back to r, whose room is removed
\* or linked; r is told either way.
LEMMA AnsweredStep ==
  ASSUME DirectInv, NEW r \in ChatSockets, NEW h, h = Head(chat_tasks[r]),
         chat_tasks[r] # <<>>, h \in Direct!Task, Queued(r, h),
         h.step \in {"link", "full"}, Direct!Done(r), requests' = requests,
         next_id' = next_id, RoomTypes', NEW a \in Direct!Answer, Direct!Tell(r, a),
         \A c \in ChatSockets : \A d, i, q : ~(c = r /\ i = h.id) =>
           (Leads(c, d, i, q)' <=> Leads(c, d, i, q)),
         \/ \A d, q : ~Leads(r, d, h.id, q)'
         \/ \E p \in Direct!Ids : \A d, q : Leads(r, d, h.id, q)' <=>
              d = requests[h.req].to /\ q = p
  PROVE  DirectInv'
<1>1. h.req \in 1 .. Len(requests) /\ answers[h.req] = <<>>
  BY QueuedFacts
<1>2. requests[h.req].from = r
  BY QueuedFacts
<1>3. PICK g \in ChatSockets : requests[h.req].to = g
  BY QueuedFacts
<1>4. h.id \in Direct!Ids /\ h.id # 0 /\ \E o \in Ids0 : Leads(r, g, h.id, o)
  BY <1>2, <1>3, QueuedFacts, ChatIds
<1>5. /\ Sent(r, g, h) /\ \A x \in Direct!Task : Sent(r, g, x) => x = h
      /\ r # g
  BY <1>2, <1>3, OnlyRequest
<1>6. PairOk(r, g) /\ PairOk(g, r)
  BY <1>5 DEF DirectInv
<1>7. /\ \A d, q : Leads(r, d, h.id, q) => d = g
      /\ \A i, q : Leads(r, g, i, q) => i = h.id
  <2>1. \A d, q : Leads(r, d, h.id, q) => d = g
    BY <1>4 DEF Leads
  <2>2. \A i, q : Leads(r, g, i, q) => i = h.id
    BY <1>4, <1>6, LeadsIds DEF PairOk, OneRoom, Ids0
  <2> QED BY <2>1, <2>2
<1>8. \A d, q : Leads(r, d, h.id, q)' => d = g
  BY <1>3
<1>9. PICK M : HeadStep(r, h, M) /\ \A v, x : <<v, x>> \notin M
  BY HeadDone
<1>10. \A x \in Direct!Task : ~Sent(r, g, x)'
  <2>1. HeadStep(r, h, M)
    BY <1>9
  <2>2. (\A v, x : <<v, x>> \notin M) => \A x \in Direct!Task : ~Sent(r, g, x)'
    BY <1>2, <1>3, <1>5, <2>1, OwnPassed
  <2> QED BY <1>9, <2>2
<1>11. \A s, t \in ChatSockets : ~(s = r /\ t = g) => SameTasks(s, t)
  BY <1>2, <1>3, <1>9, OtherTasks
<1>12. \A s, t \in ChatSockets : ~(s = r /\ t = g) => SameRooms(s, t)
  <2> SUFFICES ASSUME NEW s \in ChatSockets, NEW t \in ChatSockets, ~(s = r /\ t = g),
                      NEW i \in Ids0, NEW q \in Ids0
               PROVE  Leads(s, t, i, q)' <=> Leads(s, t, i, q)
    BY DEF SameRooms
  <2>1. CASE s = r /\ i = h.id
    BY <1>7, <1>8, <2>1
  <2>2. CASE ~(s = r /\ i = h.id)
    BY <2>2
  <2> QED BY <2>1, <2>2
<1>13. \/ \A i, q \in Ids0 : ~Leads(r, g, i, q)'
       \/ \E p \in Direct!Ids : \A i, q \in Ids0 :
            Leads(r, g, i, q)' <=> i = h.id /\ q = p
  <2>1. \A i, q : i # h.id => ~Leads(r, g, i, q)'
    BY <1>7
  <2> QED BY <1>3, <2>1
<1>14. PairRight(r, g)
  <2>1. \A x \in Direct!Task : Sent(g, r, x) => x.id \in Direct!Ids
    BY QueuedFacts DEF Sent
  <2>2. \A x \in Direct!Task : Sent(g, r, x) => \E o \in Ids0 : Leads(g, r, x.id, o)
    BY QueuedFacts DEF Sent
  <2>3. SameRooms(g, r) /\ SameTasks(g, r)
    BY <1>5, <1>11, <1>12
  <2>4. h.step # "accept"
    OBVIOUS
  <2>5. PairOk(r, g)' /\ PairOk(g, r)' /\ ~Linked(r, g) /\ ~Linked(g, r)
    BY <1>4, <1>5, <1>6, <1>10, <1>13, <2>1, <2>2, <2>3, <2>4, PairAnswered
  <2> QED BY <2>5 DEF PairRight
<1>15. SelvesRight
  <2> SUFFICES ASSUME NEW s \in ChatSockets
               PROVE  SelfOk(s)' /\ (SelfLinked(s) => SelfLinked(s)')
    BY DEF SelvesRight
  <2>1. SelfOk(s) /\ SameTasks(s, s) /\ SameRooms(s, s) /\ 0 \in Ids0
    BY <1>5, <1>11, <1>12 DEF DirectInv, Ids0
  <2>2. SelfLinked(s) => SelfLinked(s)'
    BY <2>1 DEF SelfLinked, SameRooms, Ids0
  <2> QED BY <2>1, <2>2, SelfKept DEF SameRooms
<1>16. RoomsThere(h)
  <2> SUFFICES ASSUME NEW v \in ChatSockets, NEW x \in Direct!Task, Queued(v, x), x # h,
                      x.step # "open"
               PROVE  \E o \in Ids0 :
                        Leads(requests[x.req].from, requests[x.req].to, x.id, o)'
    BY DEF RoomsThere
  <2>1. PICK c \in ChatSockets, d \in ChatSockets :
          c = requests[x.req].from /\ d = requests[x.req].to
    BY QueuedFacts
  <2>2. PICK o \in Ids0 : Leads(c, d, x.id, o)
    BY <2>1, QueuedFacts
  <2>3. ~(c = r /\ d = g)
    BY <1>5, <2>1 DEF Sent
  <2>4. Leads(c, d, x.id, o)'
    BY <1>7, <2>2, <2>3
  <2> QED BY <2>1, <2>4
<1>17. RoomsElsewhere(r, g) /\ IdsMove(h, r, g) /\ PlacesTasks(M)
  BY <1>9, <1>12 DEF RoomsElsewhere, IdsMove, PlacesTasks
<1>18. AnswersKept(h) /\ RequestOk(h.req)'
  BY <1>1, ToldOnce, RequestTold
<1> QED BY <1>2, <1>3, <1>9, <1>14, <1>15, <1>16, <1>17, <1>18, DirectKept

\* RecipientLimit().
LEMMA RecipientLimitStep ==
  ASSUME DirectInv, NEW r \in ChatSockets, Direct!RecipientLimit(r)
  PROVE  DirectInv'
<1>1. PICK h : h = Head(chat_tasks[r])
  OBVIOUS
<1>2. /\ chat_tasks[r] # <<>> /\ h \in Direct!Task /\ Queued(r, h)
      /\ h.step = "full" /\ Direct!Current(r) = h
  BY <1>1, HeadFacts DEF Direct!RecipientLimit
<1>3. PICK a \in Direct!Answer : a = [kind |-> "recipient_limit"]
  BY AnswerTypes
<1>4. /\ RemovesRoom(r, h.id) /\ Direct!Tell(r, a) /\ Direct!Done(r)
      /\ next_id' = next_id /\ requests' = requests
  BY <1>2, <1>3 DEF Direct!RecipientLimit, RemovesRoom
<1>5. /\ RoomTypes'
      /\ \A c \in ChatSockets : \A d, i, q : Leads(c, d, i, q)' <=>
           Leads(c, d, i, q) /\ ~(c = r /\ i = h.id)
  BY <1>4, RoomRemoved DEF DirectInv, DirectTypes
<1> QED BY <1>1, <1>2, <1>4, <1>5, AnsweredStep

\* Link(): the room is there and not linked.
LEMMA LinkStep ==
  ASSUME DirectInv, NEW r \in ChatSockets, Direct!Link(r)
  PROVE  DirectInv'
<1>1. PICK h : h = Head(chat_tasks[r])
  OBVIOUS
<1>2. /\ chat_tasks[r] # <<>> /\ h \in Direct!Task /\ Queued(r, h)
      /\ h.step = "link" /\ Direct!Current(r) = h
  BY <1>1, HeadFacts DEF Direct!Link
<1>3. PICK g \in ChatSockets : requests[h.req].to = g
  BY <1>2, QueuedFacts
<1>4. requests[h.req].from = r /\ h.other \in Direct!Ids /\ h.id \in Direct!Ids
  BY <1>2, QueuedFacts
<1>5. Sent(r, g, h) /\ r # g
  BY <1>2, <1>3, <1>4, OnlyRequest
<1>6. Leads(r, g, h.id, 0)
  BY <1>2, <1>5 DEF DirectInv, PairOk, AnswerIsNext
<1>7. h.id \in DOMAIN rooms[r] /\ rooms[r][h.id].other = 0 /\ rooms[r][h.id].peer = g
  BY <1>6 DEF Leads
<1>8. PICK a \in Direct!Answer : a = [kind |-> "channel", id |-> h.id]
  BY <1>4, AnswerTypes DEF Ids0
<1>9. /\ LinksRoom(r, h.id, h.other) /\ Direct!Tell(r, a) /\ Direct!Done(r)
      /\ next_id' = next_id /\ requests' = requests
  BY <1>2, <1>7, <1>8 DEF Direct!Link, LinksRoom, Direct!TellChannel
<1>10. /\ RoomTypes'
       /\ \A c \in ChatSockets : \A d, i, q : Leads(c, d, i, q)' <=>
            IF c = r /\ i = h.id THEN rooms[r][h.id].peer = d /\ q = h.other
            ELSE Leads(c, d, i, q)
  <2>1. RoomTypes /\ h.other \in Ids0
    BY <1>4 DEF DirectInv, DirectTypes, Ids0
  <2> QED BY <1>7, <1>9, <2>1, RoomLinked
<1>11. \A d, q : Leads(r, d, h.id, q)' <=> d = requests[h.req].to /\ q = h.other
  BY <1>3, <1>7, <1>10
<1> QED BY <1>1, <1>2, <1>4, <1>9, <1>10, <1>11, AnsweredStep

\* A new request, with the answers w so far and the tasks of M.
LEMMA NewRequestStep ==
  ASSUME DirectInv, NEW c \in ChatRequest, NEW w \in Seq(Direct!Answer), NEW M,
         Len(requests) < MaxRequests,
         requests' = Append(requests, c), answers' = Append(answers, w),
         rooms' = rooms, next_id' = next_id,
         chat_tasks' \in [ChatSockets -> Seq(Direct!Task)], TasksOnce',
         \A v \in ChatSockets : \A x \in Direct!Task :
           Queued(v, x)' <=> Queued(v, x) \/ <<v, x>> \in M,
         \A v \in ChatSockets : \A x, y \in Direct!Task :
           Before(v, x, y) => Before(v, x, y)',
         \A v \in ChatSockets : \A x \in Direct!Task : <<v, x>> \in M =>
           /\ x.step = "open" /\ x.req = Len(requests) + 1 /\ v = c.from /\ w = <<>>,
         \/ Len(w) = 1
         \/ \E v \in ChatSockets : \E x \in Direct!Task : <<v, x>> \in M
  PROVE  DirectInv'
<1>1. PICK n \in Nat : n = Len(requests)
  BY DEF DirectInv, DirectTypes
<1>2. /\ requests \in Seq(ChatRequest) /\ answers \in Seq(Seq(Direct!Answer))
      /\ Len(answers) = n /\ n < MaxRequests /\ MaxRequests \in Nat
  BY <1>1, ChatIds DEF DirectInv, DirectTypes
<1>3. /\ requests' \in Seq(ChatRequest) /\ Len(requests') = n + 1
      /\ requests'[n + 1] = c /\ \A k \in 1 .. n : requests'[k] = requests[k]
  BY <1>1, <1>2
<1>4. /\ answers' \in Seq(Seq(Direct!Answer)) /\ Len(answers') = n + 1
      /\ answers'[n + 1] = w /\ \A k \in 1 .. n : answers'[k] = answers[k]
  <2>1. PICK W : W = Seq(Direct!Answer)
    OBVIOUS
  <2>2. answers \in Seq(W) /\ w \in W
    BY <1>2, <2>1
  <2>3. /\ answers' \in Seq(W) /\ Len(answers') = n + 1
        /\ answers'[n + 1] = w /\ \A k \in 1 .. n : answers'[k] = answers[k]
    BY <1>2, <2>2
  <2> QED BY <2>1, <2>3
<1>5. /\ RoomTypes'
      /\ \A d, e, a, q : Leads(d, e, a, q)' <=> Leads(d, e, a, q)
      /\ \A s, t : SameRooms(s, t)
      /\ \A s \in ChatSockets : SelfLinked(s) => SelfLinked(s)'
  BY RoomsSame DEF DirectInv, DirectTypes
<1>6. DirectTypes'
  <2>1. n + 1 <= MaxRequests
    BY <1>2
  <2> QED BY <1>3, <1>4, <1>5, <2>1 DEF DirectTypes
<1>7. \A v \in ChatSockets : \A x \in Direct!Task : Queued(v, x) =>
        x.req \in 1 .. n /\ x.req # n + 1 /\ requests'[x.req] = requests[x.req]
  <2> SUFFICES ASSUME NEW v \in ChatSockets, NEW x \in Direct!Task, Queued(v, x)
               PROVE  x.req \in 1 .. n /\ x.req # n + 1 /\ requests'[x.req] = requests[x.req]
    OBVIOUS
  <2>1. x.req \in 1 .. n
    BY <1>1, QueuedFacts
  <2>2. x.req # n + 1
    BY <2>1
  <2> QED BY <1>3, <2>1, <2>2
<1>8. ASSUME NEW v \in ChatSockets, NEW x \in Direct!Task, Queued(v, x)'
      PROVE  TaskPlaced(v, x)'
  <2>1. CASE Queued(v, x)
    <3>1. TaskPlaced(v, x) /\ x.req \in 1 .. n /\ requests'[x.req] = requests[x.req]
      BY <1>7, <2>1 DEF DirectInv
    <3>2. answers'[x.req] = answers[x.req] /\ x.req \in 1 .. n + 1
      BY <1>4, <3>1
    <3>3. PICK f, g : f = requests[x.req].from /\ g = requests[x.req].to
      OBVIOUS
    <3>4. x.step # "open" => \E o \in Direct!Ids \cup {0} : Leads(f, g, x.id, o)'
      BY <1>5, <3>1, <3>3 DEF TaskPlaced
    <3> QED BY <1>3, <3>1, <3>2, <3>3, <3>4 DEF TaskPlaced
  <2>2. CASE <<v, x>> \in M
    <3>1. x.step = "open" /\ x.req = n + 1 /\ v = c.from /\ w = <<>>
      BY <1>1, <2>2
    <3>2. x.req \in 1 .. n + 1
      BY <3>1
    <3> QED BY <1>3, <1>4, <3>1, <3>2 DEF TaskPlaced
  <2> QED BY <1>8, <2>1, <2>2
<1>9. \A s, t : SameTasks(s, t)
  <2> SUFFICES ASSUME NEW s, NEW t, NEW x \in Direct!Task
               PROVE  Sent(s, t, x)' <=> Sent(s, t, x)
    BY DEF SameTasks
  <2>1. x.step # "open" => \A v \in ChatSockets : Queued(v, x)' <=> Queued(v, x)
    OBVIOUS
  <2> QED BY <1>7, <2>1 DEF Sent
<1>10. ASSUME NEW k \in 1 .. n, NEW steps
       PROVE  Waiting(k, steps)' <=> Waiting(k, steps)
  <2>1. k # n + 1
    OBVIOUS
  <2>2. \A v \in ChatSockets : \A x \in Direct!Task :
          x.req = k => (Queued(v, x)' <=> Queued(v, x))
    BY <1>1, <2>1
  <2> QED BY <2>2 DEF Waiting
<1>11. ASSUME NEW s \in ChatSockets PROVE IdsCounted(s)'
  <2>1. \A k \in 1 .. n : k \in 1 .. n + 1
    OBVIOUS
  <2>2. Opened(s) \subseteq Opened(s)'
    BY <1>1, <1>3, <1>10, <2>1 DEF Opened
  <2>3. Accepted(s) \subseteq Accepted(s)'
    BY <1>1, <1>3, <1>10, <2>1 DEF Accepted
  <2> QED BY <1>6, <2>2, <2>3, IdsKept
<1>12. ASSUME NEW s \in ChatSockets, NEW t \in ChatSockets, s # t
       PROVE  PairOk(s, t)' /\ (Linked(s, t) => Linked(s, t)')
  <2>1. PairOk(s, t)
    BY <1>12 DEF DirectInv
  <2> QED BY <1>5, <1>9, <2>1, PairKept
<1>13. ASSUME NEW s \in ChatSockets PROVE SelfOk(s)'
  BY <1>5, <1>9, SelfKept DEF DirectInv
<1>14. ASSUME NEW k \in 1 .. n + 1 PROVE RequestOk(k)'
  <2>1. CASE k = n + 1
    <3>1. CASE Len(w) = 1
      BY <1>4, <2>1, <3>1 DEF RequestOk
    <3>2. CASE \E v \in ChatSockets : \E x \in Direct!Task : <<v, x>> \in M
      <4>1. PICK v \in ChatSockets, x \in Direct!Task : <<v, x>> \in M
        BY <3>2
      <4>2. Queued(v, x)' /\ x.req = k /\ x.step = "open"
        BY <1>1, <2>1, <4>1
      <4> QED BY <4>2 DEF RequestOk, Waiting
    <3> QED BY <3>1, <3>2
  <2>2. CASE k \in 1 .. n
    <3>1. RequestOk(k) /\ answers'[k] = answers[k] /\ requests'[k] = requests[k]
      BY <1>1, <1>3, <1>4, <2>2 DEF DirectInv
    <3>2. requests[k] \in ChatRequest
      BY <1>1, <1>2, <2>2
    <3>3. requests[k].from \in ChatSockets /\ requests[k].to \in ChatSockets
      BY <3>2 DEF ChatRequest
    <3>4. Waiting(k, {"open", "accept", "link", "full"})' <=>
            Waiting(k, {"open", "accept", "link", "full"})
      BY <1>10, <2>2
    <3> QED BY <1>5, <1>12, <3>1, <3>3, <3>4 DEF RequestOk
  <2>3. k = n + 1 \/ k \in 1 .. n
    OBVIOUS
  <2> QED BY <2>1, <2>2, <2>3
<1>15. \A k \in (1 .. Len(requests))' : RequestOk(k)'
  BY <1>3, <1>14
<1> QED BY <1>6, <1>8, <1>11, <1>12, <1>13, <1>15 DEF DirectInv

\* NewDirectNotFound().
LEMMA NotFoundStep ==
  ASSUME DirectInv, NEW s \in ChatSockets, Direct!NewDirectNotFound(s)
  PROVE  DirectInv'
<1>1. PICK c \in ChatRequest : c = [from |-> s, to |-> s]
  BY DEF ChatRequest
<1>2. PICK w \in Seq(Direct!Answer) : w = <<[kind |-> "not_found"]>>
  <2>1. PICK a \in Direct!Answer : a = [kind |-> "not_found"]
    BY AnswerTypes
  <2>2. <<a>> \in Seq(Direct!Answer)
    OBVIOUS
  <2> QED BY <2>1, <2>2
<1>3. Len(w) = 1
  BY <1>2
<1>4. /\ Len(requests) < MaxRequests
      /\ requests' = Append(requests, c) /\ answers' = Append(answers, w)
      /\ rooms' = rooms /\ next_id' = next_id /\ chat_tasks' = chat_tasks
  BY <1>1, <1>2 DEF Direct!NewDirectNotFound
<1>5. /\ chat_tasks' \in [ChatSockets -> Seq(Direct!Task)]
      /\ \A v, x : Queued(v, x)' <=> Queued(v, x)
      /\ \A v, x, y : Before(v, x, y)' <=> Before(v, x, y)
  BY <1>4 DEF DirectInv, DirectTypes, Queued, Before
<1>6. TasksOnce'
  BY <1>4, <1>5 DEF DirectInv, TasksOnce
<1>7. PICK M : M = {}
  OBVIOUS
<1>8. \A v, x : <<v, x>> \notin M
  BY <1>7
<1> QED BY <1>3, <1>4, <1>5, <1>6, <1>8, NewRequestStep

\* NewDirect().
LEMMA NewDirectStep ==
  ASSUME DirectInv, NEW s \in ChatSockets, NEW t \in ChatSockets, Direct!NewDirect(s, t)
  PROVE  DirectInv'
<1>1. PICK c \in ChatRequest : c = [from |-> s, to |-> t]
  BY DEF ChatRequest
<1>2. PICK w \in Seq(Direct!Answer) : w = <<>>
  <2>1. <<>> \in Seq(Direct!Answer)
    OBVIOUS
  <2> QED BY <2>1
<1>3. PICK n \in Nat : n = Len(requests)
  BY DEF DirectInv, DirectTypes
<1>4. n + 1 \in 1 .. MaxRequests
  BY <1>3, ChatIds DEF Direct!NewDirect
<1>5. PICK z \in Direct!Task : z = [step |-> "open", req |-> n + 1, id |-> 0, other |-> 0]
  BY <1>4 DEF Direct!Task
<1>6. z.step = "open" /\ z.req = n + 1
  BY <1>5
<1>7. /\ Len(requests) < MaxRequests
      /\ requests' = Append(requests, c) /\ answers' = Append(answers, w)
      /\ rooms' = rooms /\ next_id' = next_id
      /\ chat_tasks' = [chat_tasks EXCEPT ![s] = Append(@, z)]
  BY <1>1, <1>2, <1>3, <1>5 DEF Direct!NewDirect
<1>8. /\ chat_tasks \in [ChatSockets -> Seq(Direct!Task)]
      /\ \A v \in ChatSockets : OnceEach(chat_tasks[v])
  BY DEF DirectInv, DirectTypes, TasksOnce
<1>9. \A v \in ChatSockets : \A x \in Direct!Task : Queued(v, x) => x.req # z.req
  <2> SUFFICES ASSUME NEW v \in ChatSockets, NEW x \in Direct!Task, Queued(v, x)
               PROVE  x.req # z.req
    OBVIOUS
  <2>1. x.req \in 1 .. n
    BY <1>3, QueuedFacts
  <2> QED BY <1>6, <2>1
<1>10. PICK m \in Seq(Direct!Task) : m = chat_tasks[s]
  BY <1>8
<1>11. OnceEach(m) /\ \A x \in Direct!Task : In(m, x) => x.req # z.req
  BY <1>8, <1>9, <1>10 DEF Queued
<1>12. /\ Append(m, z) \in Seq(Direct!Task) /\ OnceEach(Append(m, z))
       /\ \A x \in Direct!Task : In(Append(m, z), x) <=> In(m, x) \/ x = z
       /\ \A x, y \in Direct!Task : InOrder(m, x, y) => InOrder(Append(m, z), x, y)
  BY <1>11, ChatAppend
<1>13. /\ chat_tasks' \in [ChatSockets -> Seq(Direct!Task)]
       /\ chat_tasks'[s] = Append(m, z)
       /\ \A v \in ChatSockets \ {s} : chat_tasks'[v] = chat_tasks[v]
  <2>1. chat_tasks' = [chat_tasks EXCEPT ![s] = Append(m, z)]
    BY <1>7, <1>10
  <2> QED BY <1>8, <1>12, <2>1
<1>14. ASSUME NEW v \in ChatSockets, NEW x \in Direct!Task
       PROVE  Queued(v, x)' <=> Queued(v, x) \/ (v = s /\ x = z)
  <2>1. CASE v = s
    BY <1>10, <1>12, <1>13, <2>1 DEF Queued
  <2>2. CASE v # s
    BY <1>13, <2>2 DEF Queued
  <2> QED BY <2>1, <2>2
<1>15. ASSUME NEW v \in ChatSockets, NEW x \in Direct!Task, NEW y \in Direct!Task,
              Before(v, x, y)
       PROVE  Before(v, x, y)'
  <2>1. CASE v = s
    BY <1>10, <1>12, <1>13, <1>15, <2>1 DEF Before
  <2>2. CASE v # s
    BY <1>13, <1>15, <2>2 DEF Before
  <2> QED BY <2>1, <2>2
<1>16. \A v \in ChatSockets : OnceEach(chat_tasks'[v])
  BY <1>8, <1>12, <1>13
<1>17. TasksOnce'
  BY <1>9, <1>14, <1>16 DEF DirectInv, TasksOnce
<1>18. PICK M : \A v, x : <<v, x>> \in M <=> v = s /\ x = z
  <2>1. \A v, x : <<v, x>> \in {<<s, z>>} <=> v = s /\ x = z
    OBVIOUS
  <2> QED BY <2>1
<1>19. \E v \in ChatSockets : \E x \in Direct!Task : <<v, x>> \in M
  <2>1. <<s, z>> \in M
    BY <1>18
  <2> QED BY <2>1
<1>20. \A v \in ChatSockets : \A x \in Direct!Task :
         Queued(v, x)' <=> Queued(v, x) \/ <<v, x>> \in M
  BY <1>14, <1>18
<1>21. \A v \in ChatSockets : \A x \in Direct!Task : <<v, x>> \in M =>
         /\ x.step = "open" /\ x.req = Len(requests) + 1 /\ v = c.from /\ w = <<>>
  <2>1. c.from = s
    BY <1>1
  <2> QED BY <1>2, <1>3, <1>6, <1>18, <2>1
<1> QED BY <1>7, <1>13, <1>15, <1>17, <1>19, <1>20, <1>21, NewRequestStep

\* OpenLimit() and OpenExisting().
LEMMA OpenLimitStep ==
  ASSUME DirectInv, NEW r \in ChatSockets,
         Direct!OpenLimit(r) \/ Direct!OpenExisting(r)
  PROVE  DirectInv'
<1>1. CASE Direct!OpenLimit(r)
  <2>1. PICK a \in Direct!Answer : a = [kind |-> "limit"]
    BY AnswerTypes
  <2> QED BY <1>1, <2>1, OpenEndsStep DEF Direct!OpenLimit
<1>2. CASE Direct!OpenExisting(r)
  <2>1. PICK i \in Direct!RoomsTo(r, Direct!To(r)) :
          Direct!TellChannel(r, rooms[r][i].other)
    BY <1>2 DEF Direct!OpenExisting
  <2>2. i \in DOMAIN rooms[r]
    BY <2>1 DEF Direct!RoomsTo
  <2>3. rooms[r][i] \in Direct!Room
    BY <2>2 DEF DirectInv, DirectTypes, RoomTypes
  <2>4. PICK o \in Ids0 : o = rooms[r][i].other
    BY <2>3 DEF Direct!Room, Ids0
  <2>5. PICK a \in Direct!Answer : a = [kind |-> "channel", id |-> o]
    BY AnswerTypes
  <2>6. Direct!Tell(r, a)
    BY <2>1, <2>4, <2>5 DEF Direct!TellChannel
  <2> QED BY <1>2, <2>6, OpenEndsStep DEF Direct!OpenExisting
<1> QED BY <1>1, <1>2

\* No chats yet.
LEMMA DirectInit ==
  ASSUME Direct!Init
  PROVE  DirectInv
<1>1. /\ rooms = [s \in ChatSockets |-> <<>>] /\ next_id = [s \in ChatSockets |-> 1]
      /\ chat_tasks = [s \in ChatSockets |-> <<>>] /\ requests = <<>> /\ answers = <<>>
  BY DEF Direct!Init
<1>2. \A x, y : ~In(<<>>, x) /\ ~InOrder(<<>>, x, y) /\ OnceEach(<<>>)
  BY DEF In, InOrder, OnceEach
<1>3. ASSUME NEW s \in ChatSockets
      PROVE  /\ DOMAIN rooms[s] = {} /\ rooms[s] \in [DOMAIN rooms[s] -> Direct!Room]
             /\ next_id[s] = 1 /\ \A x : ~Queued(s, x)
  <2>1. rooms[s] = <<>> /\ next_id[s] = 1 /\ chat_tasks[s] = <<>>
    BY <1>1
  <2>2. DOMAIN <<>> = {} /\ <<>> \in [{} -> Direct!Room]
    OBVIOUS
  <2> QED BY <1>2, <2>1, <2>2 DEF Queued
<1>4. RoomTypes
  <2>1. Cardinality({}) = 0 /\ Limit \in Nat
    BY FS_EmptySet, ChatIds
  <2>2. \A s \in ChatSockets : Cardinality(DOMAIN rooms[s]) <= Limit
    BY <1>3, <2>1
  <2> QED BY <1>1, <1>3, <2>2 DEF RoomTypes
<1>5. DirectTypes
  <2>1. /\ <<>> \in Seq(Direct!Task) /\ <<>> \in Seq(ChatRequest)
        /\ <<>> \in Seq(Seq(Direct!Answer)) /\ Len(<<>>) = 0
    OBVIOUS
  <2> QED BY <1>1, <1>4, <2>1, ChatIds DEF DirectTypes
<1>6. TasksOnce
  BY <1>1, <1>2, <1>3 DEF TasksOnce
<1>7. /\ \A s \in ChatSockets : \A t, a, o : ~Leads(s, t, a, o)
      /\ \A s, t, x : ~Sent(s, t, x)
  BY <1>3 DEF Leads, Sent
<1>8. \A s \in ChatSockets : IdsCounted(s)
  <2> SUFFICES ASSUME NEW s \in ChatSockets PROVE IdsCounted(s)
    OBVIOUS
  <2>1. Opened(s) \subseteq 1 .. Len(requests) /\ Accepted(s) \subseteq 1 .. Len(requests)
    BY DEF Opened, Accepted
  <2>2. PICK a, b \in Nat : a = Cardinality(Opened(s)) /\ b = Cardinality(Accepted(s))
    BY <1>5, <2>1, RequestsCounted
  <2>3. next_id[s] - 1 <= a + b
    BY <1>3
  <2> QED BY <2>2, <2>3 DEF IdsCounted
<1>9. \A s, t \in ChatSockets : PairOk(s, t)
  BY <1>7 DEF PairOk, OneRoom, CrossedIsLinked, AnswerIsNext, UnlinkedIsAnswered
<1>10. \A s \in ChatSockets : SelfOk(s)
  BY <1>7 DEF SelfOk
<1>11. \A k \in 1 .. Len(requests) : RequestOk(k)
  <2>1. Len(<<>>) = 0 /\ 1 .. 0 = {}
    OBVIOUS
  <2> QED BY <1>1, <2>1
<1> QED BY <1>3, <1>5, <1>6, <1>8, <1>9, <1>10, <1>11 DEF DirectInv

\* Nothing of this part changes.
LEMMA DirectStutter ==
  ASSUME DirectInv, UNCHANGED direct_vars
  PROVE  DirectInv'
<1>1. /\ rooms' = rooms /\ next_id' = next_id /\ chat_tasks' = chat_tasks
      /\ requests' = requests /\ answers' = answers
  BY DEF direct_vars
<1>2. /\ \A s, t, a, o : Leads(s, t, a, o)' <=> Leads(s, t, a, o)
      /\ \A v, x : Queued(v, x)' <=> Queued(v, x)
      /\ \A v, x, y : Before(v, x, y)' <=> Before(v, x, y)
  BY <1>1 DEF Leads, Queued, Before
<1>3. DirectTypes' /\ TasksOnce'
  <2>1. DirectTypes'
    BY <1>1 DEF DirectInv, DirectTypes, RoomTypes
  <2>2. TasksOnce'
    BY <1>1, <1>2 DEF DirectInv, TasksOnce
  <2> QED BY <2>1, <2>2
<1>4. ASSUME NEW v \in ChatSockets, NEW x \in Direct!Task, Queued(v, x)'
      PROVE  TaskPlaced(v, x)'
  <2>1. TaskPlaced(v, x)
    BY <1>2, <1>4 DEF DirectInv
  <2>2. PICK f, g : f = requests[x.req].from /\ g = requests[x.req].to
    OBVIOUS
  <2>3. x.step # "open" => \E o \in Direct!Ids \cup {0} : Leads(f, g, x.id, o)'
    BY <1>2, <2>1, <2>2 DEF TaskPlaced
  <2> QED BY <1>1, <2>1, <2>2, <2>3 DEF TaskPlaced
<1>5. \A s, t : SameRooms(s, t) /\ SameTasks(s, t)
  BY <1>1, <1>2 DEF SameRooms, SameTasks, Sent
<1>6. \A k, steps : Waiting(k, steps)' <=> Waiting(k, steps)
  BY <1>2 DEF Waiting
<1>7. ASSUME NEW s \in ChatSockets PROVE IdsCounted(s)'
  <2>1. Opened(s) = Opened(s)' /\ Accepted(s) = Accepted(s)'
    BY <1>1, <1>6 DEF Opened, Accepted
  <2>2. IdsCounted(s)
    BY DEF DirectInv
  <2> QED BY <1>1, <2>1, <2>2 DEF IdsCounted
<1>8. ASSUME NEW s \in ChatSockets, NEW t \in ChatSockets, s # t
      PROVE  PairOk(s, t)' /\ (Linked(s, t) => Linked(s, t)')
  <2>1. PairOk(s, t)
    BY <1>8 DEF DirectInv
  <2> QED BY <1>2, <1>5, <2>1, PairKept
<1>9. ASSUME NEW s \in ChatSockets
      PROVE  SelfOk(s)' /\ (SelfLinked(s) => SelfLinked(s)')
  <2>1. SelfOk(s)'
    BY <1>2, <1>5, SelfKept DEF DirectInv
  <2>2. SelfLinked(s) => SelfLinked(s)'
    BY <1>2 DEF SelfLinked
  <2> QED BY <2>1, <2>2
<1>10. ASSUME NEW k \in 1 .. Len(requests) PROVE RequestOk(k)'
  <2>1. RequestOk(k) /\ answers'[k] = answers[k] /\ requests'[k] = requests[k]
    BY <1>1 DEF DirectInv
  <2>2. requests[k] \in ChatRequest
    BY DEF DirectInv, DirectTypes
  <2>3. requests[k].from \in ChatSockets /\ requests[k].to \in ChatSockets
    BY <2>2 DEF ChatRequest
  <2>4. PICK f \in ChatSockets, g \in ChatSockets :
          f = requests[k].from /\ g = requests[k].to
    BY <2>3
  <2>5. f # g => (Linked(f, g) => Linked(f, g)')
    BY <1>8
  <2>6. SelfLinked(f) => SelfLinked(f)'
    BY <1>9
  <2> QED BY <1>6, <2>1, <2>4, <2>5, <2>6 DEF RequestOk
<1>11. \A k \in (1 .. Len(requests))' : RequestOk(k)'
  BY <1>1, <1>10
<1> QED BY <1>3, <1>4, <1>7, <1>8, <1>9, <1>11 DEF DirectInv

\* Every step keeps the invariant.
LEMMA DirectStep ==
  ASSUME DirectInv, [Direct!Next]_direct_vars
  PROVE  DirectInv'
<1>1. CASE UNCHANGED direct_vars
  BY <1>1, DirectStutter
<1>2. CASE Direct!Next
  <2>1. PICK s \in ChatSockets :
          \/ Direct!NewDirectNotFound(s) \/ Direct!Run(s)
          \/ \E t \in ChatSockets : Direct!NewDirect(s, t)
    BY <1>2 DEF Direct!Next
  <2>2. CASE Direct!Run(s)
    BY <2>2, OpenLimitStep, OpenStep, AcceptExistingStep, AcceptLimitStep, AcceptStep,
       RecipientLimitStep, LinkStep DEF Direct!Run
  <2> QED BY <2>1, <2>2, NotFoundStep, NewDirectStep
<1> QED BY <1>1, <1>2

\* What the sum does is a step of this part, or nothing.
LEMMA DirectSteps == [SocketsNext]_all_vars => [Direct!Next]_direct_vars
BY DEF SocketsNext, all_vars, direct_vars

\* The types.
LEMMA DirectTypeOK ==
  ASSUME DirectInv
  PROVE  Direct!TypeOK
<1>1. DirectTypes
  BY DEF DirectInv
<1>2. ASSUME NEW s \in ChatSockets
      PROVE  /\ DOMAIN rooms[s] \subseteq 1 .. next_id[s] - 1
             /\ \A i \in DOMAIN rooms[s] : rooms[s][i] \in Direct!Room
             /\ \A i \in DOMAIN chat_tasks[s] : chat_tasks[s][i] \in Direct!Task
  BY <1>1 DEF DirectTypes, RoomTypes
<1>3. next_id \in [ChatSockets -> 1 .. 2 * MaxRequests + 1]
  BY <1>1, RoomIds DEF DirectTypes, RoomTypes
<1>4. Len(requests) <= MaxRequests /\ DOMAIN answers = DOMAIN requests
  BY <1>1 DEF DirectTypes
<1>5. ASSUME NEW k \in DOMAIN answers, NEW i \in DOMAIN answers[k]
      PROVE  answers[k][i] \in Direct!Answer
  <2>1. answers \in Seq(Seq(Direct!Answer))
    BY <1>1 DEF DirectTypes
  <2>2. answers[k] \in Seq(Direct!Answer)
    BY <2>1
  <2> QED BY <2>2
<1> QED BY <1>2, <1>3, <1>4, <1>5 DEF Direct!TypeOK

\* The limit, and one room to each other socket.
LEMMA DirectRooms ==
  ASSUME DirectInv
  PROVE  Direct!LimitHolds /\ Direct!OneRoomEach
<1>1. \A S : Direct!Cardinality(S) = Cardinality(S)
  BY DEF Direct!Cardinality, Cardinality
<1>2. Direct!LimitHolds
  BY <1>1 DEF DirectInv, DirectTypes, RoomTypes, Direct!LimitHolds, Direct!Size
<1>3. ASSUME NEW s \in ChatSockets, NEW t \in ChatSockets, s # t
      PROVE  Cardinality(Direct!RoomsTo(s, t)) <= 1
  <2>1. OneRoom(s, t)
    BY <1>3 DEF DirectInv, PairOk
  <2>2. \A i \in Direct!RoomsTo(s, t) :
          Leads(s, t, i, rooms[s][i].other) /\ i \in Direct!Ids /\ rooms[s][i].other \in Ids0
    BY LeadsIds DEF Direct!RoomsTo, Leads
  <2>3. \A i, j \in Direct!RoomsTo(s, t) : i = j
    BY <2>1, <2>2 DEF OneRoom, Ids0
  <2>4. PICK S : S = Direct!RoomsTo(s, t)
    OBVIOUS
  <2>5. CASE S = {}
    <3>1. Cardinality(S) = 0
      BY <2>5, FS_EmptySet
    <3> QED BY <2>4, <3>1
  <2>6. CASE S # {}
    <3>1. PICK i : S = {i}
      BY <2>3, <2>4, <2>6
    <3>2. Cardinality(S) = 1
      BY <3>1, FS_Singleton
    <3> QED BY <2>4, <3>2
  <2> QED BY <2>5, <2>6
<1>4. Direct!OneRoomEach
  BY <1>1, <1>3 DEF Direct!OneRoomEach
<1> QED BY <1>2, <1>4

\* A request with a task is pending.
LEMMA QueuedIsPending ==
  ASSUME DirectInv, NEW s \in ChatSockets, NEW x \in Direct!Task, Queued(s, x)
  PROVE  Direct!Pending(x.req)
<1>1. chat_tasks[s] \in Seq(Direct!Task)
  BY DEF DirectInv, DirectTypes
<1>2. PICK i \in 1 .. Len(chat_tasks[s]) : chat_tasks[s][i] = x
  BY DEF Queued, In
<1>3. i \in DOMAIN chat_tasks[s]
  BY <1>1
<1> QED BY <1>2, <1>3 DEF Direct!Pending

\* Between quiet sockets a request was answered, or its ends are linked.
LEMMA DirectAnswers ==
  ASSUME DirectInv
  PROVE  Direct!AnsweredOrLinked
<1> SUFFICES ASSUME NEW k \in DOMAIN requests,
                    Direct!Quiet(requests[k].from, requests[k].to),
                    Len(answers[k]) # 1
             PROVE  /\ answers[k] = <<>>
                    /\ \E id \in Direct!RoomsTo(requests[k].from, requests[k].to) :
                         LET o == rooms[requests[k].from][id].other IN
                         /\ o \in Direct!RoomsTo(requests[k].to, requests[k].from)
                         /\ rooms[requests[k].to][o].other = id
  BY DEF Direct!AnsweredOrLinked
<1>1. requests \in Seq(ChatRequest)
  BY DEF DirectInv, DirectTypes
<1>2. k \in 1 .. Len(requests) /\ requests[k] \in ChatRequest
  BY <1>1
<1>3. PICK s, t \in ChatSockets : s = requests[k].from /\ t = requests[k].to
  BY <1>2 DEF ChatRequest
<1>4. \A v \in ChatSockets : \A x \in Direct!Task : Queued(v, x) =>
        ~(requests[x.req].from = s /\ requests[x.req].to = t)
        /\ ~(requests[x.req].from = t /\ requests[x.req].to = s)
  <2> SUFFICES ASSUME NEW v \in ChatSockets, NEW x \in Direct!Task, Queued(v, x),
                      {requests[x.req].from, requests[x.req].to} = {s, t}
               PROVE  FALSE
    OBVIOUS
  <2>1. x.req \in DOMAIN requests
    BY <1>1, QueuedFacts
  <2> QED BY <1>3, <2>1, QueuedIsPending DEF Direct!Quiet
<1>5. ~Waiting(k, {"open", "accept", "link", "full"}) /\ ~Accepting(t, s)
  BY <1>3, <1>4 DEF Waiting, Accepting, Sent
<1>6. answers[k] = <<>> /\ IF s = t THEN SelfLinked(s) ELSE Linked(s, t)
  BY <1>2, <1>3, <1>5 DEF DirectInv, RequestOk
<1>7. \E a, b \in Direct!Ids : Leads(s, t, a, b) /\ Leads(t, s, b, a)
  BY <1>5, <1>6 DEF SelfLinked, Linked
<1>8. PICK a, b \in Direct!Ids : Leads(s, t, a, b) /\ Leads(t, s, b, a)
  BY <1>7
<1>9. /\ a \in Direct!RoomsTo(s, t) /\ rooms[s][a].other = b
      /\ b \in Direct!RoomsTo(t, s) /\ rooms[t][b].other = a
  BY <1>8 DEF Leads, Direct!RoomsTo
<1> QED BY <1>3, <1>6, <1>9

\* For any number of sockets, limits and requests that cross: no socket has more
\* rooms than the limit, none has two for the same other one, and a request is
\* answered once or its two ends are linked.
THEOREM DirectChatsAreSound == SocketsSpec => []DirectChatsSound
<1>1. SocketsInit => DirectInv
  BY DirectInit DEF SocketsInit
<1>2. DirectInv /\ [SocketsNext]_all_vars => DirectInv'
  BY DirectStep, DirectSteps
<1>3. DirectInv => DirectChatsSound
  BY DirectTypeOK, DirectRooms, DirectAnswers DEF DirectChatsSound
<1> QED BY <1>1, <1>2, <1>3, PTL DEF SocketsSpec

=============================================================================
