----------------------------- MODULE WebServer ------------------------------
(***************************************************************************)
(* The sockets of the web server (WebSocketServer.hpp): a socket is made   *)
(* and put in a list before a connection is accepted for it, reads HTTP    *)
(* requests until one asks for a WebSocket, and then reads messages until  *)
(* it is closed.  Close() is a task that is posted to the socket's strand, *)
(* by whoever finds an error, and may be posted several times; the list    *)
(* has a strand of its own.  An interrupt stops the server, which closes   *)
(* what is in the list.                                                    *)
(*                                                                         *)
(* At any time a socket has at most one operation under way, its phase:    *)
(* the accept, the reading of a request's header, the writing of the       *)
(* response, the checks before the upgrade (OnPreConnect), the upgrade,    *)
(* and the reading of a message.  An operation on a socket that is closed  *)
(* completes with an error.                                                *)
(***************************************************************************)
EXTENDS Naturals, FiniteSets

CONSTANTS
  Sockets,       \* bound: sockets made
  AcceptErrors   \* an accept may fail though the server is not stopping

\* What the constants are.
WebServerAssumption == AcceptErrors \in BOOLEAN

VARIABLES
  list,          \* sockets_: the sockets that the server keeps
  made,          \* sockets made so far
  stopping,      \* stopping_
  acceptor,      \* acceptor_ is open
  accepts,       \* a DoAccept() task is on the strand of the list
  stop_task,     \* Stop()'s task is on the strand of the list
  phase,         \* the operation of each socket, "none" without one
  connected,     \* sockets whose TCP connection is open
  callback,      \* sockets whose close_callback_ is set
  closing,       \* sockets with a Close() task on their strand
  removing,      \* sockets with a RemoveSocket() task on the list's strand
  web,           \* sockets on which OnConnect() was called
  disconnects,   \* how often OnDisconnect() was called on each
  expired        \* sockets whose request_deadline_ has passed

vars == <<list, made, stopping, acceptor, accepts, stop_task, phase,
          connected, callback, closing, removing, web, disconnects, expired>>
server == <<list, made, stopping, acceptor, accepts, stop_task, removing>>

Phases == {"none", "accepting", "header", "response", "checking",
           "upgrading", "message"}

Init ==
  /\ list = {} /\ made = {}
  /\ stopping = FALSE /\ acceptor = TRUE
  /\ accepts = TRUE /\ stop_task = FALSE
  /\ phase = [s \in Sockets |-> "none"]
  /\ connected = {} /\ callback = {} /\ closing = {} /\ removing = {}
  /\ web = {} /\ disconnects = [s \in Sockets |-> 0]
  /\ expired = {}

-----------------------------------------------------------------------------
(* The strand of the list, the acceptor and the interrupt *)

\* A socket is made for the next connection, unless the server is stopping.
DoAccept ==
  /\ accepts /\ accepts' = FALSE
  /\ \/ /\ ~stopping
        /\ \E s \in Sockets \ made :
             /\ made' = made \cup {s} /\ list' = list \cup {s}
             /\ callback' = callback \cup {s}
             /\ phase' = [phase EXCEPT ![s] = "accepting"]
     \/ stopping /\ UNCHANGED <<made, list, callback, phase>>
  /\ UNCHANGED <<stopping, acceptor, stop_task, connected, closing, removing,
                 web, disconnects, expired>>

\* Close(), called by a task of any strand.
Close(s) == closing' = closing \cup {s}

\* Start() and, of an endpoint that is still connected, ReadHttpRequest(),
\* which sets the deadline (the deadline is never waited for).
ReadHttpRequest(s) ==
  /\ phase' = [phase EXCEPT ![s] = "header"]
  /\ expired' = expired \ {s}

\* A connection is accepted.  Its client may be gone already, so that
\* remote_endpoint() fails, as it does on a socket that was closed.
Accepted(s) ==
  /\ phase[s] = "accepting" /\ acceptor
  /\ accepts' = TRUE
  /\ \/ connected' = connected \cup {s} /\ ReadHttpRequest(s)
        /\ UNCHANGED closing
     \/ /\ connected' = connected \cup {s} /\ Close(s)
        /\ phase' = [phase EXCEPT ![s] = "none"] /\ UNCHANGED expired
  /\ UNCHANGED <<list, made, stopping, acceptor, stop_task, callback,
                 removing, web, disconnects>>

\* The accept fails, and no other is started.
AcceptFails(s) ==
  /\ phase[s] = "accepting"
  /\ ~acceptor \/ AcceptErrors
  /\ phase' = [phase EXCEPT ![s] = "none"]
  /\ Close(s)
  /\ UNCHANGED <<server, connected, callback, web, disconnects, expired>>

\* An interrupt: WebServer::Stop().
Stop ==
  /\ acceptor
  /\ acceptor' = FALSE /\ stop_task' = TRUE
  /\ UNCHANGED <<list, made, stopping, accepts, phase, connected, callback,
                 closing, removing, web, disconnects, expired>>

\* Faulty variant: only the sockets with a connection are closed by Stop().
CloseAll_Web ==
  /\ stop_task /\ stop_task' = FALSE
  /\ stopping' = TRUE
  /\ closing' = closing \cup (list \cap web)
  /\ UNCHANGED <<list, made, acceptor, accepts, phase, connected, callback,
                 removing, web, disconnects, expired>>

\* Stop()'s task on the strand of the list.
CloseAll ==
  /\ stop_task /\ stop_task' = FALSE
  /\ stopping' = TRUE
  /\ closing' = closing \cup list
  /\ UNCHANGED <<list, made, acceptor, accepts, phase, connected, callback,
                 removing, web, disconnects, expired>>

RemoveSocket(s) ==
  /\ s \in removing
  /\ removing' = removing \ {s}
  /\ list' = IF stopping THEN list ELSE list \ {s}
  /\ UNCHANGED <<made, stopping, acceptor, accepts, stop_task, phase,
                 connected, callback, closing, web, disconnects, expired>>

-----------------------------------------------------------------------------
(* A socket's strand *)

\* Faulty variant: the connection is left open.
RunClose_KeepsOpen(s) ==
  /\ s \in closing /\ closing' = closing \ {s}
  /\ callback' = callback \ {s}
  /\ \/ /\ s \in callback
        /\ removing' = removing \cup {s}
        /\ disconnects' = [disconnects EXCEPT ![s] = @ + 1]
     \/ s \notin callback /\ UNCHANGED <<removing, disconnects>>
  /\ UNCHANGED <<list, made, stopping, acceptor, accepts, stop_task, phase,
                 connected, web, expired>>

\* Close()'s task: the first one takes the socket off the list and calls
\* OnDisconnect().
RunClose(s) ==
  /\ s \in closing /\ closing' = closing \ {s}
  /\ connected' = connected \ {s}
  /\ callback' = callback \ {s}
  /\ \/ /\ s \in callback
        /\ removing' = removing \cup {s}
        /\ disconnects' = [disconnects EXCEPT ![s] = @ + 1]
     \/ s \notin callback /\ UNCHANGED <<removing, disconnects>>
  /\ UNCHANGED <<list, made, stopping, acceptor, accepts, stop_task, phase,
                 web, expired>>

\* The handler of s's operation `from` moves it to the phase `to`.
Completes(s, from, to) ==
  /\ phase[s] = from
  /\ phase' = [phase EXCEPT ![s] = to]

\* A header is read: of a request for a WebSocket, or of one that is answered
\* with a file, "404 Not Found" or "405 Method Not Allowed".
ReadsHeader(s) ==
  /\ s \in connected
  /\ \E to \in {"checking", "response"} : Completes(s, "header", to)
  /\ UNCHANGED <<server, connected, callback, closing, web, disconnects,
                 expired>>

\* The reading of a header fails: the handler returns, and leaves the socket
\* in the list.
HeaderFails(s) ==
  /\ Completes(s, "header", "none")
  /\ UNCHANGED <<server, connected, callback, closing, web, disconnects,
                 expired>>

\* A POST request: the connection is closed, and the socket stays in the list.
Posts(s) ==
  /\ s \in connected
  /\ Completes(s, "header", "none")
  /\ connected' = connected \ {s}
  /\ UNCHANGED <<server, callback, closing, web, disconnects, expired>>

\* A response is written, and the next request is read.
WritesResponse(s) ==
  /\ phase[s] = "response" /\ s \in connected
  /\ ReadHttpRequest(s)
  /\ UNCHANGED <<server, connected, callback, closing, web, disconnects>>

\* The writing of a response fails: as HeaderFails.
ResponseFails(s) ==
  /\ Completes(s, "response", "none")
  /\ UNCHANGED <<server, connected, callback, closing, web, disconnects,
                 expired>>

\* CollabVmSocket::OnPreConnect() refuses the socket or goes on.
PreConnects(s) ==
  /\ \/ Completes(s, "checking", "none") /\ Close(s)
     \/ Completes(s, "checking", "upgrading") /\ UNCHANGED closing
  /\ UNCHANGED <<server, connected, callback, web, disconnects, expired>>

\* The upgrade is done, OnConnect() is called and messages are read.
Upgrades(s) ==
  /\ s \in connected
  /\ Completes(s, "upgrading", "message")
  /\ web' = web \cup {s}
  /\ UNCHANGED <<server, connected, callback, closing, disconnects, expired>>

\* The upgrade or the reading of a message fails.
Fails(s) ==
  /\ \E from \in {"upgrading", "message"} : Completes(s, from, "none")
  /\ Close(s)
  /\ UNCHANGED <<server, connected, callback, web, disconnects, expired>>

\* OnMessage() throws, or the write of an answer fails: the socket is closed
\* while the next message is read.
CloseWebSocket(s) ==
  /\ phase[s] = "message"
  /\ s \notin closing /\ Close(s)
  /\ UNCHANGED <<server, phase, connected, callback, web, disconnects,
                 expired>>

\* Sixty seconds pass.
DeadlinePasses(s) ==
  /\ phase[s] \in {"header", "response"} /\ s \notin expired
  /\ expired' = expired \cup {s}
  /\ UNCHANGED <<server, phase, connected, callback, closing, web,
                 disconnects>>

-----------------------------------------------------------------------------
ListStep == DoAccept \/ CloseAll \/ \E s \in Sockets : RemoveSocket(s)

\* An operation on a closed connection, or a closed acceptor, fails.
Aborted(s) ==
  \/ s \notin connected /\ (HeaderFails(s) \/ ResponseFails(s) \/ Fails(s))
  \/ ~acceptor /\ AcceptFails(s)

SocketStep(s) == RunClose(s) \/ PreConnects(s) \/ Aborted(s)

ClientStep(s) ==
  \/ Accepted(s) \/ AcceptFails(s) \/ ReadsHeader(s) \/ HeaderFails(s)
  \/ Posts(s) \/ WritesResponse(s) \/ ResponseFails(s) \/ Upgrades(s)
  \/ Fails(s) \/ CloseWebSocket(s)

\* A server that has stopped, or made all its sockets, may wait forever.
Next ==
  \/ ListStep \/ Stop
  \/ \E s \in Sockets : SocketStep(s) \/ ClientStep(s) \/ DeadlinePasses(s)

\* The I/O threads run what is on the strands, an operation on a closed
\* connection completes, and time passes; clients need not do anything.
Fairness ==
  /\ WF_vars(ListStep)
  /\ \A s \in Sockets : /\ WF_vars(RunClose(s)) /\ WF_vars(PreConnects(s))
                        /\ WF_vars(Aborted(s)) /\ WF_vars(DeadlinePasses(s))

Spec == Init /\ [][Next]_vars /\ Fairness

-----------------------------------------------------------------------------
(* Properties *)

\* The type of every variable.
TypeOK ==
  /\ list \subseteq made /\ made \subseteq Sockets
  /\ {stopping, acceptor, accepts, stop_task} \subseteq BOOLEAN
  /\ phase \in [Sockets -> Phases]
  /\ UNION {connected, callback, closing, removing, web, expired} \subseteq made
  /\ disconnects \in [Sockets -> 0 .. 1]

\* A socket is taken off the list once: the iterator in its close callback is
\* used only while its element is there.
ErasesListed == ~stopping => removing \subseteq list

\* Unless the server stops, a connection that is open can still be closed: its
\* socket is in the list with its callback, or is about to leave it.
OpenIsListed ==
  \A s \in connected : s \in list /\ s \in callback

\* OnDisconnect(), which undoes what OnConnect() and the messages did, is
\* called in the end for every WebSocket whose connection ended; and a socket
\* that is closed leaves the list, unless the server is stopping.
ClosedIsForgotten ==
  \A s \in Sockets :
    /\ s \in web /\ phase[s] = "none" ~> disconnects[s] = 1
    /\ s \in closing ~> (s \notin list \/ stopping)

\* After an interrupt every connection is closed and no operation is left, so
\* that the threads end.
StopEnds ==
  ~acceptor ~> [](connected = {} /\ \A s \in Sockets : phase[s] = "none")

\* While no interrupt comes, the server goes on accepting.
GoesOnAccepting ==
  acceptor /\ made # Sockets
    => accepts \/ \E s \in Sockets : phase[s] = "accepting"

\* "Request must be fully processed within 60 seconds": one that is not is
\* given up.
DeadlineIsKept ==
  \A s \in Sockets :
    s \in expired /\ phase[s] \in {"header", "response"}
      ~> s \notin expired \/ phase[s] \notin {"header", "response"}
=============================================================================
