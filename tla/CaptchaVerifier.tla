--------------------------- MODULE CaptchaVerifier ---------------------------
(***************************************************************************)
(* The verifier of captcha tokens: one connection to the captcha service,  *)
(* one request on it at a time, the others in a queue, reconnection with a *)
(* limited number of retries, and settings that may change at any moment.  *)
(*                                                                         *)
(* An action is a task of the verifier's strand or the completion of the   *)
(* one asynchronous operation that is outstanding.  The network is the     *)
(* environment: any operation may fail.                                    *)
(***************************************************************************)
EXTENDS Integers, SequencesExt

CONSTANTS
  Settings,      \* the captcha settings an admin may choose
  NoSettings,    \* a null settings_ or pending_settings_
  MaxFailCount,  \* max_fail_count_
  MaxRequests,   \* bound: calls of Verify()
  MaxChanges     \* bound: calls of SetSettings()

ASSUME SettingsAssumption ==
  /\ Settings \subseteq [enabled : BOOLEAN, https : BOOLEAN]
  /\ NoSettings \notin Settings
ASSUME BoundsAssumption ==
  MaxFailCount \in Nat \ {0} /\ MaxRequests \in Nat /\ MaxChanges \in Nat

NoRequest == 0
Requests == 1 .. MaxRequests   \* in the order of Verify()

VARIABLES
  request,           \* request_, or NoRequest
  queue,             \* queue_
  settings,          \* settings_
  pending_settings,  \* pending_settings_
  failed_count,      \* failed_count_
  conn,              \* stream_: closed, open, or connected and usable
  op,                \* the outstanding operation, and whether it can succeed
  changes,           \* calls of SetSettings() so far
  made,              \* requests made so far
  calls              \* how often the callback of each request was called

vars == <<request, queue, settings, pending_settings, failed_count, conn, op,
          changes, made, calls>>

requests == <<request, queue, made, calls>>

\* An operation started on a stream that is closed cannot succeed.  One that
\* was under way when the stream was closed may already have succeeded.
Op(kind, live) == [kind |-> kind, live |-> live]
NoOp == Op("none", FALSE)

Init ==
  /\ request = NoRequest /\ queue = <<>>
  /\ settings = NoSettings /\ pending_settings = NoSettings
  /\ failed_count = 0
  /\ conn = "closed"
  /\ op = NoOp
  /\ changes = 0
  /\ made = 0
  /\ calls = [r \in Requests |-> 0]

-----------------------------------------------------------------------------
(* Connecting and sending. *)

TakeSettings ==
  IF pending_settings # NoSettings
    THEN /\ settings' = pending_settings
         /\ pending_settings' = NoSettings
         /\ failed_count' = 0
    ELSE UNCHANGED <<settings, pending_settings, failed_count>>

Connect ==
  /\ TakeSettings
  /\ op' = Op("resolve", TRUE)
  /\ UNCHANGED conn

\* The failure count starts again with every request that is sent.
SendRequest ==
  /\ failed_count' = 0
  /\ op' = Op("write", conn' = "connected")
  /\ UNCHANGED <<settings, pending_settings>>

\* Callbacks are called for the requests in answered.
Call(answered) ==
  calls' = [r \in Requests |-> IF r \in answered THEN calls[r] + 1 ELSE calls[r]]

\* Faulty variant: the queued requests are dropped without an answer.
RejectAll_Drops ==
  /\ Call({request})
  /\ request' = NoRequest /\ queue' = <<>>

\* Everybody waiting is told that the captcha is not valid.
RejectAll ==
  /\ Call({request} \cup ToSet(queue))
  /\ request' = NoRequest /\ queue' = <<>>

Retry ==
  /\ failed_count' = failed_count + 1
  /\ IF failed_count' >= MaxFailCount
       THEN RejectAll /\ op' = NoOp
       ELSE /\ op' = Op("retry", TRUE)
            /\ UNCHANGED <<request, queue, calls>>
  /\ UNCHANGED <<settings, pending_settings, changes, made>>

-----------------------------------------------------------------------------
(* Tasks dispatched to the strand. *)

\* Closes the stream "in case the host changed".
SetSettings(new) ==
  /\ changes < MaxChanges
  /\ changes' = changes + 1
  /\ pending_settings' = new
  /\ conn' = "closed"
  /\ UNCHANGED <<requests, settings, failed_count, op>>

InForce == IF pending_settings # NoSettings THEN pending_settings ELSE settings

IsEnabled == InForce # NoSettings /\ InForce.enabled

\* Verify() with captchas turned off, or with an empty token: answered on the
\* spot.  The task reads token through a reference to Verify()'s parameter;
\* when it had to wait for the strand, the token may be anything by then.
VerifyAtOnce(token) ==
  /\ made < MaxRequests
  /\ ~IsEnabled \/ token = "empty"
  /\ made' = made + 1
  /\ Call({made'})
  /\ UNCHANGED <<request, queue, settings, pending_settings, failed_count, conn,
                 op, changes>>

VerifyQueued(token) ==
  /\ made < MaxRequests
  /\ IsEnabled /\ token # "empty"
  /\ request # NoRequest
  /\ made' = made + 1
  /\ queue' = Append(queue, made')
  /\ UNCHANGED <<request, settings, pending_settings, failed_count, conn, op,
                 changes, calls>>

VerifyNow(token) ==
  /\ made < MaxRequests
  /\ IsEnabled /\ token # "empty"
  /\ request = NoRequest
  /\ made' = made + 1
  /\ request' = made'
  /\ IF conn = "closed" THEN Connect ELSE UNCHANGED conn /\ SendRequest
  /\ UNCHANGED <<queue, changes, calls>>

-----------------------------------------------------------------------------
(* Completions. *)

Completes(kind) == op.kind = kind

Fails ==
  /\ op.kind \in {"connect", "handshake", "write", "read"}
  /\ conn' = IF conn = "connected" THEN "open" ELSE conn
  /\ Retry

\* async_connect() opens the stream, unless no address was found.
Resolved(found) ==
  /\ Completes("resolve")
  /\ op' = Op("connect", found)
  /\ conn' = IF found THEN "open" ELSE conn
  /\ UNCHANGED <<requests, settings, pending_settings, failed_count, changes>>

\* conn tells a stream closed meanwhile from one that can be used.
Established == conn' = IF conn = "closed" THEN "closed" ELSE "connected"

Connected ==
  /\ Completes("connect") /\ op.live
  /\ IF settings.https
       THEN /\ op' = Op("handshake", conn # "closed")
            /\ UNCHANGED <<settings, pending_settings, failed_count, conn>>
       ELSE Established /\ SendRequest
  /\ UNCHANGED <<requests, changes>>

Handshaken ==
  /\ Completes("handshake") /\ op.live
  /\ Established
  /\ SendRequest
  /\ UNCHANGED <<requests, changes>>

Written ==
  /\ Completes("write") /\ op.live
  /\ op' = Op("read", conn # "closed")
  /\ UNCHANGED <<requests, settings, pending_settings, failed_count, conn,
                 changes>>

\* The answer is passed on, and the next request in the queue is sent.
Answered ==
  /\ Completes("read") /\ op.live
  /\ Call({request})
  /\ UNCHANGED <<conn, changes, made>>
  /\ IF queue = <<>>
       THEN /\ request' = NoRequest
            /\ op' = NoOp
            /\ UNCHANGED <<queue, settings, pending_settings, failed_count>>
       ELSE /\ request' = Head(queue)
            /\ queue' = Tail(queue)
            /\ SendRequest

RetryTimer ==
  /\ Completes("retry")
  /\ Connect
  /\ UNCHANGED <<requests, changes>>

Next ==
  \/ \E new \in Settings : SetSettings(new)
  \/ \E token \in {"empty", "token"} :
       VerifyAtOnce(token) \/ VerifyQueued(token) \/ VerifyNow(token)
  \/ \E found \in BOOLEAN : Resolved(found)
  \/ Connected
  \/ Handshaken
  \/ Written
  \/ Answered
  \/ Fails
  \/ RetryTimer

Completion ==
  \/ \E found \in BOOLEAN : Resolved(found)
  \/ Connected \/ Handshaken \/ Written \/ Answered \/ Fails \/ RetryTimer

\* Every operation completes, and the service is not down for ever: what is
\* tried again and again works in the end.
Fairness ==
  /\ WF_vars(Completion)
  /\ SF_vars(Resolved(TRUE)) /\ SF_vars(Connected) /\ SF_vars(Handshaken)
  /\ SF_vars(Written) /\ SF_vars(Answered)

Spec == Init /\ [][Next]_vars /\ Fairness

\* Nothing is assumed of the service but that every operation on it ends.
FailingService == Init /\ [][Next]_vars /\ WF_vars(Completion)

-----------------------------------------------------------------------------
(* Properties *)

\* Types of the variables: failed_count_ grows by at most one for each request
\* that finds the limit reached.
TypeOK ==
  /\ request \in Requests \cup {NoRequest}
  /\ queue \in Seq(Requests)
  /\ settings \in Settings \cup {NoSettings}
  /\ pending_settings \in Settings \cup {NoSettings}
  /\ failed_count \in 0 .. MaxFailCount + MaxRequests
  /\ conn \in {"closed", "open", "connected"}
  /\ op \in [kind : {"none", "resolve", "connect", "handshake", "write", "read",
                     "retry"}, live : BOOLEAN]
  /\ changes \in 0 .. MaxChanges
  /\ made \in 0 .. MaxRequests
  /\ calls \in [Requests -> Nat]

\* The waiting requests, the one being worked on first.
Waiting == (IF request = NoRequest THEN <<>> ELSE <<request>>) \o queue

\* Every request is answered exactly once and in order: no callback was called
\* twice, and those not called yet are waiting, oldest first, whatever failed,
\* was rejected or reconnected in between.
AnsweredOnce ==
  /\ \A r \in Requests : calls[r] <= 1
  /\ \A r \in 1 .. made : calls[r] = 0 => Contains(Waiting, r)
  /\ \A i, j \in 1 .. Len(Waiting) : i < j => Waiting[i] < Waiting[j]
  /\ \A i \in 1 .. Len(Waiting) : calls[Waiting[i]] = 0

\* Nobody waits for nothing, and no operation runs for a request_ that is
\* gone: an operation is outstanding exactly while there is a request, and
\* its settings_ are there to be read.
RequestHasOp ==
  /\ (request # NoRequest) <=> (op # NoOp)
  /\ queue # <<>> => request # NoRequest
  /\ op # NoOp => settings # NoSettings

\* The verifier loses no request, answers none twice and never waits for an
\* operation it has not started.
VerifierSound == TypeOK /\ AnsweredOnce /\ RequestHasOp

\* Every request is answered in the end.
EveryRequestAnswered == \A r \in Requests : (made >= r) ~> (calls[r] > 0)

\* A service that keeps failing is given up: a request is answered in the end
\* even then, "because the tokens may have timed out".
GivesUp == \A r \in Requests : (request = r) ~> (calls[r] > 0)

\* The stream is closed "in case the host changed": no request is sent under
\* settings that were replaced before it was sent.
SentUnderNewSettings ==
  [][op'.kind = "write" /\ op' # op => pending_settings' = NoSettings]_vars

=============================================================================
