----------------------- MODULE CaptchaVerifierProofs -----------------------
(***************************************************************************)
(* Proofs about CaptchaVerifier, for any settings, any limit of retries    *)
(* and any number of requests and changes of the settings: no request is   *)
(* lost or answered twice, and every one that waits has an operation.      *)
(***************************************************************************)
EXTENDS CaptchaVerifier, SequenceTheorems, TLAPS

USE SettingsAssumption, BoundsAssumption

Queued(r) == \E i \in 1 .. Len(queue) : queue[i] = r

\* A request is answered once it is neither worked on nor queued.
CallsMatch ==
  calls = [r \in Requests |->
             IF r <= made /\ r # request /\ ~Queued(r) THEN 1 ELSE 0]

\* The requests wait in the order in which they were made.
InOrder ==
  /\ request <= made
  /\ \A i \in 1 .. Len(queue) : request < queue[i] /\ queue[i] <= made
  /\ \A i, j \in 1 .. Len(queue) : i < j => queue[i] < queue[j]

\* Each request that finds the limit reached adds at most one failure.
FailuresBounded ==
  IF op.kind = "none" THEN failed_count <= MaxFailCount - 1 + made
                      ELSE failed_count + 1 <= MaxFailCount - 1 + made

\* There is an operation exactly while there is a request, and settings for
\* it; a stream was opened under some settings.
WorkIsStarted ==
  /\ op.kind = "none" => op = NoOp
  /\ (request # NoRequest) <=> (op.kind # "none")
  /\ queue # <<>> => request # NoRequest
  /\ op.kind # "none" => settings # NoSettings
  /\ conn # "closed" => settings # NoSettings

\* The inductive invariant.
Inv == TypeOK /\ CallsMatch /\ InOrder /\ FailuresBounded /\ WorkIsStarted

-----------------------------------------------------------------------------
(* The requests. *)

\* The types that a step relies on.
LEMMA Types ==
  ASSUME Inv
  PROVE  /\ request \in Nat /\ made \in Nat /\ failed_count \in Nat
         /\ queue \in Seq(Requests) /\ Len(queue) \in Nat
         /\ \A i \in 1 .. Len(queue) : queue[i] \in Requests
         /\ op.kind \in {"none", "resolve", "connect", "handshake", "write",
                         "read", "retry"}
         /\ request # NoRequest => request \in Requests /\ made >= 1
<1>1. /\ request \in Requests \cup {NoRequest} /\ queue \in Seq(Requests)
      /\ made \in 0 .. MaxRequests /\ failed_count \in 0 .. MaxFailCount + MaxRequests
      /\ request <= made
      /\ op \in [kind : {"none", "resolve", "connect", "handshake", "write",
                         "read", "retry"}, live : BOOLEAN]
  BY DEF Inv, TypeOK, InOrder
<1>2. Len(queue) \in Nat /\ \A i \in 1 .. Len(queue) : queue[i] \in Requests
  BY <1>1
<1>3. op.kind \in {"none", "resolve", "connect", "handshake", "write", "read",
                   "retry"}
  BY <1>1
<1> QED BY <1>1, <1>2, <1>3 DEF Requests, NoRequest

\* Nobody made a request or got an answer.
LEMMA SameRequests ==
  ASSUME Inv, UNCHANGED requests
  PROVE  CallsMatch' /\ InOrder'
BY DEF Inv, requests, CallsMatch, InOrder, Queued

\* Who is called had not been called before.
LEMMA CallWaiting ==
  ASSUME Inv, NEW answered, Call(answered),
         \A r \in answered : r = request \/ Queued(r) \/ r > made
  PROVE  calls' = [r \in Requests |->
                     IF r \in answered THEN 1
                     ELSE IF r <= made /\ r # request /\ ~Queued(r) THEN 1 ELSE 0]
<1>1. ASSUME NEW r \in Requests, r \in answered
      PROVE  calls[r] = 0
  <2>1. r \in Nat /\ made \in Nat
    BY Types DEF Requests
  <2>2. ~(r <= made /\ r # request /\ ~Queued(r))
    BY <1>1, <2>1
  <2> QED BY <2>2 DEF Inv, CallsMatch
<1>2. ASSUME NEW r \in Requests
      PROVE  calls[r] = IF r <= made /\ r # request /\ ~Queued(r) THEN 1 ELSE 0
  BY DEF Inv, CallsMatch
<1>3. ASSUME NEW r \in Requests
      PROVE  (IF r \in answered THEN calls[r] + 1 ELSE calls[r]) =
               (IF r \in answered THEN 1
                ELSE IF r <= made /\ r # request /\ ~Queued(r) THEN 1 ELSE 0)
  BY <1>1, <1>2
<1> QED BY <1>3 DEF Call

\* The types of calls that match.
LEMMA CallsType == CallsMatch => calls \in [Requests -> Nat]
BY DEF CallsMatch

\* Everybody is told.
LEMMA RejectAllRequests ==
  ASSUME Inv, RejectAll, made' = made
  PROVE  CallsMatch' /\ InOrder' /\ calls' \in [Requests -> Nat]
<1>1. request' = NoRequest /\ queue' = <<>> /\ Len(queue') = 0
  BY DEF RejectAll
<1>2. \A r : r \in ToSet(queue) <=> Queued(r)
  BY DEF ToSet, Queued
<1>3. calls' = [r \in Requests |->
                  IF r \in {request} \cup ToSet(queue) THEN 1
                  ELSE IF r <= made /\ r # request /\ ~Queued(r) THEN 1 ELSE 0]
  BY <1>2, CallWaiting DEF RejectAll
<1>4. ASSUME NEW r \in Requests
      PROVE  /\ (IF r \in {request} \cup ToSet(queue) THEN 1
                 ELSE IF r <= made /\ r # request /\ ~Queued(r) THEN 1 ELSE 0) =
                (IF r <= made' /\ r # request' /\ ~Queued(r)' THEN 1 ELSE 0)
  <2>1. ~Queued(r)' /\ r # request'
    BY <1>1 DEF Queued, Requests, NoRequest
  <2>2. r \in {request} \cup ToSet(queue) => r <= made
    BY <1>2 DEF Inv, InOrder, Queued
  <2> QED BY <1>2, <2>1, <2>2
<1>5. CallsMatch'
  BY <1>3, <1>4 DEF CallsMatch
<1>6. InOrder'
  BY <1>1, Types DEF InOrder, NoRequest
<1>7. calls' \in [Requests -> Nat]
  BY <1>5 DEF CallsMatch
<1> QED BY <1>5, <1>6, <1>7

\* A request is made and answered at once.
LEMMA AtOnceRequests ==
  ASSUME Inv, made < MaxRequests, made' = made + 1, Call({made'}),
         UNCHANGED <<request, queue>>
  PROVE  CallsMatch' /\ InOrder' /\ calls' \in [Requests -> Nat]
<1>1. made \in Nat /\ made' > made /\ request \in Nat
  BY Types
<1>2. calls' = [r \in Requests |->
                  IF r \in {made'} THEN 1
                  ELSE IF r <= made /\ r # request /\ ~Queued(r) THEN 1 ELSE 0]
  BY <1>1, CallWaiting
<1>3. InOrder'
  BY <1>1, Types DEF Inv, InOrder, Requests
<1>4. made' # request /\ ~Queued(made')
  BY <1>1, Types DEF Inv, InOrder, Queued, Requests
<1>5. ASSUME NEW r \in Requests
      PROVE  (IF r \in {made'} THEN 1
              ELSE IF r <= made /\ r # request /\ ~Queued(r) THEN 1 ELSE 0) =
             (IF r <= made' /\ r # request' /\ ~Queued(r)' THEN 1 ELSE 0)
  <2>1. r <= made' <=> r <= made \/ r = made'
    BY <1>1 DEF Requests
  <2>2. Queued(r)' <=> Queued(r)
    BY DEF Queued
  <2>3. r = made' => r # request /\ ~Queued(r)
    BY <1>4
  <2> QED BY <2>1, <2>2, <2>3
<1>6. CallsMatch'
  BY <1>2, <1>5 DEF CallsMatch
<1> QED BY <1>3, <1>6 DEF CallsMatch

\* A request is made and queued behind the others.
LEMMA QueuedRequests ==
  ASSUME Inv, made < MaxRequests, made' = made + 1, queue' = Append(queue, made'),
         UNCHANGED <<request, calls>>
  PROVE  CallsMatch' /\ InOrder' /\ queue' \in Seq(Requests)
<1>1. made \in Nat /\ made' > made /\ made' \in Requests /\ request \in Nat
      /\ request <= made
  BY Types DEF Requests, Inv, InOrder
<1>2. /\ queue' \in Seq(Requests) /\ Len(queue') = Len(queue) + 1
      /\ \A i \in 1 .. Len(queue) : queue'[i] = queue[i]
      /\ queue'[Len(queue) + 1] = made' /\ Len(queue) \in Nat
  BY <1>1, Types, AppendProperties
<1>3. ASSUME NEW i \in 1 .. Len(queue')
      PROVE  i \in 1 .. Len(queue) \/ i = Len(queue) + 1
  BY <1>2
<1>4. \A i \in 1 .. Len(queue) :
        i \in 1 .. Len(queue') /\ queue[i] \in Nat /\ queue[i] <= made
        /\ request < queue[i]
  BY <1>2, Types DEF Inv, InOrder, Requests
<1>5. InOrder'
  <2>1. \A i \in 1 .. Len(queue') : request < queue'[i] /\ queue'[i] <= made'
    BY <1>1, <1>2, <1>3, <1>4
  <2>2. ASSUME NEW i \in 1 .. Len(queue'), NEW j \in 1 .. Len(queue'), i < j
        PROVE  queue'[i] < queue'[j]
    <3>1. i \in 1 .. Len(queue)
      BY <1>2, <2>2
    <3>2. CASE j \in 1 .. Len(queue)
      BY <1>2, <2>2, <3>1, <3>2 DEF Inv, InOrder
    <3>3. CASE j = Len(queue) + 1
      BY <1>1, <1>2, <1>4, <3>1, <3>3
    <3> QED BY <1>3, <3>2, <3>3
  <2>3. request' <= made'
    BY <1>1
  <2> QED BY <2>1, <2>2, <2>3 DEF InOrder
<1>6. ASSUME NEW r \in Requests
      PROVE  (r <= made' /\ r # request' /\ ~Queued(r)') <=>
             (r <= made /\ r # request /\ ~Queued(r))
  <2>1. r <= made' <=> r <= made \/ r = made'
    BY <1>1 DEF Requests
  <2>2. Queued(r)' <=> Queued(r) \/ r = made'
    <3>1. Len(queue) + 1 \in 1 .. Len(queue')
      BY <1>2
    <3> QED BY <1>2, <1>3, <1>4, <3>1 DEF Queued
  <2>3. r <= made => r # made'
    BY <1>1 DEF Requests
  <2> QED BY <2>1, <2>2, <2>3
<1>7. CallsMatch'
  BY <1>6 DEF Inv, CallsMatch
<1> QED BY <1>2, <1>5, <1>7

\* A request is made and worked on.
LEMMA NowRequests ==
  ASSUME Inv, made < MaxRequests, made' = made + 1, request = NoRequest,
         request' = made', UNCHANGED <<queue, calls>>
  PROVE  CallsMatch' /\ InOrder' /\ request' \in Requests
<1>1. made \in Nat /\ made' > made /\ made' \in Requests
  BY Types DEF Requests
<1>2. queue = <<>> /\ queue' = <<>> /\ Len(queue) = 0
  BY DEF Inv, WorkIsStarted
<1>3. InOrder'
  BY <1>1, <1>2 DEF InOrder
<1>4. ASSUME NEW r \in Requests
      PROVE  (r <= made' /\ r # request' /\ ~Queued(r)') <=>
             (r <= made /\ r # request /\ ~Queued(r))
  BY <1>1, <1>2 DEF Queued, Requests, NoRequest
<1>5. CallsMatch'
  BY <1>4 DEF Inv, CallsMatch
<1> QED BY <1>1, <1>3, <1>5

\* The answer to the request that is worked on.
LEMMA AnsweredRequests ==
  ASSUME Inv, Call({request}), request # NoRequest, made' = made,
         \/ queue = <<>> /\ request' = NoRequest /\ queue' = queue
         \/ queue # <<>> /\ request' = Head(queue) /\ queue' = Tail(queue)
  PROVE  /\ CallsMatch' /\ InOrder' /\ queue' \in Seq(Requests)
         /\ request' \in Requests \cup {NoRequest}
         /\ queue # <<>> => request' # NoRequest
<1>1. /\ made \in Nat /\ request \in Nat /\ request \in Requests
      /\ queue \in Seq(Requests) /\ Len(queue) \in Nat
  BY Types
<1>2. calls' = [r \in Requests |->
                  IF r \in {request} THEN 1
                  ELSE IF r <= made /\ r # request /\ ~Queued(r) THEN 1 ELSE 0]
  BY CallWaiting
<1>3. ASSUME NEW r \in Requests, r # request'
      PROVE  Queued(r)' <=> Queued(r)
  <2>1. CASE queue = <<>>
    BY <2>1 DEF Queued
  <2>2. CASE queue # <<>>
    <3>1. /\ queue' = Tail(queue) /\ request' = queue[1] /\ Len(queue) >= 1
          /\ Len(queue') = Len(queue) - 1
          /\ \A i \in 1 .. Len(queue') : queue'[i] = queue[i + 1]
      BY <1>1, <2>2, HeadTailProperties, EmptySeq
    <3>2. ASSUME NEW i \in 1 .. Len(queue'), queue'[i] = r PROVE Queued(r)
      <4>1. i + 1 \in 1 .. Len(queue) /\ queue[i + 1] = r
        BY <1>1, <3>1, <3>2
      <4> QED BY <4>1 DEF Queued
    <3>3. ASSUME NEW i \in 1 .. Len(queue), queue[i] = r PROVE Queued(r)'
      <4>1. i # 1
        BY <1>3, <3>1, <3>3
      <4>2. i - 1 \in 1 .. Len(queue') /\ queue'[i - 1] = r
        BY <1>1, <3>1, <3>3, <4>1
      <4> QED BY <4>2 DEF Queued
    <3> QED BY <3>2, <3>3 DEF Queued
  <2> QED BY <2>1, <2>2
<1>4. /\ \A i \in 1 .. Len(queue') : queue'[i] # request'
      /\ request' # NoRequest => Queued(request')
      /\ InOrder' /\ queue' \in Seq(Requests)
      /\ request' \in Requests \cup {NoRequest} /\ request' # request
      /\ queue # <<>> => request' # NoRequest
  <2>1. CASE queue = <<>>
    BY <1>1, <2>1 DEF InOrder, NoRequest
  <2>2. CASE queue # <<>>
    <3>1. /\ queue' = Tail(queue) /\ request' = queue[1] /\ 1 \in 1 .. Len(queue)
          /\ Len(queue') = Len(queue) - 1 /\ queue' \in Seq(Requests)
          /\ \A i \in 1 .. Len(queue') : queue'[i] = queue[i + 1]
      BY <1>1, <2>2, HeadTailProperties, EmptySeq
    <3>2. ASSUME NEW i \in 1 .. Len(queue')
          PROVE  i + 1 \in 1 .. Len(queue) /\ 1 < i + 1
      <4> DEFINE n == Len(queue)
      <4>1. n \in Nat /\ i \in 1 .. n - 1
        BY <1>1, <3>1
      <4> HIDE DEF n
      <4>2. i + 1 \in 1 .. n /\ 1 < i + 1
        BY <4>1
      <4> QED BY <4>2 DEF n
    <3>3. request' \in Requests /\ request < request' /\ request' <= made
      BY <3>1, Types DEF Inv, InOrder
    <3>4. \A i \in 1 .. Len(queue') : request' < queue'[i] /\ queue'[i] <= made
      BY <3>1, <3>2 DEF Inv, InOrder
    <3>5. ASSUME NEW i \in 1 .. Len(queue'), NEW j \in 1 .. Len(queue'), i < j
          PROVE  queue'[i] < queue'[j]
      <4>1. i + 1 < j + 1
        BY <3>5
      <4> QED BY <3>1, <3>2, <4>1 DEF Inv, InOrder
    <3>6. InOrder'
      BY <3>3, <3>4, <3>5 DEF InOrder
    <3>7. \A i \in 1 .. Len(queue') : queue'[i] # request'
      BY <3>3, <3>4 DEF Requests
    <3>8. Queued(request')
      BY <3>1 DEF Queued
    <3>9. request' # NoRequest /\ request' # request
      BY <1>1, <3>3 DEF Requests, NoRequest
    <3> QED BY <2>2, <3>1, <3>3, <3>6, <3>7, <3>8, <3>9
  <2> QED BY <2>1, <2>2
<1>5. request <= made /\ ~Queued(request)
  BY <1>1, Types DEF Inv, InOrder, Queued, Requests
<1>6. ASSUME NEW r \in Requests
      PROVE  (IF r \in {request} THEN 1
              ELSE IF r <= made /\ r # request /\ ~Queued(r) THEN 1 ELSE 0) =
             (IF r <= made' /\ r # request' /\ ~Queued(r)' THEN 1 ELSE 0)
  <2>1. CASE r = request
    BY <1>3, <1>4, <1>5, <2>1
  <2>2. CASE r = request'
    <3>1. request' # NoRequest
      BY <2>2 DEF Requests, NoRequest
    <3> QED BY <1>4, <2>2, <3>1 DEF Queued
  <2>3. CASE r # request /\ r # request'
    BY <1>3, <2>3
  <2> QED BY <2>1, <2>2, <2>3
<1>7. CallsMatch'
  BY <1>2, <1>6 DEF CallsMatch
<1> QED BY <1>4, <1>7

-----------------------------------------------------------------------------
(* The steps. *)

Kinds == {"resolve", "connect", "handshake", "write", "read", "retry"}

\* The bound on the failures, for a request that starts with none, and as a
\* type.
LEMMA FailureBounds ==
  /\ \A m \in Nat : m >= 1 => 0 + 1 <= MaxFailCount - 1 + m
  /\ \A f, m \in Nat : m <= MaxRequests /\ f + 1 <= MaxFailCount - 1 + m =>
       f \in 0 .. MaxFailCount + MaxRequests
OBVIOUS

\* What a step that starts an operation for a request has to show.
LEMMA OpStarts ==
  ASSUME Inv, CallsMatch', InOrder', NEW kind \in Kinds, NEW live \in BOOLEAN,
         op' = Op(kind, live), request' \in Requests, queue' \in Seq(Requests),
         calls' \in [Requests -> Nat], changes' \in 0 .. MaxChanges,
         made' \in made .. MaxRequests, settings' \in Settings,
         pending_settings' \in Settings \cup {NoSettings},
         conn' \in {"closed", "open", "connected"},
         failed_count' \in Nat, failed_count' + 1 <= MaxFailCount - 1 + made'
  PROVE  Inv'
<1>1. op'.kind = kind /\ op' \in [kind : Kinds \cup {"none"}, live : BOOLEAN]
  BY DEF Op
<1>2. made \in Nat /\ made' \in Nat /\ made' <= MaxRequests
  BY Types
<1>3. failed_count' \in 0 .. MaxFailCount + MaxRequests
  BY <1>2, FailureBounds
<1>4. TypeOK'
  BY <1>1, <1>2, <1>3 DEF TypeOK, Kinds
<1>5. FailuresBounded'
  BY <1>1 DEF FailuresBounded, Kinds
<1>6. WorkIsStarted'
  BY <1>1 DEF WorkIsStarted, Kinds, Requests, NoRequest
<1> QED BY <1>4, <1>5, <1>6 DEF Inv

\* SendRequest starts a write, and forgets the failures.
LEMMA SendRequestStarts ==
  ASSUME Inv, CallsMatch', InOrder', SendRequest, request' \in Requests,
         queue' \in Seq(Requests), calls' \in [Requests -> Nat],
         changes' \in 0 .. MaxChanges, made' \in made .. MaxRequests,
         conn' \in {"closed", "open", "connected"}, settings # NoSettings
  PROVE  Inv'
<1>1. /\ op' = Op("write", conn' = "connected") /\ failed_count' = 0
      /\ settings' = settings /\ pending_settings' = pending_settings
  BY DEF SendRequest
<1>2. settings \in Settings /\ pending_settings \in Settings \cup {NoSettings}
  BY DEF Inv, TypeOK
<1>3. failed_count' + 1 <= MaxFailCount - 1 + made'
  <2>1. made' >= 1 /\ made' \in Nat
    BY Types DEF InOrder, Requests
  <2>2. failed_count' = 0
    BY <1>1
  <2> QED BY <2>1, <2>2, FailureBounds
<1> QED BY <1>1, <1>2, <1>3, OpStarts DEF Kinds

\* Connect starts to resolve the host, under the settings in force.
LEMMA ConnectStarts ==
  ASSUME Inv, CallsMatch', InOrder', Connect, request' \in Requests,
         queue' \in Seq(Requests), calls' \in [Requests -> Nat],
         changes' = changes, made' \in made .. MaxRequests,
         failed_count + 1 <= MaxFailCount - 1 + made',
         InForce # NoSettings
  PROVE  Inv'
<1>1. op' = Op("resolve", TRUE) /\ conn' = conn
  BY DEF Connect
<1>2. settings' \in Settings /\ pending_settings' \in Settings \cup {NoSettings}
  BY DEF Connect, TakeSettings, InForce, Inv, TypeOK
<1>3. failed_count' \in Nat /\ failed_count' + 1 <= MaxFailCount - 1 + made'
  <2>1. made' >= 1 /\ made' \in Nat /\ failed_count \in Nat
    BY Types DEF InOrder, Requests
  <2>2. failed_count' = failed_count \/ failed_count' = 0
    BY DEF Connect, TakeSettings
  <2>3. CASE failed_count' = failed_count
    BY <2>1, <2>3
  <2>4. CASE failed_count' = 0
    BY <2>1, <2>4, FailureBounds
  <2> QED BY <2>2, <2>3, <2>4
<1>4. conn' \in {"closed", "open", "connected"} /\ changes' \in 0 .. MaxChanges
  BY <1>1 DEF Inv, TypeOK
<1> QED BY <1>1, <1>2, <1>3, <1>4, OpStarts DEF Kinds

\* While an operation is outstanding there are a request and settings.
LEMMA Outstanding ==
  ASSUME Inv, op.kind # "none"
  PROVE  /\ request \in Requests /\ settings \in Settings /\ made >= 1
         /\ failed_count + 1 <= MaxFailCount - 1 + made
BY Types DEF Inv, WorkIsStarted, FailuresBounded, TypeOK

\* The settings are replaced.
LEMMA SetSettingsStep ==
  ASSUME Inv, NEW new \in Settings, SetSettings(new)
  PROVE  Inv'
<1>1. /\ changes' = changes + 1 /\ changes < MaxChanges
      /\ pending_settings' = new /\ conn' = "closed"
      /\ UNCHANGED <<request, queue, made, calls, settings, failed_count, op>>
      /\ UNCHANGED requests
  BY DEF SetSettings, requests
<1>2. TypeOK'
  BY <1>1 DEF Inv, TypeOK
<1>3. FailuresBounded' /\ WorkIsStarted'
  BY <1>1 DEF Inv, FailuresBounded, WorkIsStarted
<1> QED BY <1>1, <1>2, <1>3, SameRequests DEF Inv

\* Verify() answers at once or queues the request.
LEMMA VerifyLaterStep ==
  ASSUME Inv, NEW token, VerifyAtOnce(token) \/ VerifyQueued(token)
  PROVE  Inv'
<1>1. /\ made < MaxRequests /\ made' = made + 1
      /\ UNCHANGED <<request, settings, pending_settings, failed_count, conn, op,
                     changes>>
  BY DEF VerifyAtOnce, VerifyQueued
<1>2. made \in Nat /\ failed_count \in Nat /\ made' \in 0 .. MaxRequests
  BY <1>1, Types
<1>3. /\ CallsMatch' /\ InOrder' /\ queue' \in Seq(Requests)
      /\ queue' # <<>> => request # NoRequest
  <2>1. CASE VerifyAtOnce(token)
    BY <1>1, <2>1, AtOnceRequests
    DEF VerifyAtOnce, Inv, TypeOK, WorkIsStarted
  <2>2. CASE VerifyQueued(token)
    BY <1>1, <2>2, QueuedRequests DEF VerifyQueued
  <2> QED BY <2>1, <2>2
<1>4. calls' \in [Requests -> Nat]
  BY <1>3 DEF CallsMatch
<1>5. TypeOK'
  BY <1>1, <1>2, <1>3, <1>4 DEF Inv, TypeOK
<1>6. FailuresBounded'
  BY <1>1, <1>2 DEF Inv, FailuresBounded
<1>7. WorkIsStarted'
  BY <1>1, <1>3 DEF Inv, WorkIsStarted
<1> QED BY <1>3, <1>5, <1>6, <1>7 DEF Inv

\* Verify() starts to work on the request.
LEMMA VerifyNowStep ==
  ASSUME Inv, NEW token, VerifyNow(token)
  PROVE  Inv'
<1>1. /\ made < MaxRequests /\ made' = made + 1 /\ request = NoRequest
      /\ request' = made' /\ IsEnabled
      /\ UNCHANGED <<queue, changes, calls>>
  BY DEF VerifyNow
<1>2. CallsMatch' /\ InOrder' /\ request' \in Requests
  BY <1>1, NowRequests
<1>3. made' \in made .. MaxRequests /\ made \in Nat /\ failed_count \in Nat
  BY <1>1, Types
<1>4. /\ queue' \in Seq(Requests) /\ calls' \in [Requests -> Nat]
      /\ changes' \in 0 .. MaxChanges
  BY <1>1 DEF Inv, TypeOK
<1>5. op.kind = "none"
  BY <1>1 DEF Inv, WorkIsStarted
<1>6. CASE conn = "closed"
  <2>1. failed_count + 1 <= MaxFailCount - 1 + made'
    BY <1>1, <1>3, <1>5 DEF Inv, FailuresBounded
  <2> QED BY <1>1, <1>2, <1>3, <1>4, <1>6, <2>1, ConnectStarts
          DEF VerifyNow, IsEnabled
<1>7. CASE conn # "closed"
  <2>1. settings # NoSettings /\ SendRequest /\ conn' = conn
        /\ conn \in {"closed", "open", "connected"}
    BY <1>7 DEF VerifyNow, Inv, WorkIsStarted, TypeOK
  <2> QED BY <1>2, <1>3, <1>4, <2>1, SendRequestStarts
<1> QED BY <1>6, <1>7

\* An operation succeeds, and the next one for the same request starts.
LEMMA GoesOnStep ==
  ASSUME Inv,
         \/ \E found \in BOOLEAN : Resolved(found)
         \/ Connected \/ Handshaken \/ Written \/ RetryTimer
  PROVE  Inv'
<1>1. op.kind # "none" /\ UNCHANGED requests /\ changes' = changes
  BY DEF Resolved, Connected, Handshaken, Written, RetryTimer, Completes
<1>2. /\ request' \in Requests /\ settings \in Settings /\ settings # NoSettings
      /\ failed_count + 1 <= MaxFailCount - 1 + made' /\ failed_count \in Nat
      /\ made' = made
  BY <1>1, Outstanding, Types DEF requests
<1>3. CallsMatch' /\ InOrder'
  BY <1>1, SameRequests
<1>4. /\ queue' \in Seq(Requests) /\ calls' \in [Requests -> Nat]
      /\ changes' \in 0 .. MaxChanges /\ made' \in made .. MaxRequests
      /\ pending_settings \in Settings \cup {NoSettings}
      /\ conn \in {"closed", "open", "connected"}
  BY <1>1, <1>2 DEF Inv, TypeOK, requests
<1>5. ASSUME NEW kind \in Kinds, NEW live \in BOOLEAN, op' = Op(kind, live),
             UNCHANGED <<settings, pending_settings, failed_count>>,
             conn' \in {"closed", "open", "connected"}
      PROVE  Inv'
  BY <1>2, <1>3, <1>4, <1>5, OpStarts
<1>6. ASSUME NEW found \in BOOLEAN, Resolved(found) PROVE Inv'
  BY <1>4, <1>5, <1>6 DEF Resolved, Kinds
<1>7. CASE Connected
  <2>1. CASE settings.https
    BY <1>4, <1>5, <1>7, <2>1 DEF Connected, Kinds
  <2>2. CASE ~settings.https
    <3>1. SendRequest /\ conn' \in {"closed", "open", "connected"}
      BY <1>7, <2>2 DEF Connected, Established
    <3> QED BY <1>2, <1>3, <1>4, <3>1, SendRequestStarts
  <2> QED BY <2>1, <2>2
<1>8. CASE Handshaken
  <2>1. SendRequest /\ conn' \in {"closed", "open", "connected"}
    BY <1>8 DEF Handshaken, Established
  <2> QED BY <1>2, <1>3, <1>4, <2>1, SendRequestStarts
<1>9. CASE Written
  BY <1>4, <1>5, <1>9 DEF Written, Kinds
<1>10. CASE RetryTimer
  <2>1. Connect /\ InForce # NoSettings
    BY <1>2, <1>10 DEF RetryTimer, InForce
  <2> QED BY <1>1, <1>2, <1>3, <1>4, <2>1, ConnectStarts
<1> QED BY <1>6, <1>7, <1>8, <1>9, <1>10

\* The request is answered; nothing is left to do, or the next one is sent.
LEMMA AnsweredStep ==
  ASSUME Inv, Answered
  PROVE  Inv'
<1>1. /\ op.kind # "none" /\ Call({request})
      /\ UNCHANGED <<conn, changes, made>>
  BY DEF Answered, Completes
<1>2. /\ request # NoRequest /\ settings # NoSettings /\ failed_count \in Nat
      /\ failed_count + 1 <= MaxFailCount - 1 + made /\ made \in Nat
  BY <1>1, Outstanding, Types DEF Requests, NoRequest
<1>3. /\ CallsMatch' /\ InOrder' /\ queue' \in Seq(Requests)
      /\ request' \in Requests \cup {NoRequest}
      /\ queue # <<>> => request' # NoRequest
  BY <1>1, <1>2, AnsweredRequests DEF Answered
<1>4. /\ calls' \in [Requests -> Nat] /\ changes' \in 0 .. MaxChanges
      /\ made' \in made .. MaxRequests /\ made' \in 0 .. MaxRequests
      /\ conn' \in {"closed", "open", "connected"}
  BY <1>1, <1>3 DEF CallsMatch, Inv, TypeOK
<1>5. CASE queue = <<>>
  <2>1. /\ request' = NoRequest /\ op' = NoOp
        /\ UNCHANGED <<queue, settings, pending_settings, failed_count>>
    BY <1>5 DEF Answered
  <2>2. op'.kind = "none" /\ NoOp \in [kind : Kinds \cup {"none"}, live : BOOLEAN]
    BY <2>1 DEF NoOp, Op
  <2>3. TypeOK'
    BY <1>1, <1>3, <1>4, <2>1, <2>2 DEF Inv, TypeOK, Kinds
  <2>4. FailuresBounded'
    BY <1>1, <1>2, <2>1, <2>2 DEF FailuresBounded
  <2>5. WorkIsStarted'
    BY <1>2, <1>5, <2>1, <2>2 DEF WorkIsStarted
  <2> QED BY <1>3, <2>3, <2>4, <2>5 DEF Inv
<1>6. CASE queue # <<>>
  <2>1. SendRequest /\ request' \in Requests
    BY <1>3, <1>6 DEF Answered
  <2> QED BY <1>2, <1>3, <1>4, <2>1, SendRequestStarts
<1> QED BY <1>5, <1>6

\* An operation fails; it is tried again, or everybody is rejected.
LEMMA FailsStep ==
  ASSUME Inv, Fails
  PROVE  Inv'
<1>1. /\ op.kind # "none" /\ failed_count' = failed_count + 1
      /\ conn' = IF conn = "connected" THEN "open" ELSE conn
      /\ UNCHANGED <<settings, pending_settings, changes, made>>
  BY DEF Fails, Retry
<1>2. /\ request \in Requests /\ settings \in Settings /\ failed_count \in Nat
      /\ failed_count + 1 <= MaxFailCount - 1 + made /\ made \in Nat /\ made >= 1
  BY <1>1, Outstanding, Types
<1>3. /\ changes' \in 0 .. MaxChanges /\ made' \in 0 .. MaxRequests
      /\ conn' \in {"closed", "open", "connected"}
      /\ settings' \in Settings \cup {NoSettings}
      /\ pending_settings' \in Settings \cup {NoSettings}
  BY <1>1 DEF Inv, TypeOK
<1>4. CASE failed_count' >= MaxFailCount
  <2>1. RejectAll /\ op' = NoOp
    BY <1>4 DEF Fails, Retry
  <2>2. CallsMatch' /\ InOrder' /\ calls' \in [Requests -> Nat]
    BY <1>1, <2>1, RejectAllRequests
  <2>3. op'.kind = "none" /\ NoOp \in [kind : Kinds \cup {"none"}, live : BOOLEAN]
    BY <2>1 DEF NoOp, Op
  <2>4. request' = NoRequest /\ queue' = <<>> /\ <<>> \in Seq(Requests)
    BY <2>1 DEF RejectAll
  <2>5. failed_count' \in 0 .. MaxFailCount + MaxRequests
        /\ failed_count' <= MaxFailCount - 1 + made'
    BY <1>1, <1>2, <1>3
  <2>6. TypeOK'
    BY <1>3, <2>1, <2>2, <2>3, <2>4, <2>5 DEF TypeOK, Kinds
  <2>7. FailuresBounded'
    BY <2>3, <2>5 DEF FailuresBounded
  <2>8. WorkIsStarted'
    BY <1>1, <1>2, <2>1, <2>3, <2>4 DEF WorkIsStarted
  <2> QED BY <2>2, <2>6, <2>7, <2>8 DEF Inv
<1>5. CASE ~(failed_count' >= MaxFailCount)
  <2>1. op' = Op("retry", TRUE) /\ UNCHANGED <<request, queue, calls>>
    BY <1>5 DEF Fails, Retry
  <2>2. CallsMatch' /\ InOrder'
    BY <1>1, <2>1, SameRequests DEF requests
  <2>3. failed_count' \in Nat /\ failed_count' + 1 <= MaxFailCount - 1 + made'
        /\ made' \in made .. MaxRequests
    BY <1>1, <1>2, <1>3, <1>5
  <2>4. queue' \in Seq(Requests) /\ calls' \in [Requests -> Nat]
        /\ request' \in Requests /\ settings' \in Settings
    BY <1>1, <1>2, <2>1 DEF Inv, TypeOK
  <2> QED BY <1>3, <2>1, <2>2, <2>3, <2>4, OpStarts DEF Kinds
<1> QED BY <1>4, <1>5

-----------------------------------------------------------------------------
(* The theorem. *)

\* Nothing is asked, nothing is started.
LEMMA InitInv == Init => Inv
<1> SUFFICES ASSUME Init PROVE Inv
  OBVIOUS
<1>1. /\ request = NoRequest /\ queue = <<>> /\ Len(queue) = 0
      /\ settings = NoSettings /\ pending_settings = NoSettings
      /\ failed_count = 0 /\ conn = "closed" /\ op = NoOp /\ changes = 0
      /\ made = 0 /\ calls = [r \in Requests |-> 0]
  BY DEF Init
<1>2. /\ op.kind = "none" /\ op = NoOp /\ <<>> \in Seq(Requests)
      /\ op \in [kind : Kinds \cup {"none"}, live : BOOLEAN]
  BY <1>1 DEF NoOp, Op
<1>3. TypeOK
  BY <1>1, <1>2 DEF TypeOK, Kinds
<1>4. CallsMatch
  <2>1. \A r \in Requests : ~(r <= made)
    BY <1>1 DEF Requests
  <2> QED BY <1>1, <2>1 DEF CallsMatch
<1>5. InOrder /\ FailuresBounded /\ WorkIsStarted
  BY <1>1, <1>2 DEF InOrder, FailuresBounded, WorkIsStarted, NoRequest
<1> QED BY <1>3, <1>4, <1>5 DEF Inv

\* Every step keeps the invariant.
LEMMA NextInv == Inv /\ [Next]_vars => Inv'
<1> SUFFICES ASSUME Inv, [Next]_vars PROVE Inv'
  OBVIOUS
<1>1. CASE UNCHANGED vars
  <2>1. TypeOK' /\ FailuresBounded' /\ WorkIsStarted'
    BY <1>1 DEF vars, Inv, TypeOK, FailuresBounded, WorkIsStarted
  <2> QED BY <1>1, <2>1, SameRequests DEF vars, requests, Inv
<1>2. CASE Next
  BY <1>2, SetSettingsStep, VerifyLaterStep, VerifyNowStep, GoesOnStep,
     AnsweredStep, FailsStep DEF Next
<1> QED BY <1>1, <1>2

\* What waits, as one sequence: the request that is worked on, then the queue.
LEMMA WaitingFacts ==
  ASSUME Inv
  PROVE  /\ \A r : Contains(Waiting, r) <=> (r # NoRequest /\ r = request) \/ Queued(r)
         /\ \A i, j \in 1 .. Len(Waiting) : i < j => Waiting[i] < Waiting[j]
         /\ \A i \in 1 .. Len(Waiting) :
              Waiting[i] \in Requests /\ (Waiting[i] = request \/ Queued(Waiting[i]))
<1>1. queue \in Seq(Requests) /\ Len(queue) \in Nat
  BY Types
<1>2. CASE request = NoRequest
  <2>1. Waiting = queue /\ queue = <<>>
    BY <1>1, <1>2, ConcatEmptySeq DEF Waiting, Inv, WorkIsStarted
  <2> QED BY <1>2, <2>1 DEF Contains, Queued
<1>3. CASE request # NoRequest
  <2>1. request \in Requests
    BY <1>3, Types
  <2>2. <<request>> \in Seq(Requests) /\ Len(<<request>>) = 1
        /\ <<request>>[1] = request
    BY <2>1
  <2>3. /\ Len(Waiting) = 1 + Len(queue)
        /\ \A i \in 1 .. 1 + Len(queue) :
             Waiting[i] = IF i <= 1 THEN <<request>>[i] ELSE queue[i - 1]
    BY <1>1, <1>3, <2>2, ConcatProperties DEF Waiting
  <2>4. Waiting[1] = request /\ 1 \in 1 .. Len(Waiting)
    BY <1>1, <2>2, <2>3
  <2>5. ASSUME NEW i \in 1 .. Len(queue)
        PROVE  i + 1 \in 1 .. Len(Waiting) /\ Waiting[i + 1] = queue[i]
    BY <1>1, <2>3, <2>5
  <2>6. ASSUME NEW i \in 1 .. Len(Waiting), i # 1
        PROVE  i - 1 \in 1 .. Len(queue) /\ Waiting[i] = queue[i - 1]
    BY <1>1, <2>3, <2>6
  <2>7. \A r : Contains(Waiting, r) <=> r = request \/ Queued(r)
    BY <2>4, <2>5, <2>6 DEF Contains, Queued
  <2>8. ASSUME NEW i \in 1 .. Len(Waiting), NEW j \in 1 .. Len(Waiting), i < j
        PROVE  Waiting[i] < Waiting[j]
    <3>1. j # 1 /\ j - 1 \in 1 .. Len(queue) /\ Waiting[j] = queue[j - 1]
      BY <2>6, <2>8
    <3>2. CASE i = 1
      BY <2>4, <3>1, <3>2 DEF Inv, InOrder
    <3>3. CASE i # 1
      <4>1. i - 1 \in 1 .. Len(queue) /\ Waiting[i] = queue[i - 1]
        BY <2>6, <3>3
      <4>2. i - 1 < j - 1
        BY <2>8
      <4> QED BY <3>1, <4>1, <4>2 DEF Inv, InOrder
    <3> QED BY <3>2, <3>3
  <2>9. ASSUME NEW i \in 1 .. Len(Waiting)
        PROVE  Waiting[i] \in Requests /\ (Waiting[i] = request \/ Queued(Waiting[i]))
    BY <2>1, <2>4, <2>6, Types DEF Queued
  <2> QED BY <1>3, <2>7, <2>8, <2>9
<1> QED BY <1>2, <1>3

\* The inductive invariant says what is promised.
LEMMA InvSound == Inv => VerifierSound
<1> SUFFICES ASSUME Inv PROVE VerifierSound
  OBVIOUS
<1>1. \A r \in Requests :
        calls[r] = IF r <= made /\ r # request /\ ~Queued(r) THEN 1 ELSE 0
  BY DEF Inv, CallsMatch
<1>2. \A r \in 1 .. made : r \in Requests /\ r # NoRequest /\ r <= made
  BY DEF Inv, TypeOK, Requests, NoRequest
<1>3. AnsweredOnce
  <2>1. \A r \in Requests : calls[r] <= 1
    BY <1>1
  <2>2. \A r \in 1 .. made : calls[r] = 0 => Contains(Waiting, r)
    BY <1>1, <1>2, WaitingFacts
  <2>3. \A i \in 1 .. Len(Waiting) : calls[Waiting[i]] = 0
    BY <1>1, WaitingFacts
  <2>4. \A i, j \in 1 .. Len(Waiting) : i < j => Waiting[i] < Waiting[j]
    BY WaitingFacts
  <2> QED BY <2>1, <2>2, <2>3, <2>4 DEF AnsweredOnce
<1>4. op = NoOp <=> op.kind = "none"
  BY DEF Inv, WorkIsStarted, NoOp, Op
<1>5. RequestHasOp
  BY <1>4 DEF RequestHasOp, Inv, WorkIsStarted
<1> QED BY <1>3, <1>5 DEF VerifierSound, Inv

\* Whatever fails, is rejected or reconnected: every request is answered once,
\* in order, or waits for an operation that is under way, also while the
\* service may fail for ever.
THEOREM VerifierIsSound == FailingService => []VerifierSound
BY InitInv, NextInv, InvSound, PTL DEF FailingService

\* The same where the service works in the end.
COROLLARY VerifierIsSoundFair == Spec => []VerifierSound
BY InitInv, NextInv, InvSound, PTL DEF Spec

=============================================================================
