------------------------ MODULE TurnControllerProofs ------------------------
(***************************************************************************)
(* Proofs about TurnController for any set of users, administrators and    *)
(* turn times: the queue and the positions the sockets carry agree, a turn *)
(* always has a timer, the clients are told the queue, and nobody is       *)
(* overtaken.                                                              *)
(***************************************************************************)
EXTENDS TurnController, SequenceTheorems, TLAPS

\* The inductive invariant.  A handler that runs late removes its user by
\* position, so keeping a timer for the head rests on the positions.
Inv ==
  /\ TypeOK
  /\ QueueMatchesPositions
  /\ TurnIsTimed
  /\ DisabledIsEmpty
  /\ ClientsSeeQueue

\* What erasing from turn_queue_ leaves.
LEMMA RemoveAtFacts ==
  ASSUME NEW S, NEW s \in Seq(S), NEW k \in 1 .. Len(s)
  PROVE  /\ RemoveAt(s, k) \in Seq(S)
         /\ Len(RemoveAt(s, k)) = Len(s) - 1
         /\ \A i \in 1 .. Len(s) - 1 :
              RemoveAt(s, k)[i] = IF i < k THEN s[i] ELSE s[i + 1]
<1> DEFINE a == SubSeq(s, 1, k - 1)
           b == SubSeq(s, k + 1, Len(s))
<1>1. a \in Seq(S) /\ Len(a) = k - 1 /\ \A i \in 1 .. k - 1 : a[i] = s[i]
  OBVIOUS
<1>2. /\ b \in Seq(S) /\ Len(b) = Len(s) - k
      /\ \A i \in 1 .. Len(s) - k : b[i] = s[k + i]
  OBVIOUS
<1>3. RemoveAt(s, k) = a \o b
  BY DEF RemoveAt
<1> HIDE DEF a, b
<1>4. /\ a \o b \in Seq(S)
      /\ Len(a \o b) = Len(a) + Len(b)
      /\ \A i \in 1 .. Len(a) + Len(b) :
           (a \o b)[i] = IF i <= Len(a) THEN a[i] ELSE b[i - Len(a)]
  BY <1>1, <1>2, ConcatProperties
<1>5. ASSUME NEW i \in 1 .. Len(s) - 1
      PROVE  (a \o b)[i] = IF i < k THEN s[i] ELSE s[i + 1]
  <2>1. CASE i < k
    BY <1>1, <1>2, <1>4, <2>1
  <2>2. CASE ~(i < k)
    <3>1. i - (k - 1) \in 1 .. Len(s) - k /\ k + (i - (k - 1)) = i + 1
      BY <2>2
    <3>2. i \in 1 .. Len(a) + Len(b) /\ ~(i <= Len(a))
      BY <1>1, <1>2, <2>2
    <3>3. (a \o b)[i] = b[i - (k - 1)]
      BY <1>1, <1>4, <3>2
    <3>4. b[i - (k - 1)] = s[k + (i - (k - 1))]
      BY <1>2, <3>1
    <3> QED BY <2>2, <3>1, <3>3, <3>4
  <2> QED BY <2>1, <2>2
<1>6. Len(a \o b) = Len(s) - 1
  BY <1>1, <1>2, <1>4
<1> QED
  BY <1>3, <1>4, <1>5, <1>6

\* RemoveUser() takes out exactly the user it was called for, and moves up
\* exactly the users whose position is larger.
LEMMA EraseMovesUp ==
  ASSUME TypeOK, QueueMatchesPositions, NEW u \in Users, InQueue(u), Erase(u)
  PROVE  /\ turn_queue' \in Seq(Users)
         /\ Len(turn_queue') = Len(turn_queue) - 1
         /\ position[u] \in 0 .. Len(turn_queue) - 1
         /\ \A i \in 1 .. Len(turn_queue) - 1 :
              turn_queue'[i] = IF i <= position[u] THEN turn_queue[i]
                               ELSE turn_queue[i + 1]
         /\ position' \in [Users -> Nat \cup {NotQueued}]
         /\ \A v \in Users :
              position'[v] = IF v = u THEN NotQueued
                             ELSE IF position[v] > position[u]
                               THEN position[v] - 1 ELSE position[v]
<1> DEFINE k == position[u] + 1
<1>1. k \in 1 .. Len(turn_queue) /\ turn_queue[k] = u
  BY DEF TypeOK, QueueMatchesPositions, InQueue, NotQueued
<1>2. /\ turn_queue' \in Seq(Users)
      /\ Len(turn_queue') = Len(turn_queue) - 1
      /\ \A i \in 1 .. Len(turn_queue) - 1 :
           turn_queue'[i] = IF i < k THEN turn_queue[i] ELSE turn_queue[i + 1]
  <2>1. turn_queue' = RemoveAt(turn_queue, k) /\ turn_queue \in Seq(Users)
    BY DEF Erase, TypeOK
  <2> HIDE DEF k
  <2> QED BY <1>1, <2>1, RemoveAtFacts
<1>3. ASSUME NEW v \in Users, v # u
      PROVE  v \in From(position[u] + 2) <=> position[v] > position[u]
  <2>1. ASSUME NEW i \in position[u] + 2 .. Len(turn_queue), v = turn_queue[i]
        PROVE  position[v] > position[u]
    BY <1>1, <2>1 DEF TypeOK, QueueMatchesPositions
  <2>2. ASSUME position[v] > position[u]
        PROVE  \E i \in position[u] + 2 .. Len(turn_queue) : v = turn_queue[i]
    <3>1. InQueue(v)
      BY <1>1, <2>2 DEF InQueue, NotQueued, TypeOK
    <3>2. /\ position[v] + 1 \in position[u] + 2 .. Len(turn_queue)
          /\ turn_queue[position[v] + 1] = v
      BY <1>1, <2>2, <3>1 DEF TypeOK, QueueMatchesPositions, NotQueued
    <3> QED BY <3>2
  <2> QED BY <2>1, <2>2 DEF From
<1>4. ASSUME NEW v \in Users
      PROVE  position'[v] = IF v = u THEN NotQueued
                            ELSE IF position[v] > position[u]
                              THEN position[v] - 1 ELSE position[v]
  BY <1>3 DEF Erase, PositionsWithout, MoveUp
<1>5. position' \in [Users -> Nat \cup {NotQueued}]
  <2>1. position' = [v \in Users |-> position'[v]]
    BY DEF Erase, PositionsWithout, MoveUp
  <2>2. ASSUME NEW v \in Users
        PROVE  position'[v] \in Nat \cup {NotQueued}
    BY <1>1, <1>4 DEF TypeOK, NotQueued
  <2> QED BY <2>1, <2>2
<1>6. position[u] \in 0 .. Len(turn_queue) - 1
  BY <1>1 DEF TypeOK, NotQueued
<1>7. \A i \in 1 .. Len(turn_queue) - 1 : i < k <=> i <= position[u]
  BY <1>6 DEF TypeOK
<1> HIDE DEF k
<1> QED
  BY <1>2, <1>4, <1>5, <1>6, <1>7

\* The positions and the queue agree after RemoveUser() as they did before.
LEMMA EraseKeepsPositions ==
  ASSUME TypeOK, QueueMatchesPositions, NEW u \in Users, InQueue(u), Erase(u)
  PROVE  QueueMatchesPositions'
<1>1. ASSUME NEW i \in 1 .. Len(turn_queue')
      PROVE  position'[turn_queue'[i]] = i - 1
  <2>1. i \in 1 .. Len(turn_queue) - 1
    BY EraseMovesUp
  <2>2. CASE i <= position[u]
    <3>1. turn_queue'[i] = turn_queue[i] /\ turn_queue[i] \in Users
      BY <2>1, <2>2, EraseMovesUp DEF TypeOK
    <3>2. position[turn_queue[i]] = i - 1
      BY <2>1 DEF TypeOK, QueueMatchesPositions
    <3> QED BY <2>1, <2>2, <3>1, <3>2, EraseMovesUp
  <2>3. CASE ~(i <= position[u])
    <3>1. turn_queue'[i] = turn_queue[i + 1] /\ turn_queue[i + 1] \in Users
      BY <2>1, <2>3, EraseMovesUp DEF TypeOK
    <3>2. position[turn_queue[i + 1]] = i
      BY <2>1 DEF TypeOK, QueueMatchesPositions
    <3> QED BY <2>1, <2>3, <3>1, <3>2, EraseMovesUp
  <2> QED BY <2>2, <2>3
<1>2. ASSUME NEW v \in Users, InQueue(v)'
      PROVE  /\ position'[v] < Len(turn_queue')
             /\ turn_queue'[position'[v] + 1] = v
  <2>1. v # u /\ InQueue(v)
    BY <1>2, EraseMovesUp DEF InQueue, NotQueued, TypeOK
  <2>2. /\ position[v] \in 0 .. Len(turn_queue) - 1
        /\ turn_queue[position[v] + 1] = v
    BY <2>1 DEF TypeOK, QueueMatchesPositions, InQueue, NotQueued
  <2>3. /\ turn_queue[position[u] + 1] = u
    BY DEF QueueMatchesPositions
  <2>4. position[v] # position[u]
    BY <2>1, <2>2, <2>3
  <2> QED BY <2>1, <2>2, <2>4, EraseMovesUp
<1> QED
  BY <1>1, <1>2 DEF QueueMatchesPositions

\* RequestTurn() appends a user with the position of its entry.
LEMMA RequestKeepsPositions ==
  ASSUME TypeOK, QueueMatchesPositions, NEW u \in Users, RequestTurn(u)
  PROVE  /\ turn_queue' \in Seq(Users)
         /\ position' \in [Users -> Nat \cup {NotQueued}]
         /\ QueueMatchesPositions'
<1>1. /\ turn_queue' = Append(turn_queue, u)
      /\ position' = [position EXCEPT ![u] = Len(turn_queue)]
      /\ position[u] = NotQueued
  BY DEF RequestTurn, InQueue
<1>2. /\ turn_queue' \in Seq(Users)
      /\ Len(turn_queue') = Len(turn_queue) + 1
      /\ \A i \in 1 .. Len(turn_queue) : turn_queue'[i] = turn_queue[i]
      /\ turn_queue'[Len(turn_queue) + 1] = u
  BY <1>1, AppendProperties DEF TypeOK
<1>3. position' \in [Users -> Nat \cup {NotQueued}]
  BY <1>1 DEF TypeOK
<1>4. ASSUME NEW i \in 1 .. Len(turn_queue')
      PROVE  position'[turn_queue'[i]] = i - 1
  <2>1. CASE i = Len(turn_queue) + 1
    BY <1>1, <1>2, <2>1 DEF TypeOK
  <2>2. CASE i \in 1 .. Len(turn_queue)
    <3>1. turn_queue[i] \in Users /\ position[turn_queue[i]] = i - 1
      BY <2>2 DEF TypeOK, QueueMatchesPositions
    <3>2. turn_queue[i] # u
      BY <1>1, <2>2, <3>1 DEF NotQueued
    <3> QED BY <1>1, <1>2, <2>2, <3>1, <3>2 DEF TypeOK
  <2> QED BY <1>2, <2>1, <2>2 DEF TypeOK
<1>5. ASSUME NEW v \in Users, InQueue(v)'
      PROVE  /\ position'[v] < Len(turn_queue')
             /\ turn_queue'[position'[v] + 1] = v
  <2>1. CASE v = u
    BY <1>1, <1>2, <2>1 DEF TypeOK
  <2>2. CASE v # u
    <3>1. position'[v] = position[v] /\ InQueue(v)
      BY <1>1, <1>5, <2>2 DEF TypeOK, InQueue
    <3>2. /\ position[v] \in 0 .. Len(turn_queue) - 1
          /\ turn_queue[position[v] + 1] = v
      BY <3>1 DEF TypeOK, QueueMatchesPositions, InQueue, NotQueued
    <3>3. Len(turn_queue) \in Nat
      BY DEF TypeOK
    <3>4. position[v] + 1 \in 1 .. Len(turn_queue)
      BY <3>2, <3>3
    <3>5. turn_queue'[position[v] + 1] = v
      BY <1>2, <3>2, <3>4
    <3>6. position[v] < Len(turn_queue')
      BY <1>2, <3>2, <3>3
    <3> QED BY <3>1, <3>5, <3>6
  <2> QED BY <2>1, <2>2
<1> QED
  BY <1>2, <1>3, <1>4, <1>5 DEF QueueMatchesPositions

\* The user at the head of the queue is the one whose position is 0.
LEMMA HeadFacts ==
  ASSUME TypeOK, QueueMatchesPositions, turn_queue # <<>>
  PROVE  /\ Head(turn_queue) = turn_queue[1]
         /\ Head(turn_queue) \in Users
         /\ position[Head(turn_queue)] = 0
         /\ InQueue(Head(turn_queue))
BY DEF TypeOK, QueueMatchesPositions, InQueue, NotQueued

\* Removing a user that is not at the head leaves the head.
LEMMA EraseKeepsHead ==
  ASSUME TypeOK, QueueMatchesPositions, NEW u \in Users, InQueue(u), Erase(u),
         position[u] # 0
  PROVE  turn_queue # <<>> /\ Head(turn_queue') = Head(turn_queue)
<1>1. /\ position[u] \in 1 .. Len(turn_queue) - 1
      /\ turn_queue'[1] = turn_queue[1]
      /\ Len(turn_queue') = Len(turn_queue) - 1
      /\ turn_queue' \in Seq(Users)
  BY EraseMovesUp DEF TypeOK
<1> QED BY <1>1 DEF TypeOK

\* A broadcast tells the clients the state the step leaves.
LEMMA BroadcastShowsQueue ==
  ASSUME BroadcastTurnQueue, turn_queue' \in Seq(Users),
         turns_enabled' \in BOOLEAN
  PROVE  /\ ClientsSeeQueue'
         /\ shown' \in [users : Seq(Users),
                        state : {"Enabled", "Paused", "Disabled"}]
BY DEF BroadcastTurnQueue, GetTurnQueue, ClientsSeeQueue, IsPaused

\* RemoveUser() keeps everything but the fact that the head has a timer,
\* which depends on what becomes of the queued handlers.
LEMMA EraseKeepsRest ==
  ASSUME Inv, NEW u \in Users, InQueue(u), Erase(u),
         ready' \in Seq(Users)
  PROVE  /\ TypeOK' /\ QueueMatchesPositions' /\ DisabledIsEmpty'
         /\ ClientsSeeQueue'
         /\ \/ turn_queue' = <<>> \/ IsPaused' \/ armed' = Head(turn_queue')
            \/ /\ position[u] # 0 /\ armed' = armed
               /\ Head(turn_queue') = Head(turn_queue)
               /\ turn_queue # <<>> /\ ~IsPaused
<1>1. QueueMatchesPositions'
  BY EraseKeepsPositions DEF Inv
<1>2. /\ turn_queue' \in Seq(Users)
      /\ position' \in [Users -> Nat \cup {NotQueued}]
  BY EraseMovesUp DEF Inv
<1>3. /\ paused_time' = paused_time /\ turn_time' = turn_time
      /\ turns_enabled' = turns_enabled /\ BroadcastTurnQueue
  BY DEF Erase, settings, UpdateCurrentTurn
<1>4. /\ ClientsSeeQueue'
      /\ shown' \in [users : Seq(Users),
                     state : {"Enabled", "Paused", "Disabled"}]
  BY <1>2, <1>3, BroadcastShowsQueue DEF Inv, TypeOK
<1>5. \/ armed' = armed /\ left' = left
      \/ turn_queue' # <<>> /\ armed' = Head(turn_queue') /\ left' = turn_time
  BY DEF Erase, UpdateCurrentTurn, StartTimer, timer
<1>6. armed' \in Users \cup {NoUser} /\ left' \in Nat
  <2>1. turn_queue' # <<>> => Head(turn_queue') \in Users
    BY <1>2
  <2> QED BY <1>5, <2>1, TimesAssumption DEF Inv, TypeOK
<1>7. TypeOK'
  BY <1>2, <1>3, <1>4, <1>6 DEF Inv, TypeOK
<1>8. turns_enabled
  BY EraseMovesUp DEF Inv, DisabledIsEmpty, TypeOK
<1>9. DisabledIsEmpty'
  BY <1>3, <1>8 DEF DisabledIsEmpty
<1>10. CASE position[u] = 0
  <2>1. turn_queue' = <<>> \/ IsPaused' \/ armed' = Head(turn_queue')
    BY <1>10 DEF Erase, UpdateCurrentTurn, StartTimer
  <2> QED BY <1>1, <1>4, <1>7, <1>9, <2>1
<1>11. CASE position[u] # 0
  <2>1. armed' = armed
    BY <1>11 DEF Erase, timer
  <2>2. turn_queue # <<>> /\ Head(turn_queue') = Head(turn_queue)
    BY <1>11, EraseKeepsHead DEF Inv
  <2>3. IsPaused' = IsPaused
    BY <1>3 DEF IsPaused
  <2> QED BY <1>1, <1>4, <1>7, <1>9, <1>11, <2>1, <2>2, <2>3
<1> QED
  BY <1>10, <1>11

-----------------------------------------------------------------------------

\* A new TurnController satisfies the invariant.
LEMMA InitInv == Init => Inv
BY TimesAssumption
   DEF Init, Inv, TypeOK, QueueMatchesPositions, TurnIsTimed, DisabledIsEmpty,
       ClientsSeeQueue, GetTurnQueue, InQueue, IsPaused, NotQueued, NotPaused

\* RequestTurn(): a first user gets a timer, a later one changes no timer.
LEMMA RequestTurnInv ==
  ASSUME Inv, NEW u \in Users, RequestTurn(u)
  PROVE  Inv'
<1>1. /\ turn_queue' \in Seq(Users)
      /\ position' \in [Users -> Nat \cup {NotQueued}]
      /\ QueueMatchesPositions'
  BY RequestKeepsPositions DEF Inv
<1>2. /\ turns_enabled /\ turns_enabled' = turns_enabled
      /\ turn_time' = turn_time /\ paused_time' = paused_time
      /\ ready' = ready /\ BroadcastTurnQueue
      /\ turn_queue' = Append(turn_queue, u)
      /\ position'[u] = Len(turn_queue)
  BY DEF RequestTurn, settings, UpdateCurrentTurn, Inv, TypeOK
<1>3. /\ ClientsSeeQueue'
      /\ shown' \in [users : Seq(Users),
                     state : {"Enabled", "Paused", "Disabled"}]
  BY <1>1, <1>2, BroadcastShowsQueue DEF Inv, TypeOK
<1>4. CASE turn_queue = <<>>
  <2>1. position'[u] = 0 /\ turn_queue' # <<>> /\ Head(turn_queue') = u
    BY <1>2, <1>4, HeadTailAppend, AppendProperties DEF Inv, TypeOK
  <2>2. IF IsPaused' THEN armed' = armed /\ left' = left
                     ELSE armed' = u /\ left' = turn_time
    BY <2>1 DEF RequestTurn, UpdateCurrentTurn, StartTimer, timer
  <2>3. TypeOK'
    BY <1>1, <1>2, <1>3, <2>2, TimesAssumption DEF Inv, TypeOK
  <2>4. TurnIsTimed'
    BY <2>1, <2>2 DEF TurnIsTimed
  <2> QED BY <1>1, <1>2, <1>3, <2>3, <2>4 DEF Inv, DisabledIsEmpty
<1>5. CASE turn_queue # <<>>
  <2>1. position'[u] # 0 /\ Head(turn_queue') = Head(turn_queue)
    BY <1>2, <1>5, HeadTailAppend, EmptySeq DEF Inv, TypeOK
  <2>2. armed' = armed /\ left' = left
    BY <2>1 DEF RequestTurn, timer
  <2>3. TypeOK'
    BY <1>1, <1>2, <1>3, <2>2 DEF Inv, TypeOK
  <2>4. TurnIsTimed'
    BY <1>2, <1>5, <2>1, <2>2 DEF Inv, TurnIsTimed, IsPaused, ToSet
  <2> QED BY <1>1, <1>2, <1>3, <2>3, <2>4 DEF Inv, DisabledIsEmpty
<1> QED
  BY <1>4, <1>5

\* RemoveUser() outside the timer's handler: the queued handlers stay.
LEMMA EraseInv ==
  ASSUME Inv, NEW u \in Users, InQueue(u), Erase(u), ready' = ready
  PROVE  Inv'
<1>1. ready' \in Seq(Users)
  BY DEF Inv, TypeOK
<1>2. TurnIsTimed'
  BY <1>1, EraseKeepsRest DEF Inv, TurnIsTimed, ToSet
<1> QED
  BY <1>1, <1>2, EraseKeepsRest DEF Inv

\* PauseTurnTimer() and ResumeTurnTimer().
LEMMA PauseInv ==
  ASSUME Inv, PauseTurnTimer
  PROVE  Inv'
<1>1. /\ turn_queue' = turn_queue /\ position' = position /\ ready' = ready
      /\ turns_enabled /\ turns_enabled' = turns_enabled
      /\ turn_time' = turn_time
      /\ armed' = NoUser /\ left' = 0 /\ BroadcastTurnQueue
  BY DEF PauseTurnTimer, settings, CancelTimer
<1>2. paused_time' \in Nat
  BY TimesAssumption DEF PauseTurnTimer, Inv, TypeOK
<1>3. /\ ClientsSeeQueue'
      /\ shown' \in [users : Seq(Users),
                     state : {"Enabled", "Paused", "Disabled"}]
  BY <1>1, BroadcastShowsQueue DEF Inv, TypeOK
<1>4. TypeOK'
  BY <1>1, <1>2, <1>3 DEF Inv, TypeOK
<1>5. QueueMatchesPositions'
  BY <1>1 DEF Inv, QueueMatchesPositions, InQueue
<1>6. TurnIsTimed'
  BY <1>2 DEF TurnIsTimed, IsPaused, NotPaused
<1> QED
  BY <1>1, <1>3, <1>4, <1>5, <1>6 DEF Inv, DisabledIsEmpty

\* ResumeTurnTimer() gives the head of the queue a timer.
LEMMA ResumeInv ==
  ASSUME Inv, ResumeTurnTimer
  PROVE  Inv'
<1>1. /\ turn_queue' = turn_queue /\ position' = position /\ ready' = ready
      /\ turns_enabled /\ turns_enabled' = turns_enabled
      /\ turn_time' = turn_time /\ paused_time' = NotPaused
      /\ paused_time \in Nat /\ BroadcastTurnQueue
  BY DEF ResumeTurnTimer, settings, UpdateCurrentTurn, IsPaused, Inv, TypeOK
<1>2. IF turn_queue = <<>> THEN armed' = armed /\ left' = left
      ELSE armed' = Head(turn_queue) /\ left' = paused_time
  BY <1>1 DEF ResumeTurnTimer, UpdateCurrentTurn, IsPaused, StartTimer, timer
<1>3. /\ ClientsSeeQueue'
      /\ shown' \in [users : Seq(Users),
                     state : {"Enabled", "Paused", "Disabled"}]
  BY <1>1, BroadcastShowsQueue DEF Inv, TypeOK
<1>4. turn_queue # <<>> => Head(turn_queue) \in Users
  BY DEF Inv, TypeOK
<1>5. TypeOK'
  BY <1>1, <1>2, <1>3, <1>4 DEF Inv, TypeOK
<1>6. QueueMatchesPositions'
  BY <1>1 DEF Inv, QueueMatchesPositions, InQueue
<1>7. TurnIsTimed'
  BY <1>1, <1>2 DEF TurnIsTimed
<1> QED
  BY <1>1, <1>3, <1>5, <1>6, <1>7 DEF Inv, DisabledIsEmpty

\* ApplySettings(): disabling turns clears the queue and every position.
LEMMA ApplySettingsInv ==
  ASSUME Inv, NEW time \in TurnTimes, NEW enabled \in BOOLEAN,
         ApplySettings(time, enabled)
  PROVE  Inv'
<1>1. /\ turn_time' = time /\ turns_enabled' = enabled
      /\ paused_time' = paused_time /\ ready' = ready
  BY DEF ApplySettings
<1>2. CASE turns_enabled /\ ~enabled
  <2>1. /\ armed' = NoUser /\ left' = 0 /\ turn_queue' = <<>>
        /\ position' = [u \in Users |-> IF u \in ToSet(turn_queue)
                                          THEN NotQueued ELSE position[u]]
        /\ IF turn_queue = <<>> THEN shown' = shown ELSE BroadcastTurnQueue
    BY <1>2 DEF ApplySettings, Clear, CancelTimer, EmptyQueue
  <2>2. ASSUME NEW u \in Users PROVE position'[u] = NotQueued
    BY <2>1 DEF Inv, TypeOK, QueueMatchesPositions, InQueue, ToSet, NotQueued
  <2>3. position' \in [Users -> Nat \cup {NotQueued}]
    BY <2>1 DEF Inv, TypeOK
  <2>4. turn_queue' \in Seq(Users)
    BY <2>1
  <2>5. /\ ClientsSeeQueue'
        /\ shown' \in [users : Seq(Users),
                       state : {"Enabled", "Paused", "Disabled"}]
    BY <1>1, <2>1, <2>4, BroadcastShowsQueue
       DEF Inv, TypeOK, ClientsSeeQueue, IsPaused
  <2>6. TypeOK'
    BY <1>1, <2>1, <2>3, <2>4, <2>5 DEF Inv, TypeOK
  <2>7. QueueMatchesPositions'
    BY <2>1, <2>2 DEF QueueMatchesPositions, InQueue
  <2> QED BY <2>1, <2>5, <2>6, <2>7 DEF Inv, TurnIsTimed, DisabledIsEmpty
<1>3. CASE ~(turns_enabled /\ ~enabled)
  <2>1. /\ turn_queue' = turn_queue /\ position' = position
        /\ armed' = armed /\ left' = left /\ shown' = shown
    BY <1>3 DEF ApplySettings, timer
  <2> QED BY <1>1, <1>3, <2>1
          DEF Inv, TypeOK, QueueMatchesPositions, TurnIsTimed, DisabledIsEmpty,
              ClientsSeeQueue, InQueue, IsPaused, ToSet
<1> QED
  BY <1>2, <1>3

\* The timer: time passes, the wait expires.
LEMMA TimerInv ==
  ASSUME Inv, Tick \/ TimerExpires
  PROVE  Inv'
<1>1. /\ turn_queue' = turn_queue /\ position' = position
      /\ paused_time' = paused_time /\ shown' = shown
      /\ turns_enabled' = turns_enabled /\ turn_time' = turn_time
      /\ armed # NoUser /\ armed \in Users
      /\ left' \in Nat
  BY DEF Tick, TimerExpires, settings, Inv, TypeOK
<1>2. QueueMatchesPositions' /\ ClientsSeeQueue'
  BY <1>1 DEF Inv, QueueMatchesPositions, ClientsSeeQueue, InQueue, IsPaused
<1>3. DisabledIsEmpty'
  BY <1>1 DEF Inv, DisabledIsEmpty
<1>4. CASE Tick
  <2>1. armed' = armed /\ ready' = ready
    BY <1>4 DEF Tick
  <2> QED BY <1>1, <1>2, <1>3, <2>1
          DEF Inv, TypeOK, TurnIsTimed, IsPaused, ToSet
<1>5. CASE TimerExpires
  <2>1. armed' = NoUser /\ ready' = Append(ready, armed)
    BY <1>5 DEF TimerExpires
  <2>2. /\ ready' \in Seq(Users) /\ Len(ready') = Len(ready) + 1
        /\ \A i \in 1 .. Len(ready) : ready'[i] = ready[i]
        /\ ready'[Len(ready) + 1] = armed
    BY <1>1, <2>1, AppendProperties DEF Inv, TypeOK
  <2>3. ASSUME NEW v, v \in ToSet(ready) \/ v = armed
        PROVE  v \in ToSet(ready')
    <3>1. CASE v \in ToSet(ready)
      <4>1. PICK i \in 1 .. Len(ready) : ready[i] = v
        BY <3>1 DEF ToSet, Inv, TypeOK
      <4> QED BY <2>2, <4>1 DEF ToSet, Inv, TypeOK
    <3>2. CASE v = armed
      BY <2>2, <3>2 DEF ToSet, Inv, TypeOK
    <3> QED BY <2>3, <3>1, <3>2
  <2>4. TurnIsTimed'
    BY <1>1, <2>1, <2>3 DEF Inv, TurnIsTimed, IsPaused
  <2> QED BY <1>1, <1>2, <1>3, <2>1, <2>2, <2>4 DEF Inv, TypeOK
<1> QED
  BY <1>4, <1>5

\* A late handler takes its own entry out of the queue of handlers, and only
\* its own user loses the timer: if that user is still at the head, the next
\* one gets a timer, and otherwise the head keeps what it has.
LEMMA RunTimerHandlerInv ==
  ASSUME Inv, RunTimerHandler
  PROVE  Inv'
<1> DEFINE h == Head(ready)
<1>1. /\ ready # <<>> /\ ready' = Tail(ready) /\ h \in Users
      /\ ready' \in Seq(Users)
  BY HeadTailProperties DEF RunTimerHandler, Inv, TypeOK
<1>2. ASSUME NEW v, v \in ToSet(ready), v # h
      PROVE  v \in ToSet(ready')
  <2>1. PICK i \in 1 .. Len(ready) : ready[i] = v
    BY <1>2 DEF ToSet, Inv, TypeOK
  <2>2. i # 1
    BY <1>2, <2>1 DEF Inv, TypeOK
  <2>3. i - 1 \in 1 .. Len(ready') /\ ready'[i - 1] = v
    BY <1>1, <2>1, <2>2, HeadTailProperties DEF Inv, TypeOK
  <2> QED BY <1>1, <2>3 DEF ToSet
<1>3. CASE InQueue(h)
  <2>1. Erase(h)
    BY <1>3 DEF RunTimerHandler
  <2>2. TurnIsTimed'
    <3>1. CASE turn_queue' = <<>> \/ IsPaused' \/ armed' = Head(turn_queue')
      BY <3>1 DEF TurnIsTimed
    <3>2. CASE /\ position[h] # 0 /\ armed' = armed
               /\ Head(turn_queue') = Head(turn_queue)
               /\ turn_queue # <<>> /\ ~IsPaused
      <4>1. Head(turn_queue) # h
        BY <3>2, HeadFacts DEF Inv
      <4> QED BY <1>2, <3>2, <4>1 DEF Inv, TurnIsTimed
    <3> HIDE DEF h
    <3> QED BY <1>1, <1>3, <2>1, <3>1, <3>2, EraseKeepsRest
  <2> HIDE DEF h
  <2> QED BY <1>1, <1>3, <2>1, <2>2, EraseKeepsRest DEF Inv
<1>4. CASE ~InQueue(h)
  <2>1. /\ turn_queue' = turn_queue /\ position' = position
        /\ paused_time' = paused_time /\ armed' = armed /\ left' = left
        /\ turn_time' = turn_time /\ turns_enabled' = turns_enabled
        /\ shown' = shown
    BY <1>4 DEF RunTimerHandler, timer, settings
  <2>2. turn_queue # <<>> => Head(turn_queue) # h
    BY <1>4, HeadFacts DEF Inv
  <2>3. TurnIsTimed'
    BY <1>2, <2>1, <2>2 DEF Inv, TurnIsTimed, IsPaused
  <2> QED BY <1>1, <2>1, <2>3
          DEF Inv, TypeOK, QueueMatchesPositions, DisabledIsEmpty,
              ClientsSeeQueue, InQueue, IsPaused
<1> QED
  BY <1>3, <1>4

\* Every step keeps the invariant.
LEMMA NextInv == Inv /\ [Next]_vars => Inv'
<1> SUFFICES ASSUME Inv, [Next]_vars PROVE Inv'
  OBVIOUS
<1>1. ASSUME NEW u \in Users, RequestTurn(u) PROVE Inv'
  BY <1>1, RequestTurnInv
<1>2. ASSUME NEW u \in Users, RemoveUser(u) PROVE Inv'
  BY <1>2, EraseInv DEF RemoveUser
<1>3. ASSUME NEW u \in Users, EndCurrentTurn(u) PROVE Inv'
  BY <1>3, EraseInv, HeadFacts DEF EndCurrentTurn, Inv
<1>4. CASE PauseTurnTimer
  BY <1>4, PauseInv
<1>5. CASE ResumeTurnTimer
  BY <1>5, ResumeInv
<1>6. ASSUME NEW time \in TurnTimes, NEW enabled \in BOOLEAN,
             ApplySettings(time, enabled)
      PROVE  Inv'
  BY <1>6, ApplySettingsInv
<1>7. CASE Tick \/ TimerExpires
  BY <1>7, TimerInv
<1>8. CASE RunTimerHandler
  BY <1>8, RunTimerHandlerInv
<1>9. CASE UNCHANGED vars
  BY <1>9 DEF vars, Inv, TypeOK, QueueMatchesPositions, TurnIsTimed,
              DisabledIsEmpty, ClientsSeeQueue, InQueue, IsPaused, ToSet
<1> QED
  BY <1>1, <1>2, <1>3, <1>4, <1>5, <1>6, <1>7, <1>8, <1>9 DEF Next

\* The invariant holds in every state of every behaviour.
LEMMA InvHolds == Spec => []Inv
BY InitInv, NextInv, PTL DEF Spec

\* Every variable keeps its type in every behaviour.
THEOREM TypeCorrect == Spec => []TypeOK
BY InvHolds, PTL DEF Inv

\* For any number of users: the position a socket carries is the index of its
\* one entry in turn_queue_, which is what RemoveUser() erases by.
THEOREM PositionsCorrect == Spec => []QueueMatchesPositions
BY InvHolds, PTL DEF Inv

\* A running turn is always timed, whatever stale handlers are queued.
THEOREM TurnAlwaysTimed == Spec => []TurnIsTimed
BY InvHolds, PTL DEF Inv

\* Disabling turns leaves no queue and no pending wait behind.
THEOREM DisabledAlwaysEmpty == Spec => []DisabledIsEmpty
BY InvHolds, PTL DEF Inv

\* The last broadcast shows the queue and the pause in force.
THEOREM ClientsAlwaysSeeQueue == Spec => []ClientsSeeQueue
BY InvHolds, PTL DEF Inv

\* One step keeps the order of the users that stay in the queue.
LEMMA NextKeepsOrder ==
  ASSUME Inv, Next, NEW u \in Users, NEW v \in Users,
         InQueue(u), InQueue(v), position[u] < position[v],
         InQueue(u)', InQueue(v)'
  PROVE  position'[u] < position'[v]
<1>1. ASSUME NEW w \in Users, RequestTurn(w) PROVE position'[u] < position'[v]
  BY <1>1 DEF RequestTurn, Inv, TypeOK
<1>2. ASSUME NEW w \in Users, InQueue(w), Erase(w)
      PROVE  position'[u] < position'[v]
  <2>1. u # w /\ v # w
    BY <1>2, EraseMovesUp DEF Inv, InQueue
  <2>2. position[u] # position[w]
    BY <1>2, <2>1 DEF Inv, QueueMatchesPositions
  <2>3. /\ position[u] \in Nat /\ position[v] \in Nat /\ position[w] \in Nat
    BY <1>2 DEF Inv, TypeOK, InQueue
  <2>4. /\ position'[u] = IF position[u] > position[w]
                            THEN position[u] - 1 ELSE position[u]
        /\ position'[v] = IF position[v] > position[w]
                            THEN position[v] - 1 ELSE position[v]
    BY <1>2, <2>1, EraseMovesUp DEF Inv
  <2> QED BY <2>2, <2>3, <2>4
<1>3. ASSUME position' = position PROVE position'[u] < position'[v]
  BY <1>3
<1>4. ASSUME NEW w \in Users, RemoveUser(w) PROVE position'[u] < position'[v]
  BY <1>2, <1>4 DEF RemoveUser
<1>5. ASSUME NEW w \in Users, EndCurrentTurn(w)
      PROVE  position'[u] < position'[v]
  BY <1>2, <1>5, HeadFacts DEF EndCurrentTurn, Inv
<1>6. CASE PauseTurnTimer \/ ResumeTurnTimer \/ Tick \/ TimerExpires
  BY <1>3, <1>6 DEF PauseTurnTimer, ResumeTurnTimer, Tick, TimerExpires
<1>7. ASSUME NEW time \in TurnTimes, NEW enabled \in BOOLEAN,
             ApplySettings(time, enabled)
      PROVE  position'[u] < position'[v]
  <2>1. CASE turns_enabled /\ ~enabled
    <3>1. u \in ToSet(turn_queue)
      BY DEF Inv, TypeOK, QueueMatchesPositions, InQueue, ToSet, NotQueued
    <3>2. ~InQueue(u)'
      BY <1>7, <2>1, <3>1 DEF ApplySettings, Clear, EmptyQueue, InQueue
    <3> QED BY <3>2
  <2>2. CASE ~(turns_enabled /\ ~enabled)
    BY <1>3, <1>7, <2>2 DEF ApplySettings
  <2> QED BY <2>1, <2>2
<1>8. CASE RunTimerHandler
  <2>1. Head(ready) \in Users
    BY <1>8, HeadTailProperties DEF RunTimerHandler, Inv, TypeOK
  <2> QED BY <1>2, <1>3, <1>8, <2>1 DEF RunTimerHandler
<1> QED
  BY <1>1, <1>4, <1>5, <1>6, <1>7, <1>8 DEF Next

\* First come, first served: no step lets a user pass another in the queue.
THEOREM OrderKept == Spec => NoOvertaking
<1> DEFINE Kept == \A u, v \in Users :
             /\ InQueue(u) /\ InQueue(v) /\ position[u] < position[v]
             /\ InQueue(u)' /\ InQueue(v)'
             => position'[u] < position'[v]
<1>1. Inv /\ [Next]_vars => [Kept]_vars
  BY NextKeepsOrder
<1> QED
  BY <1>1, InvHolds, PTL DEF Spec, NoOvertaking

=============================================================================
