-------------------------- MODULE ChatRoomProofs --------------------------
(***************************************************************************)
(* Proofs about ChatRoom, for a ring of any size that a std::uint8_t can   *)
(* index: the ring is a faithful history of the last messages.             *)
(***************************************************************************)
EXTENDS ChatRoom, SequenceTheorems, TLAPS

\* The remainder of a number below the divisor is the number itself.
LEMMA ModBelow ==
  ASSUME NEW c \in Nat, 0 < c, NEW x \in 0 .. c - 1
  PROVE  x % c = x
  BY SMT

\* The remainder of a number that has passed the divisor once.
LEMMA ModAbove ==
  ASSUME NEW c \in Nat, 0 < c, NEW x \in c .. 2 * c - 1
  PROVE  x % c = x - c
  BY SMT

\* Append() as a function.
LEMMA AppendAsFunction ==
  ASSUME NEW S, NEW s \in Seq(S), NEW x \in S, NEW n \in Nat, Len(s) = n
  PROVE  Append(s, x) =
           [i \in 1 .. n + 1 |-> IF i = n + 1 THEN x ELSE s[i]]
  <1> DEFINE a == Append(s, x)
  <1>1. /\ a \in Seq(S) /\ Len(a) = n + 1
        /\ \A i \in 1 .. n : a[i] = s[i]
        /\ a[n + 1] = x
    BY AppendProperties
  <1>2. a \in [1 .. n + 1 -> S]
    BY <1>1, LenProperties
  <1>3. \A i \in 1 .. n + 1 : a[i] = IF i = n + 1 THEN x ELSE s[i]
    BY <1>1
  <1> HIDE DEF a
  <1>4. a = [i \in 1 .. n + 1 |-> IF i = n + 1 THEN x ELSE s[i]]
    BY <1>2, <1>3
  <1> QED
    BY <1>4 DEF a

\* The next offset, without remainders.
LEMMA FollowingOffset ==
  ASSUME NEW i \in Offsets
  PROVE  Following(i) = IF i + 1 = Capacity THEN 0 ELSE i + 1
  <1> USE ChatRoomAssumption DEF Offsets
  <1>1. CASE i + 1 = Capacity
    <2>1. (i + 1) % Capacity = 0
      BY <1>1, ModAbove
    <2>2. 0 % 256 = 0
      BY ModBelow
    <2> QED
      BY <1>1, <2>1, <2>2 DEF Following
  <1>2. CASE i + 1 # Capacity
    <2>1. (i + 1) % Capacity = i + 1
      BY <1>2, ModBelow
    <2>2. (i + 1) % 256 = i + 1
      BY <1>2, ModBelow
    <2> QED
      BY <1>2, <2>1, <2>2 DEF Following
  <1> QED
    BY <1>1, <1>2

\* The offset and the count of the ring are always in range and in step.
THEOREM TypeCorrect == Spec => []TypeOK
  <1> USE ChatRoomAssumption
  <1>1. Init => TypeOK
    BY DEF Init, TypeOK, Offsets, Entry
  <1>2. TypeOK /\ [Next]_vars => TypeOK'
    <2> SUFFICES ASSUME TypeOK, [Next]_vars PROVE TypeOK'
      OBVIOUS
    <2>1. CASE UNCHANGED vars
      BY <2>1 DEF TypeOK, vars
    <2>2. ASSUME NEW m \in Message, AddUserMessage(m)
          PROVE  TypeOK'
      <3>1. Stored(m) \in Entry
        BY <2>2 DEF Stored, Message, Entry
      <3>2. ring' \in [Offsets -> Entry]
        BY <2>2, <3>1 DEF AddUserMessage, TypeOK
      <3>3. next' = IF next + 1 = Capacity THEN 0 ELSE next + 1
        BY <2>2, FollowingOffset DEF AddUserMessage, TypeOK
      <3> QED
        BY <2>2, <3>2, <3>3 DEF AddUserMessage, TypeOK, Offsets
    <2> QED
      BY <2>1, <2>2 DEF Next
  <1> QED
    BY <1>1, <1>2, PTL DEF Spec

\* The history is a sequence of count messages.
LEMMA HistoryType ==
  ASSUME TypeOK
  PROVE  /\ GetChatHistory \in Seq(Entry)
         /\ Len(GetChatHistory) = count
         /\ \A i \in 1 .. count :
              GetChatHistory[i] = ring[(First + i - 1) % Capacity]
  <1> USE ChatRoomAssumption
  <1>1. \A i \in 1 .. count : (First + i - 1) % Capacity \in Offsets
    <2> TAKE i \in 1 .. count
    <2>1. First + i - 1 \in 0 .. 2 * Capacity - 1
      BY DEF TypeOK, First, Offsets
    <2>2. CASE First + i - 1 < Capacity
      BY <2>1, <2>2, ModBelow DEF Offsets
    <2>3. CASE First + i - 1 >= Capacity
      BY <2>1, <2>3, ModAbove DEF Offsets
    <2> QED
      BY <2>1, <2>2, <2>3
  <1>2. GetChatHistory \in [1 .. count -> Entry]
    BY <1>1 DEF GetChatHistory, TypeOK
  <1> QED
    BY <1>2 DEF GetChatHistory, TypeOK

\* A message added to a ring with room is appended to the history.
LEMMA AddFilling ==
  ASSUME TypeOK, TypeOK', NEW m \in Message, AddUserMessage(m),
         count < Capacity
  PROVE  GetChatHistory' = Append(GetChatHistory, Stored(m))
  <1> USE ChatRoomAssumption
  <1>1. /\ count' = count + 1
        /\ next = count
        /\ ring' = [ring EXCEPT ![next] = Stored(m)]
        /\ First = 0
    BY DEF AddUserMessage, TypeOK, First, Offsets
  <1>2. First' = 0
    <2>1. next' = IF next + 1 = Capacity THEN 0 ELSE next + 1
      BY FollowingOffset DEF AddUserMessage, TypeOK
    <2> QED
      BY <1>1, <2>1 DEF First, TypeOK
  <1>3. /\ GetChatHistory \in Seq(Entry)
        /\ Len(GetChatHistory) = count
        /\ \A i \in 1 .. count : GetChatHistory[i] = ring[i - 1]
    <2>1. \A i \in 1 .. count : (First + i - 1) % Capacity = i - 1
      BY <1>1, ModBelow DEF TypeOK
    <2> QED
      BY <2>1, HistoryType
  <1>4. GetChatHistory' = [i \in 1 .. count + 1 |-> ring'[i - 1]]
    <2>1. \A i \in 1 .. count + 1 : (First' + i - 1) % Capacity = i - 1
      BY <1>2, ModBelow DEF TypeOK
    <2> QED
      BY <1>1, <2>1 DEF GetChatHistory
  <1>5. \A i \in 1 .. count + 1 : ring'[i - 1] =
          IF i = count + 1 THEN Stored(m) ELSE ring[i - 1]
    BY <1>1 DEF TypeOK, Offsets
  <1>6. Append(GetChatHistory, Stored(m)) =
          [i \in 1 .. count + 1 |->
             IF i = count + 1 THEN Stored(m) ELSE ring[i - 1]]
    <2>1. Stored(m) \in Entry /\ count \in Nat
      BY DEF Stored, Message, Entry, TypeOK
    <2>2. Append(GetChatHistory, Stored(m)) =
            [i \in 1 .. count + 1 |->
               IF i = count + 1 THEN Stored(m) ELSE GetChatHistory[i]]
      BY <1>3, <2>1, AppendAsFunction
    <2> QED
      BY <1>3, <2>1, <2>2
  <1> QED
    BY <1>4, <1>5, <1>6

\* A message added to a full ring replaces the oldest one of the history.
LEMMA AddFull ==
  ASSUME TypeOK, TypeOK', NEW m \in Message, AddUserMessage(m),
         count = Capacity
  PROVE  GetChatHistory' = Append(Tail(GetChatHistory), Stored(m))
  <1> USE ChatRoomAssumption
  <1> DEFINE at(i) == IF next + i < Capacity THEN next + i
                      ELSE next + i - Capacity
  <1>1. /\ count' = Capacity
        /\ ring' = [ring EXCEPT ![next] = Stored(m)]
        /\ next' = IF next + 1 = Capacity THEN 0 ELSE next + 1
        /\ First = next
        /\ First' = next'
    BY FollowingOffset DEF AddUserMessage, TypeOK, First
  <1>2. next \in Offsets /\ next' \in Offsets
    BY DEF TypeOK
  <1>3. \A i \in 1 .. Capacity : (next + i - 1) % Capacity = at(i - 1)
    <2> TAKE i \in 1 .. Capacity
    <2>1. CASE next + i - 1 < Capacity
      BY <1>2, <2>1, ModBelow DEF Offsets
    <2>2. CASE next + i - 1 >= Capacity
      BY <1>2, <2>2, ModAbove DEF Offsets
    <2> QED
      BY <1>2, <2>1, <2>2 DEF Offsets
  <1>4. /\ GetChatHistory \in Seq(Entry)
        /\ Len(GetChatHistory) = Capacity
        /\ \A i \in 1 .. Capacity : GetChatHistory[i] = ring[at(i - 1)]
    BY <1>1, <1>3, HistoryType
  <1>5. \A i \in 1 .. Capacity : (next' + i - 1) % Capacity =
          IF i = Capacity THEN next ELSE at(i)
    <2> TAKE i \in 1 .. Capacity
    <2>1. CASE next' + i - 1 < Capacity
      BY <1>1, <1>2, <2>1, ModBelow DEF Offsets
    <2>2. CASE next' + i - 1 >= Capacity
      BY <1>1, <1>2, <2>2, ModAbove DEF Offsets
    <2>3. next' + i - 1 \in Int
      BY <1>2 DEF Offsets
    <2> HIDE DEF at
    <2> QED
      BY <2>1, <2>2, <2>3
  <1>6. GetChatHistory' = [i \in 1 .. Capacity |->
                             ring'[IF i = Capacity THEN next ELSE at(i)]]
    <2> HIDE DEF at
    <2>1. GetChatHistory' = [i \in 1 .. Capacity |->
                               ring'[(next' + i - 1) % Capacity]]
      BY <1>1 DEF GetChatHistory
    <2> QED
      BY <1>5, <2>1
  <1>7. \A i \in 1 .. Capacity :
          ring'[IF i = Capacity THEN next ELSE at(i)] =
            IF i = Capacity THEN Stored(m) ELSE ring[at(i)]
    BY <1>1, <1>2 DEF TypeOK, Offsets
  <1>8. /\ Tail(GetChatHistory) \in Seq(Entry)
        /\ Len(Tail(GetChatHistory)) = Capacity - 1
        /\ \A i \in 1 .. Capacity - 1 :
             Tail(GetChatHistory)[i] = ring[at(i)]
    BY <1>4
  <1>9. Append(Tail(GetChatHistory), Stored(m)) =
          [i \in 1 .. Capacity |->
             IF i = Capacity THEN Stored(m) ELSE ring[at(i)]]
    <2> HIDE DEF at
    <2>1. Stored(m) \in Entry
      BY DEF Stored, Message, Entry
    <2>2. PICK k \in Nat : Capacity = k + 1
      <3>1. Capacity - 1 \in Nat /\ Capacity = (Capacity - 1) + 1
        OBVIOUS
      <3> QED
        BY <3>1
    <2> DEFINE t == Tail(GetChatHistory)
    <2>3. t \in Seq(Entry) /\ Len(t) = k
      BY <1>8, <2>2
    <2> HIDE DEF t
    <2>4. Append(t, Stored(m)) =
            [i \in 1 .. k + 1 |-> IF i = k + 1 THEN Stored(m) ELSE t[i]]
      BY <2>1, <2>3, AppendAsFunction
    <2>5. \A i \in 1 .. k + 1 : i # k + 1 => t[i] = ring[at(i)]
      BY <1>8, <2>2 DEF t
    <2> QED
      BY <2>2, <2>4, <2>5 DEF t
  <1> QED
    BY <1>6, <1>7, <1>9

\* GetChatHistory() returns the last Capacity messages, oldest first: the ring
\* implements ChatLog.
THEOREM LogImplemented == Spec => ImplementsLog
  <1> USE ChatRoomAssumption
  <1>1. Init => Log!Init
    BY DEF Init, GetChatHistory, Log!Init
  <1>2. TypeOK /\ TypeOK' /\ [Next]_vars => [Log!Next]_GetChatHistory
    <2> SUFFICES ASSUME TypeOK, TypeOK', [Next]_vars
                 PROVE  [Log!Next]_GetChatHistory
      OBVIOUS
    <2>1. CASE UNCHANGED vars
      BY <2>1 DEF vars, GetChatHistory, First
    <2>2. ASSUME NEW m \in Message, AddUserMessage(m)
          PROVE  Log!Next
      <3>1. Len(GetChatHistory) = count
        BY HistoryType
      <3>2. CASE count < Capacity
        BY <2>2, <3>1, <3>2, AddFilling DEF Log!Next, Log!Add
      <3>3. CASE count = Capacity
        BY <2>2, <3>1, <3>3, AddFull DEF Log!Next, Log!Add
      <3> QED
        BY <3>2, <3>3 DEF TypeOK
    <2> QED
      BY <2>1, <2>2 DEF Next
  <1> QED
    BY <1>1, <1>2, TypeCorrect, PTL DEF Spec, ImplementsLog, Log!Spec
=============================================================================
