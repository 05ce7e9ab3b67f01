---------------------------- MODULE SharedProofs ----------------------------
(***************************************************************************)
(* Proofs about the parts of MCShared, for every value of their constants. *)
(* A part's invariant is proved of its own steps; a step of the whole is   *)
(* one of the part or leaves the part's variables alone.                   *)
(***************************************************************************)
EXTENDS MCShared, FiniteSetTheorems, SequenceTheorems, TLAPS

-----------------------------------------------------------------------------
(* The connections of an address: Admission. *)

\* However the limit is switched on and off.
AddressInv == Address!TypeOK /\ Address!NeverOverCounts

Admitted == Address!Active \ refused

\* Every group of the admitted connections has one that was admitted under a
\* limit no smaller than the group: LimitHolds, for all subsets.
GroupsFit ==
  \A T \in SUBSET Admitted :
    T # {} => \E s \in T : Cardinality(T) <= seen[s].limit

\* The inductive invariant while the limit stays on.
CountInv ==
  /\ Address!TypeOK /\ Address!CountsConnections /\ GroupsFit
  /\ enabled /\ \A s \in AddressSockets : seen[s].enabled

\* The instance counts as everybody else does.
LEMMA SameCardinality ==
  /\ \A S : Address!IsFiniteSet(S) <=> IsFiniteSet(S)
  /\ \A S : Address!Cardinality(S) = Cardinality(S)
<1>1. \A S : Address!IsFiniteSet(S) <=> IsFiniteSet(S)
  BY DEF Address!IsFiniteSet, IsFiniteSet
<1>2. \A S : Address!Cardinality(S) = Cardinality(S)
  BY DEF Address!Cardinality, Cardinality
<1> QED BY <1>1, <1>2

\* What is assumed of the constants.
LEMMA AddressConstants ==
  IsFiniteSet(AddressSockets) /\ Limits \subseteq Nat /\ Wrap \in Nat \ {0}
  /\ MayDisable \in BOOLEAN
BY PartsAssumption, SameCardinality DEF Address!AdmissionAssumption

\* A group of sockets is finite.
LEMMA Group ==
  ASSUME NEW S \in SUBSET AddressSockets
  PROVE  IsFiniteSet(S) /\ Cardinality(S) \in Nat
         /\ Cardinality(S) <= Cardinality(AddressSockets)
BY AddressConstants, FS_Subset, FS_CardinalityType

\* The counter as a residue.
LEMMA CountResidue ==
  ASSUME NEW n \in 0 .. Wrap - 1
  PROVE  /\ (n + 1) % Wrap \in 0 .. Wrap - 1
         /\ (n + 1) % Wrap <= n + 1
         /\ n + 1 < Wrap => (n + 1) % Wrap = n + 1
BY AddressConstants

\* A connection more or less.
LEMMA OneConnection ==
  ASSUME NEW S \in SUBSET AddressSockets, NEW s \in AddressSockets
  PROVE  /\ Cardinality(S) \in Nat
         /\ s \notin S => Cardinality(S \cup {s}) = Cardinality(S) + 1
         /\ s \in S => Cardinality(S \ {s}) = Cardinality(S) - 1
         /\ s \in S => Cardinality(S) >= 1
<1>1. IsFiniteSet(S) /\ Cardinality(S) \in Nat
  BY Group
<1>2. s \in S => Cardinality(S) # 0
  BY <1>1, FS_EmptySet
<1>3. s \notin S => Cardinality(S \cup {s}) = Cardinality(S) + 1
  BY <1>1, FS_AddElement
<1>4. s \in S => Cardinality(S \ {s}) = Cardinality(S) - 1
  BY <1>1, FS_RemoveElement
<1> QED BY <1>1, <1>2, <1>3, <1>4

\* What a step does to the types, the connections and the settings read.
LEMMA AddressTypeStep ==
  ASSUME Address!TypeOK, Address!Next
  PROVE  Address!TypeOK'
<1> USE AddressConstants DEF Address!TypeOK, Address!Phases, Address!Settings
<1>1. CASE Address!SetSettings
  BY <1>1 DEF Address!SetSettings
<1>2. ASSUME NEW s \in AddressSockets,
             \/ Address!OnPreConnect(s) \/ Address!GetIPData(s)
             \/ Address!ReadSettings(s) \/ Address!Reuse(s)
      PROVE  Address!TypeOK'
  BY <1>2 DEF Address!OnPreConnect, Address!GetIPData, Address!ReadSettings,
              Address!Reuse, Address!Goes
<1>3. ASSUME NEW s \in AddressSockets, Address!Count(s) PROVE Address!TypeOK'
  <2>1. connections' \in 0 .. Wrap - 1
    BY <1>3, CountResidue DEF Address!Count, Address!Incremented
  <2> QED BY <1>3, <2>1 DEF Address!Count, Address!Goes
<1>4. ASSUME NEW s \in AddressSockets, Address!OnDisconnect(s)
      PROVE  Address!TypeOK'
  BY <1>4 DEF Address!OnDisconnect, Address!Goes
<1> QED BY <1>1, <1>2, <1>3, <1>4 DEF Address!Next

\* Who is connected after a step: a counted socket more, a closed one less.
LEMMA ActiveStep ==
  ASSUME Address!TypeOK, Address!Next
  PROVE  \/ \E s \in AddressSockets \ Address!Active :
              Address!Count(s) /\ Address!Active' = Address!Active \cup {s}
         \/ \E s \in Address!Active :
              Address!OnDisconnect(s) /\ Address!Active' = Address!Active \ {s}
         \/ /\ Address!Active' = Address!Active /\ connections' = connections
            /\ refused' \cap Address!Active = refused \cap Address!Active
            /\ \A s \in Address!Active : seen'[s] = seen[s]
            /\ \A s \in AddressSockets :
                 seen'[s] = seen[s] \/ seen'[s] = [enabled |-> enabled, limit |-> limit]
<1> USE DEF Address!TypeOK, Address!Active
<1>1. CASE Address!SetSettings
  BY <1>1 DEF Address!SetSettings
<1>2. ASSUME NEW s \in AddressSockets,
             Address!OnPreConnect(s) \/ Address!GetIPData(s)
      PROVE  /\ Address!Active' = Address!Active /\ connections' = connections
             /\ refused' = refused /\ seen' = seen
  BY <1>2 DEF Address!OnPreConnect, Address!GetIPData, Address!Goes
<1>3. ASSUME NEW s \in AddressSockets, Address!ReadSettings(s)
      PROVE  /\ Address!Active' = Address!Active /\ connections' = connections
             /\ refused' = refused
             /\ \A t \in Address!Active : seen'[t] = seen[t]
             /\ \A t \in AddressSockets : seen'[t] = seen[t] \/
                  seen'[t] = [enabled |-> enabled, limit |-> limit]
  BY <1>3 DEF Address!ReadSettings, Address!Goes
<1>4. ASSUME NEW s \in AddressSockets, Address!Reuse(s)
      PROVE  /\ Address!Active' = Address!Active /\ connections' = connections
             /\ refused' \cap Address!Active = refused \cap Address!Active
             /\ seen' = seen
  BY <1>4 DEF Address!Reuse, Address!Goes
<1>5. ASSUME NEW s \in AddressSockets, Address!Count(s)
      PROVE  s \notin Address!Active /\ Address!Active' = Address!Active \cup {s}
  BY <1>5 DEF Address!Count, Address!Goes
<1>6. ASSUME NEW s \in AddressSockets, Address!OnDisconnect(s)
      PROVE  s \in Address!Active /\ Address!Active' = Address!Active \ {s}
  BY <1>6 DEF Address!OnDisconnect, Address!Goes
<1> HIDE DEF Address!Active
<1> QED BY <1>1, <1>2, <1>3, <1>4, <1>5, <1>6 DEF Address!Next, Address!SetSettings

\* No connection that has ended is counted, whatever the settings do.
LEMMA AddressInvStep ==
  ASSUME AddressInv, [Address!Next]_address_vars
  PROVE  AddressInv'
<1> DEFINE A == Address!Active
<1>1. A \in SUBSET AddressSockets /\ connections <= Cardinality(A)
      /\ connections \in 0 .. Wrap - 1
  BY SameCardinality DEF AddressInv, Address!NeverOverCounts, Address!Active,
                         Address!TypeOK
<1>2. CASE UNCHANGED address_vars
  BY <1>2 DEF AddressInv, Address!TypeOK, Address!NeverOverCounts,
              Address!Active, address_vars
<1>3. CASE Address!Next
  <2>1. Address!TypeOK'
    BY <1>3, AddressTypeStep DEF AddressInv
  <2>2. connections' <= Cardinality(A')
    <3>1. ASSUME NEW s \in AddressSockets \ A, Address!Count(s), A' = A \cup {s}
          PROVE  connections' <= Cardinality(A')
      <4>1. Cardinality(A') = Cardinality(A) + 1 /\ Cardinality(A) \in Nat
        BY <1>1, <3>1, OneConnection
      <4>2. connections' <= connections + 1 /\ connections' \in Nat
        BY <1>1, <3>1, CountResidue DEF Address!Count, Address!Incremented
      <4> QED BY <1>1, <4>1, <4>2
    <3>2. ASSUME NEW s \in A, Address!OnDisconnect(s), A' = A \ {s}
          PROVE  connections' <= Cardinality(A')
      <4>1. Cardinality(A') = Cardinality(A) - 1 /\ Cardinality(A) \in Nat
            /\ Cardinality(A) >= 1
        BY <1>1, <3>2, OneConnection
      <4>2. connections' = IF connections > 0 THEN connections - 1 ELSE connections
        BY <3>2 DEF Address!OnDisconnect
      <4> QED BY <1>1, <4>1, <4>2
    <3>3. CASE A' = A /\ connections' = connections
      BY <1>1, <3>3
    <3> HIDE DEF A
    <3> QED BY <1>3, <3>1, <3>2, <3>3, ActiveStep DEF AddressInv, A
  <2> QED BY <2>1, <2>2, SameCardinality DEF AddressInv, Address!NeverOverCounts
<1> QED BY <1>2, <1>3

\* Every group of admitted connections still fits.
LEMMA GroupsFitStep ==
  ASSUME CountInv, Address!Next, Address!CountsConnections'
  PROVE  GroupsFit'
<1> DEFINE A == Address!Active
<1>1. /\ A \in SUBSET AddressSockets /\ connections = Cardinality(A)
      /\ connections \in 0 .. Wrap - 1 /\ refused \in SUBSET AddressSockets
      /\ Address!TypeOK /\ GroupsFit /\ seen \in [AddressSockets -> Address!Settings]
  BY SameCardinality DEF CountInv, Address!CountsConnections, Address!Active,
                         Address!TypeOK
<1>2. ASSUME NEW s \in AddressSockets \ A, Address!Count(s), A' = A \cup {s},
             NEW T \in SUBSET (A' \ refused'), T # {}
      PROVE  \E t \in T : Cardinality(T) <= seen'[t].limit
  <2>1. seen' = seen /\ refused \subseteq refused'
    BY <1>2 DEF Address!Count
  <2>2. CASE s \in T
    <3>1. seen[s].enabled
      BY <1>2 DEF CountInv
    <3>2. Cardinality(A') = Cardinality(A) + 1 /\ A' \in SUBSET AddressSockets
      BY <1>1, <1>2, OneConnection
    <3>3. connections' = Cardinality(A') /\ connections' = Address!Incremented
      BY <1>2, <3>1, SameCardinality DEF Address!CountsConnections, Address!Count
    <3>4. ~(Address!Incremented > seen[s].limit)
      BY <1>2, <2>2, <3>1 DEF Address!Count
    <3>5. Cardinality(T) <= Cardinality(A') /\ Cardinality(T) \in Nat
          /\ Cardinality(A') \in Nat
      <4>1. IsFiniteSet(A') /\ T \in SUBSET A' /\ T \in SUBSET AddressSockets
        BY <3>2, Group
      <4> QED BY <3>2, <4>1, FS_Subset, Group
    <3>6. seen[s].limit \in Nat
      BY <1>1, <1>2, AddressConstants DEF Address!Settings
    <3>7. Cardinality(T) <= seen[s].limit
      BY <3>3, <3>4, <3>5, <3>6
    <3> QED BY <2>1, <2>2, <3>7
  <2>3. CASE s \notin T
    <3>1. T \in SUBSET (A \ refused)
      BY <1>2, <2>1, <2>3
    <3> QED BY <1>1, <1>2, <2>1, <3>1 DEF GroupsFit, Admitted
  <2> QED BY <2>2, <2>3
<1>3. ASSUME NEW s \in A, Address!OnDisconnect(s), A' = A \ {s},
             NEW T \in SUBSET (A' \ refused'), T # {}
      PROVE  \E t \in T : Cardinality(T) <= seen'[t].limit
  <2>1. seen' = seen /\ refused' = refused
    BY <1>3 DEF Address!OnDisconnect
  <2>2. T \in SUBSET (A \ refused)
    BY <1>3, <2>1
  <2> QED BY <1>1, <1>3, <2>1, <2>2 DEF GroupsFit, Admitted
<1>4. ASSUME A' = A, refused' \cap A = refused \cap A,
             \A s \in A : seen'[s] = seen[s],
             NEW T \in SUBSET (A' \ refused'), T # {}
      PROVE  \E t \in T : Cardinality(T) <= seen'[t].limit
  <2>1. T \in SUBSET (A \ refused)
    BY <1>4
  <2>2. PICK t \in T : Cardinality(T) <= seen[t].limit
    BY <1>1, <1>4, <2>1 DEF GroupsFit, Admitted
  <2> QED BY <1>4, <2>1, <2>2
<1> HIDE DEF A
<1> QED BY <1>1, <1>2, <1>3, <1>4, ActiveStep DEF A, GroupsFit, Admitted

\* While the limit stays on and the counter has room for the address's
\* sockets, they are counted exactly.
LEMMA CountInvStep ==
  ASSUME CountInv, [Address!Next]_address_vars, ~MayDisable,
         Cardinality(AddressSockets) < Wrap
  PROVE  CountInv'
<1> DEFINE A == Address!Active
<1>1. /\ A \in SUBSET AddressSockets /\ connections = Cardinality(A)
      /\ connections \in 0 .. Wrap - 1 /\ Address!TypeOK
  BY SameCardinality DEF CountInv, Address!CountsConnections, Address!Active,
                         Address!TypeOK
<1>2. CASE UNCHANGED address_vars
  BY <1>2 DEF CountInv, Address!TypeOK, Address!CountsConnections, GroupsFit,
              Admitted, Address!Active, address_vars
<1>3. CASE Address!Next
  <2>1. Address!TypeOK'
    BY <1>1, <1>3, AddressTypeStep
  <2>2. connections' = Cardinality(A')
    <3>1. ASSUME NEW s \in AddressSockets \ A, Address!Count(s), A' = A \cup {s}
          PROVE  connections' = Cardinality(A')
      <4>1. Cardinality(A') = Cardinality(A) + 1 /\ Cardinality(A) \in Nat
        BY <1>1, <3>1, OneConnection
      <4>2. Cardinality(A') <= Cardinality(AddressSockets)
            /\ Cardinality(A') \in Nat /\ Cardinality(AddressSockets) \in Nat
        <5>1. A' \in SUBSET AddressSockets
              /\ AddressSockets \in SUBSET AddressSockets
          BY <1>1, <3>1
        <5> QED BY <5>1, Group
      <4>3. connections + 1 < Wrap
        BY <1>1, <4>1, <4>2, AddressConstants
      <4>4. connections' = connections + 1
        BY <1>1, <3>1, <4>3, CountResidue
        DEF Address!Count, Address!Incremented, CountInv
      <4> QED BY <1>1, <4>1, <4>4
    <3>2. ASSUME NEW s \in A, Address!OnDisconnect(s), A' = A \ {s}
          PROVE  connections' = Cardinality(A')
      <4>1. Cardinality(A') = Cardinality(A) - 1 /\ Cardinality(A) \in Nat
            /\ Cardinality(A) >= 1
        BY <1>1, <3>2, OneConnection
      <4>2. connections' = IF connections > 0 THEN connections - 1 ELSE connections
        BY <3>2 DEF Address!OnDisconnect
      <4> QED BY <1>1, <4>1, <4>2
    <3>3. CASE A' = A /\ connections' = connections
      BY <1>1, <3>3
    <3> HIDE DEF A
    <3> QED BY <1>1, <1>3, <3>1, <3>2, <3>3, ActiveStep DEF A
  <2>3. Address!CountsConnections'
    BY <2>2, SameCardinality DEF Address!CountsConnections
  <2>4. GroupsFit'
    BY <1>3, <2>3, GroupsFitStep
  <2>5. enabled' = enabled
    BY <1>3 DEF Address!Next, Address!SetSettings, Address!OnPreConnect,
         Address!GetIPData, Address!ReadSettings, Address!Count,
         Address!OnDisconnect, Address!Reuse
  <2>6. \A s \in AddressSockets : seen'[s].enabled
    <3>1. \A s \in AddressSockets : seen'[s] = seen[s] \/
            seen'[s] = [enabled |-> enabled, limit |-> limit]
      BY <1>1, <1>3, ActiveStep DEF Address!Count, Address!OnDisconnect
    <3> QED BY <3>1 DEF CountInv
  <2> QED BY <2>1, <2>3, <2>4, <2>5, <2>6 DEF CountInv
<1> QED BY <1>2, <1>3

\* Nobody is connected yet.
LEMMA AddressInit ==
  ASSUME Address!Init
  PROVE  AddressInv /\ (~MayDisable => CountInv)
<1>1. /\ connections = 0 /\ phase = [s \in AddressSockets |-> "none"]
      /\ enabled \in BOOLEAN /\ (~MayDisable => enabled) /\ limit \in Limits
      /\ seen = [s \in AddressSockets |-> [enabled |-> enabled, limit |-> limit]]
      /\ refused = {}
  BY DEF Address!Init
<1>2. Address!Active = {}
  BY <1>1 DEF Address!Active
<1>3. Address!TypeOK
  <2>1. seen \in [AddressSockets -> Address!Settings]
    BY <1>1 DEF Address!Settings
  <2>2. 0 \in 0 .. Wrap - 1
    BY AddressConstants
  <2> QED BY <1>1, <2>1, <2>2 DEF Address!TypeOK, Address!Phases
<1>4. Cardinality(Address!Active) = 0
  BY <1>2, FS_EmptySet
<1>5. Address!NeverOverCounts /\ Address!CountsConnections
  BY <1>1, <1>4, SameCardinality DEF Address!NeverOverCounts,
                                     Address!CountsConnections
<1>6. GroupsFit
  BY <1>2 DEF GroupsFit, Admitted
<1>7. ~MayDisable => \A s \in AddressSockets : seen[s].enabled
  BY <1>1
<1> QED BY <1>1, <1>3, <1>5, <1>6, <1>7 DEF AddressInv, CountInv

\* A step of the whole is a step of the address, or none for it.
LEMMA AddressSteps == [Next]_vars => [Address!Next]_address_vars
BY DEF Next, vars, address_vars

\* No connection that has ended is still counted, however often the limit is
\* switched on and off and however many sockets an address has: OnDisconnect()
\* never leaves a count that would refuse the address later.
THEOREM NothingOverCounted == Spec => []NeverOverCounts
<1>1. Init => AddressInv
  BY AddressInit DEF Init
<1>2. AddressInv /\ [Next]_vars => AddressInv'
  BY AddressInvStep, AddressSteps
<1>3. AddressInv => NeverOverCounts
  BY DEF AddressInv, NeverOverCounts
<1> QED BY <1>1, <1>2, <1>3, PTL DEF Spec

\* With the limit left on, and fewer sockets of an address at a time than the
\* counter has values, IPData::connections is exact and admits no more than a
\* limit allowed.
THEOREM CountIsExact ==
  ~MayDisable /\ Cardinality(AddressSockets) < Wrap =>
    (Spec => []ConnectionsCounted)
<1> SUFFICES ASSUME ~MayDisable, Cardinality(AddressSockets) < Wrap
             PROVE  Spec => []ConnectionsCounted
  OBVIOUS
<1>1. Init => CountInv
  BY AddressInit DEF Init
<1>2. CountInv /\ [Next]_vars => CountInv'
  BY CountInvStep, AddressSteps
<1>3. CountInv => ConnectionsCounted
  <2> SUFFICES ASSUME CountInv PROVE ConnectionsCounted
    OBVIOUS
  <2>1. Address!LimitHolds
    BY SameCardinality DEF CountInv, GroupsFit, Admitted, Address!LimitHolds
  <2> QED BY <2>1 DEF CountInv, ConnectionsCounted
<1> QED BY <1>1, <1>2, <1>3, PTL DEF Spec

-----------------------------------------------------------------------------
(* Accounts and invites: Accounts. *)

RegTypes == [step : {"idle", "valid", "free", "admin"}, name : Names \cup {Empty},
             invite : Invites \cup {None}, admin : BOOLEAN]

InviteOfReg == {i \in invites : i.id = reg.invite}

\* A registration has room for its account, and the next id is a new one.
RoomForAccount ==
  /\ IsFiniteSet(users)
  /\ reg.step # "idle" => Cardinality(users) < MaxUsers
  /\ \A u \in users : u.id <= Cardinality(users)

\* No id of an invite is given out again.
InvitesIssued ==
  /\ \A i \in invites : i.id \in issued
  /\ \A u \in users : u.invite # None => u.invite \in issued
  /\ reg.invite # None => reg.invite \in issued

\* An invite that an account has, or is about to get, is accepted; the latter
\* has no account yet.
AcceptedStays ==
  /\ \A u \in users, i \in invites : u.invite = i.id => i.accepted
  /\ reg.step \in {"free", "admin"} /\ reg.invite # None =>
       /\ \A u \in users : u.invite # reg.invite
       /\ \A i \in InviteOfReg : i.accepted

\* Who becomes an administrator without an invite found no account.
FirstAdminIsAlone ==
  reg.step = "admin" /\ reg.invite = None /\ reg.admin => users = {}

\* Inductive, whatever administrators do in the middle of a registration.
AccountsInv ==
  /\ Acc!TypeOK /\ (reg.step = "idle" => reg = Acc!Idle)
  /\ RoomForAccount /\ InvitesIssued /\ AcceptedStays /\ FirstAdminIsAlone
  /\ Acc!InviteUsedOnce /\ Acc!OneFirstAdmin

\* The invite of a registration stays as it was found.
InviteKept ==
  /\ ~terminated
  /\ reg.invite # None => \E i \in InviteOfReg : i.name = reg.name
  /\ reg.step # "idle" /\ reg.invite = None => reg.name \notin Acc!InviteNames

\* A name that is registered is nobody else's, and no open invite's.
NameIsFree ==
  /\ reg.step \in {"free", "admin"} /\ reg.name # Empty =>
       reg.name \notin Acc!UserNames
  /\ \A i \in invites : ~i.accepted /\ i.name # Empty => i.name \notin Acc!UserNames
  /\ Acc!UniqueUsernames

\* What it adds that administrators wait for registrations.
WaitInv == InviteKept /\ NameIsFree

\* What is assumed of the constants.
LEMMA AccountsConstants ==
  Empty \notin Names /\ None \notin Invites /\ MaxUsers \in Nat
  /\ Patient \in BOOLEAN
BY PartsAssumption DEF Acc!AccountsAssumption

\* The instance counts as everybody else does.
LEMMA SameCardinalityAcc == \A S : Acc!Cardinality(S) = Cardinality(S)
BY DEF Acc!Cardinality, Cardinality

\* The fields of the registration, idle or not.
LEMMA RegFields ==
  ASSUME Acc!TypeOK
  PROVE  /\ reg \in RegTypes
         /\ Acc!Idle \in RegTypes /\ Acc!Idle.step = "idle"
         /\ Acc!Idle.invite = None /\ Acc!Idle.name = Empty
         /\ Acc!Idle.admin = FALSE
BY DEF Acc!TypeOK, Acc!Idle, RegTypes, Acc!Steps, Acc!AllNames

\* The row that an id finds.
LEMMA RowFound ==
  ASSUME NEW id, Acc!Exists(id)
  PROVE  Acc!Row(id) \in invites /\ Acc!Row(id).id = id
BY DEF Acc!Exists, Acc!Row

\* A registration begins, is found wanting, goes on or is cut off by a crash.
LEMMA RegistrationStep ==
  ASSUME AccountsInv, UNCHANGED <<users, invites, issued, reserved>>,
         terminated' \in BOOLEAN, reg' \in RegTypes,
         reg'.step = "idle" => reg' = Acc!Idle,
         reg'.step # "idle" => Cardinality(users) < MaxUsers,
         reg'.invite # None => reg'.invite \in issued,
         reg'.step \in {"free", "admin"} /\ reg'.invite # None =>
            reg.step \in {"free", "admin"} /\ reg'.invite = reg.invite,
         reg'.step = "admin" /\ reg'.invite = None /\ reg'.admin => users = {}
  PROVE  AccountsInv'
<1>1. Acc!TypeOK'
  BY DEF AccountsInv, Acc!TypeOK, RegTypes, Acc!Steps, Acc!AllNames, Acc!Invite,
         Acc!User
<1>2. RoomForAccount' /\ InvitesIssued' /\ FirstAdminIsAlone'
  BY DEF AccountsInv, RoomForAccount, InvitesIssued, FirstAdminIsAlone
<1>3. AcceptedStays'
  BY DEF AccountsInv, AcceptedStays, InviteOfReg
<1>4. Acc!InviteUsedOnce' /\ Acc!OneFirstAdmin'
  BY DEF AccountsInv, Acc!InviteUsedOnce, Acc!OneFirstAdmin
<1>5. Acc!Idle' = Acc!Idle
  BY DEF Acc!Idle
<1> QED BY <1>1, <1>2, <1>3, <1>4, <1>5 DEF AccountsInv

\* A registration with an invite begins.
LEMMA RegisterInvitedStep ==
  ASSUME AccountsInv, NEW id \in Invites, NEW size, Acc!RegisterInvited(id, size)
  PROVE  AccountsInv'
<1>1. /\ UNCHANGED <<users, invites, issued, reserved, terminated>>
      /\ Cardinality(users) < MaxUsers /\ Acc!Exists(id)
      /\ reg' = [Acc!Idle EXCEPT !.step = "valid", !.name = Acc!Row(id).name,
                                 !.invite = id]
  BY SameCardinalityAcc DEF Acc!RegisterInvited
<1>2. id \in issued /\ Acc!Row(id).name \in Names \cup {Empty}
  BY <1>1, RowFound DEF AccountsInv, InvitesIssued, Acc!TypeOK, Acc!Invite,
                        Acc!AllNames
<1>3. reg' \in RegTypes /\ reg'.step = "valid" /\ reg'.invite = id
  BY <1>1, <1>2, RegFields DEF AccountsInv, RegTypes
<1>4. terminated \in BOOLEAN
  BY DEF AccountsInv, Acc!TypeOK
<1> QED BY <1>1, <1>2, <1>3, <1>4, RegistrationStep

\* A registration without an invite begins.
LEMMA RegisterStep ==
  ASSUME AccountsInv, NEW n \in Names, Acc!Register(n)
  PROVE  AccountsInv'
<1>1. /\ UNCHANGED <<users, invites, issued, reserved, terminated>>
      /\ Cardinality(users) < MaxUsers
      /\ reg' = [Acc!Idle EXCEPT !.step = "valid", !.name = n]
  BY SameCardinalityAcc DEF Acc!Register
<1>2. reg' \in RegTypes /\ reg'.step = "valid" /\ reg'.invite = None
  BY <1>1, RegFields DEF AccountsInv, RegTypes
<1>3. terminated \in BOOLEAN
  BY DEF AccountsInv, Acc!TypeOK
<1> QED BY <1>1, <1>2, <1>3, RegistrationStep

\* The name is looked up.
LEMMA CheckUsernameStep ==
  ASSUME AccountsInv, Acc!CheckUsername
  PROVE  AccountsInv'
<1>1. /\ UNCHANGED <<users, invites, issued, reserved, terminated>>
      /\ reg.step = "valid" /\ reg.invite = None
      /\ reg' = Acc!Idle \/ reg' = [reg EXCEPT !.step = "free"]
  BY DEF Acc!CheckUsername
<1>2. /\ reg' \in RegTypes /\ reg'.invite = None
      /\ reg'.step = "free" \/ reg' = Acc!Idle
  BY <1>1, RegFields DEF AccountsInv, RegTypes
<1>3. terminated \in BOOLEAN /\ Cardinality(users) < MaxUsers
      /\ Acc!Idle.step = "idle"
  BY <1>1, RegFields DEF AccountsInv, Acc!TypeOK, RoomForAccount
<1> QED BY <1>1, <1>2, <1>3, RegistrationStep

\* It is found out whether the account is an administrator's.
LEMMA SelectIsAdminStep ==
  ASSUME AccountsInv, Acc!SelectIsAdmin
  PROVE  AccountsInv'
<1>1. /\ UNCHANGED <<users, invites, issued, reserved>> /\ reg.step = "free"
      /\ terminated' \in BOOLEAN
  BY DEF Acc!SelectIsAdmin
<1>2. CASE reg' = Acc!Idle
  BY <1>1, <1>2, RegFields, RegistrationStep DEF AccountsInv
<1>3. CASE reg' # Acc!Idle
  <2> DEFINE admin == IF reg.invite = None THEN users = {}
                      ELSE Acc!Row(reg.invite).admin
  <2>1. /\ reg.invite = None \/ Acc!Exists(reg.invite)
        /\ reg' = [reg EXCEPT !.step = "admin", !.admin = admin]
    BY <1>3 DEF Acc!SelectIsAdmin
  <2>2. admin \in BOOLEAN /\ (reg.invite = None /\ admin => users = {})
    <3>1. reg.invite # None => Acc!Row(reg.invite).admin \in BOOLEAN
      BY <2>1, RowFound DEF AccountsInv, Acc!TypeOK, Acc!Invite
    <3> QED BY <3>1
  <2> HIDE DEF admin
  <2>3. /\ reg' \in RegTypes /\ reg'.step = "admin" /\ reg'.invite = reg.invite
        /\ reg'.admin = admin
    BY <2>1, <2>2, RegFields DEF AccountsInv, RegTypes
  <2>4. Cardinality(users) < MaxUsers /\ (reg.invite # None => reg.invite \in issued)
    BY <1>1 DEF AccountsInv, RoomForAccount, InvitesIssued
  <2> QED BY <1>1, <2>2, <2>3, <2>4, RegistrationStep
<1> QED BY <1>2, <1>3

\* The server crashes and is started again.
LEMMA CrashStep ==
  ASSUME AccountsInv, Acc!Crash
  PROVE  AccountsInv'
<1>1. UNCHANGED <<users, invites, issued, reserved, terminated>> /\ reg' = Acc!Idle
      /\ terminated \in BOOLEAN
  BY DEF Acc!Crash, AccountsInv, Acc!TypeOK
<1> QED BY <1>1, RegFields, RegistrationStep DEF AccountsInv

\* The invite is accepted: the invites are those there were, with this mark.
LEMMA AcceptInviteStep ==
  ASSUME AccountsInv, Acc!AcceptInvite
  PROVE  AccountsInv'
<1> DEFINE open == {i \in invites : i.id = reg.invite /\ ~i.accepted}
           New(i) == IF i \in open THEN [i EXCEPT !.accepted = TRUE] ELSE i
<1>1. /\ reg.step = "valid" /\ reg.invite # None
      /\ invites' = {New(i) : i \in invites}
      /\ reg' = IF open # {} THEN [reg EXCEPT !.step = "free"] ELSE Acc!Idle
      /\ UNCHANGED <<users, issued, reserved, terminated>>
  BY DEF Acc!AcceptInvite
<1>2. \A i \in invites : i \in Acc!Invite
  BY DEF AccountsInv, Acc!TypeOK
<1>3. ASSUME NEW i \in invites
      PROVE  /\ New(i) \in Acc!Invite /\ New(i).id = i.id /\ New(i).name = i.name
             /\ i.accepted \/ i.id = reg.invite => New(i).accepted
  BY <1>2 DEF Acc!Invite
<1>4. /\ reg' \in RegTypes /\ (reg'.step = "free" \/ reg' = Acc!Idle)
      /\ reg'.step = "free" => reg'.invite = reg.invite /\ open # {}
      /\ Acc!Idle.step = "idle" /\ Acc!Idle.invite = None
  BY <1>1, RegFields DEF AccountsInv, RegTypes
<1> HIDE DEF New
<1>5. Acc!TypeOK'
  <2>1. invites' \subseteq Acc!Invite'
    BY <1>1, <1>3 DEF Acc!Invite, Acc!AllNames
  <2>2. \A i, j \in invites' : i.id = j.id \/ i.name = j.name => i = j
    BY <1>1, <1>3 DEF AccountsInv, Acc!TypeOK
  <2>3. reg' \in RegTypes
    BY <1>4
  <2>4. /\ users' \subseteq Acc!User' /\ issued' \subseteq Invites
        /\ reserved' \subseteq Names /\ terminated' \in BOOLEAN
    BY <1>1 DEF AccountsInv, Acc!TypeOK, Acc!User, Acc!AllNames
  <2> QED BY <2>1, <2>2, <2>3, <2>4
          DEF Acc!TypeOK, RegTypes, Acc!Steps, Acc!AllNames
<1>6. RoomForAccount' /\ FirstAdminIsAlone'
  BY <1>1, <1>4 DEF AccountsInv, RoomForAccount, FirstAdminIsAlone
<1>7. InvitesIssued'
  BY <1>1, <1>3, <1>4 DEF AccountsInv, InvitesIssued
<1>8. AcceptedStays'
  <2>1. \A u \in users', i \in invites' : u.invite = i.id => i.accepted
    BY <1>1, <1>3 DEF AccountsInv, AcceptedStays
  <2>2. ASSUME reg'.step = "free", NEW u \in users PROVE u.invite # reg.invite
    <3>1. PICK i \in invites : i.id = reg.invite /\ ~i.accepted
      BY <1>4, <2>2
    <3> QED BY <3>1 DEF AccountsInv, AcceptedStays
  <2>3. \A i \in InviteOfReg' : reg'.step = "free" => i.accepted
    BY <1>1, <1>3, <1>4 DEF InviteOfReg
  <2> QED BY <1>1, <1>4, <2>1, <2>2, <2>3 DEF AcceptedStays
<1>9. Acc!InviteUsedOnce' /\ Acc!OneFirstAdmin'
  BY <1>1 DEF AccountsInv, Acc!InviteUsedOnce, Acc!OneFirstAdmin
<1>10. reg'.step = "idle" => reg' = Acc!Idle'
  BY <1>4 DEF Acc!Idle
<1> QED BY <1>5, <1>6, <1>7, <1>8, <1>9, <1>10 DEF AccountsInv

\* The account is made.
LEMMA CreateUserStep ==
  ASSUME AccountsInv, Acc!CreateUser
  PROVE  AccountsInv'
<1> DEFINE new == [id |-> Cardinality(users) + 1, name |-> reg.name,
                   admin |-> reg.admin, invite |-> reg.invite]
<1>1. /\ reg.step = "admin" /\ users' = users \cup {new} /\ reg' = Acc!Idle
      /\ UNCHANGED <<invites, issued, reserved, terminated>>
  BY SameCardinalityAcc DEF Acc!CreateUser
<1>2. /\ reg \in RegTypes /\ Acc!Idle \in RegTypes /\ Acc!Idle.step = "idle"
      /\ Acc!Idle.invite = None
  BY RegFields DEF AccountsInv
<1>3. /\ IsFiniteSet(users) /\ Cardinality(users) \in Nat
      /\ Cardinality(users) < MaxUsers
  BY <1>1, FS_CardinalityType DEF AccountsInv, RoomForAccount
<1>4. /\ new.id = Cardinality(users) + 1 /\ new.name = reg.name
      /\ new.admin = reg.admin /\ new.invite = reg.invite /\ new \in Acc!User
  BY <1>2, <1>3, AccountsConstants DEF RegTypes, Acc!User, Acc!AllNames
<1> HIDE DEF new
<1>5. \A u \in users : u.id <= Cardinality(users) /\ u.id \in Nat
  BY DEF AccountsInv, RoomForAccount, Acc!TypeOK, Acc!User
<1>6. new \notin users
  BY <1>3, <1>4, <1>5
<1>7. IsFiniteSet(users') /\ Cardinality(users') = Cardinality(users) + 1
  BY <1>1, <1>3, <1>6, FS_AddElement
<1>8. Acc!TypeOK'
  <2>1. users' \subseteq Acc!User'
    BY <1>1, <1>4 DEF AccountsInv, Acc!TypeOK, Acc!User, Acc!AllNames
  <2> QED BY <1>1, <1>2, <2>1
          DEF AccountsInv, Acc!TypeOK, RegTypes, Acc!Steps, Acc!AllNames, Acc!Invite
<1>9. RoomForAccount'
  <2>1. \A u \in users' : u.id <= Cardinality(users')
    BY <1>1, <1>3, <1>4, <1>5, <1>7
  <2> QED BY <1>1, <1>2, <1>7, <2>1 DEF RoomForAccount
<1>10. InvitesIssued' /\ AcceptedStays' /\ FirstAdminIsAlone'
  <2>1. InvitesIssued'
    BY <1>1, <1>2, <1>4 DEF AccountsInv, InvitesIssued
  <2>2. ASSUME NEW i \in invites, i.id = reg.invite PROVE i.accepted
    <3>1. reg.invite # None
      BY <2>2, AccountsConstants DEF AccountsInv, Acc!TypeOK, Acc!Invite
    <3> QED BY <1>1, <2>2, <3>1 DEF AccountsInv, AcceptedStays, InviteOfReg
  <2>3. AcceptedStays'
    BY <1>1, <1>2, <1>4, <2>2 DEF AccountsInv, AcceptedStays
  <2>4. FirstAdminIsAlone'
    BY <1>1, <1>2 DEF FirstAdminIsAlone
  <2> QED BY <2>1, <2>3, <2>4
<1>11. Acc!InviteUsedOnce'
  BY <1>1, <1>4 DEF AccountsInv, Acc!InviteUsedOnce, AcceptedStays
<1>12. Acc!OneFirstAdmin'
  <2>1. reg.admin /\ reg.invite = None => new.id = 1
    <3>1. Cardinality({}) = 0
      BY FS_EmptySet
    <3> QED BY <1>1, <1>4, <3>1 DEF AccountsInv, FirstAdminIsAlone
  <2> QED BY <1>1, <1>4, <2>1 DEF AccountsInv, Acc!OneFirstAdmin
<1>13. Acc!Idle' = Acc!Idle
  BY DEF Acc!Idle
<1> QED BY <1>1, <1>8, <1>9, <1>10, <1>11, <1>12, <1>13 DEF AccountsInv

\* An administrator changes the invites: those that are there after it have
\* the ids they had, are as accepted as they were, or are new.
LEMMA InvitesStep ==
  ASSUME AccountsInv, UNCHANGED <<users, reserved, reg, terminated>>,
         invites' \subseteq Acc!Invite,
         \A i, j \in invites' : i.id = j.id \/ i.name = j.name => i = j,
         issued \subseteq issued', issued' \subseteq Invites,
         \A i \in invites' :
           \/ i.id \in issued' \ issued
           \/ \E j \in invites : i.id = j.id /\ i.accepted = j.accepted
  PROVE  AccountsInv'
<1>1. Acc!TypeOK'
  BY DEF AccountsInv, Acc!TypeOK, Acc!Invite, Acc!User, Acc!AllNames, Acc!Steps
<1>2. InvitesIssued'
  BY DEF AccountsInv, InvitesIssued
<1>3. AcceptedStays'
  <2>1. \A u \in users, i \in invites' : u.invite = i.id => i.accepted
    <3> SUFFICES ASSUME NEW u \in users, NEW i \in invites', u.invite = i.id
                 PROVE  i.accepted
      OBVIOUS
    <3>1. i.id \in Invites /\ i.id # None
      BY AccountsConstants DEF Acc!Invite
    <3>2. i.id \in issued
      BY <3>1 DEF AccountsInv, InvitesIssued
    <3> QED BY <3>2 DEF AccountsInv, AcceptedStays
  <2>2. ASSUME reg.step \in {"free", "admin"}, reg.invite # None,
               NEW i \in InviteOfReg'
        PROVE  i.accepted
    <3>1. i \in invites' /\ i.id = reg.invite /\ i.id \in issued
      BY <2>2 DEF InviteOfReg, AccountsInv, InvitesIssued
    <3>2. PICK j \in invites : i.id = j.id /\ i.accepted = j.accepted
      BY <3>1
    <3> QED BY <2>2, <3>1, <3>2 DEF AccountsInv, AcceptedStays, InviteOfReg
  <2> QED BY <2>1, <2>2 DEF AccountsInv, AcceptedStays
<1>4. RoomForAccount' /\ FirstAdminIsAlone' /\ Acc!InviteUsedOnce'
      /\ Acc!OneFirstAdmin' /\ (reg'.step = "idle" => reg' = Acc!Idle')
  BY DEF AccountsInv, RoomForAccount, FirstAdminIsAlone, Acc!InviteUsedOnce,
         Acc!OneFirstAdmin, Acc!Idle
<1> QED BY <1>1, <1>2, <1>3, <1>4 DEF AccountsInv

\* Creating, changing and deleting an invite are such changes.
LEMMA ChangeInvitesStep ==
  ASSUME AccountsInv, NEW id \in Invites, NEW n \in Names \cup {Empty},
         NEW admin \in BOOLEAN,
         \/ Acc!CreateInvite(id, n, admin) \/ Acc!UpdateInvite(id, n, admin)
         \/ Acc!DeleteInvite(id)
  PROVE  AccountsInv'
<1>1. /\ invites \subseteq Acc!Invite /\ issued \subseteq Invites
      /\ \A i, j \in invites : i.id = j.id \/ i.name = j.name => i = j
      /\ \A i \in invites : i.id \in issued
  BY DEF AccountsInv, Acc!TypeOK, InvitesIssued
<1>2. CASE Acc!CreateInvite(id, n, admin)
  <2> DEFINE new == [id |-> id, name |-> n, admin |-> admin, accepted |-> FALSE]
  <2>1. /\ id \notin issued /\ n \notin Acc!InviteNames
        /\ issued' = issued \cup {id} /\ invites' = invites \cup {new}
        /\ UNCHANGED <<users, reserved, reg, terminated>>
    BY <1>2 DEF Acc!CreateInvite
  <2>2. new \in Acc!Invite /\ new.id = id /\ new.name = n
    BY DEF Acc!Invite, Acc!AllNames
  <2> HIDE DEF new
  <2>3. \A i \in invites : i.id # id /\ i.name # n
    BY <1>1, <2>1 DEF Acc!InviteNames
  <2> QED BY <1>1, <2>1, <2>2, <2>3, InvitesStep
<1>3. CASE Acc!UpdateInvite(id, n, admin)
  <2> DEFINE New(i) == IF i.id = id THEN [i EXCEPT !.name = n, !.admin = admin]
                       ELSE i
  <2>1. /\ \A i \in invites : i.name = n => i.id = id
        /\ invites' = {New(i) : i \in invites}
        /\ UNCHANGED <<users, issued, reserved, reg, terminated>>
    BY <1>3 DEF Acc!UpdateInvite
  <2>2. ASSUME NEW i \in invites
        PROVE  /\ New(i) \in Acc!Invite /\ New(i).id = i.id
               /\ New(i).accepted = i.accepted
               /\ New(i).name = IF i.id = id THEN n ELSE i.name
    BY <1>1 DEF Acc!Invite, Acc!AllNames
  <2> HIDE DEF New
  <2>3. \A i, j \in invites' : i.id = j.id \/ i.name = j.name => i = j
    <3> SUFFICES ASSUME NEW i \in invites, NEW j \in invites,
                        New(i).id = New(j).id \/ New(i).name = New(j).name
                 PROVE  i = j
      BY <2>1
    <3> QED BY <1>1, <2>1, <2>2
  <2>4. invites' \subseteq Acc!Invite
    BY <2>1, <2>2
  <2>5. \A i \in invites' : \E j \in invites : i.id = j.id /\ i.accepted = j.accepted
    BY <2>1, <2>2
  <2> QED BY <1>1, <2>1, <2>3, <2>4, <2>5, InvitesStep
<1>4. CASE Acc!DeleteInvite(id)
  <2>1. /\ invites' \subseteq invites
        /\ UNCHANGED <<users, issued, reserved, reg, terminated>>
    BY <1>4 DEF Acc!DeleteInvite
  <2> QED BY <1>1, <2>1, InvitesStep
<1> QED BY <1>2, <1>3, <1>4

\* Reserved names are not looked at.
LEMMA ReservedStep ==
  ASSUME AccountsInv, UNCHANGED <<users, invites, issued, reg, terminated>>,
         reserved' \subseteq Names
  PROVE  AccountsInv'
<1>1. Acc!TypeOK'
  BY DEF AccountsInv, Acc!TypeOK, Acc!Invite, Acc!User, Acc!AllNames, Acc!Steps
<1>2. RoomForAccount' /\ InvitesIssued' /\ AcceptedStays' /\ FirstAdminIsAlone'
  BY DEF AccountsInv, RoomForAccount, InvitesIssued, AcceptedStays,
         InviteOfReg, FirstAdminIsAlone
<1>3. /\ Acc!InviteUsedOnce' /\ Acc!OneFirstAdmin'
      /\ reg'.step = "idle" => reg' = Acc!Idle'
  BY DEF AccountsInv, Acc!InviteUsedOnce, Acc!OneFirstAdmin, Acc!Idle
<1> QED BY <1>1, <1>2, <1>3 DEF AccountsInv

\* Every step of the accounts keeps the invariant.
LEMMA AccountsInvStep ==
  ASSUME AccountsInv, [Acc!Next]_acc_vars
  PROVE  AccountsInv'
<1>1. reserved \subseteq Names
  BY DEF AccountsInv, Acc!TypeOK
<1>2. CASE UNCHANGED acc_vars
  BY <1>1, <1>2, ReservedStep DEF acc_vars
<1>3. ASSUME NEW n \in Names,
             Acc!CreateReservedUsername(n) \/ Acc!DeleteReservedUsername(n)
      PROVE  AccountsInv'
  BY <1>1, <1>3, ReservedStep
  DEF Acc!CreateReservedUsername, Acc!DeleteReservedUsername
<1>4. CASE Acc!RegStep
  BY <1>4, AcceptInviteStep, CheckUsernameStep, SelectIsAdminStep, CreateUserStep
  DEF Acc!RegStep
<1>5. CASE Acc!Crash
  BY <1>5, CrashStep
<1>6. ASSUME NEW id \in Invites, NEW size, Acc!RegisterInvited(id, size)
      PROVE  AccountsInv'
  BY <1>6, RegisterInvitedStep
<1>7. ASSUME NEW id \in Invites, Acc!DeleteInvite(id) PROVE AccountsInv'
  <2>1. Empty \in Names \cup {Empty} /\ TRUE \in BOOLEAN
    OBVIOUS
  <2> QED BY <1>7, <2>1, ChangeInvitesStep
<1>8. ASSUME NEW id \in Invites, NEW n \in Names \cup {Empty}, NEW admin \in BOOLEAN,
             Acc!CreateInvite(id, n, admin) \/ Acc!UpdateInvite(id, n, admin)
      PROVE  AccountsInv'
  BY <1>8, ChangeInvitesStep
<1>9. ASSUME NEW n \in Names, Acc!Register(n) PROVE AccountsInv'
  BY <1>9, RegisterStep
<1> QED BY <1>2, <1>3, <1>4, <1>5, <1>6, <1>7, <1>8, <1>9
        DEF Acc!Next, Acc!AllNames

\* Every step of the accounts keeps the rest, if administrators wait.
LEMMA WaitInvStep ==
  ASSUME AccountsInv, WaitInv, Patient, [Acc!Next]_acc_vars
  PROVE  WaitInv'
<1>1. /\ reg \in RegTypes /\ Acc!Idle.step = "idle" /\ Acc!Idle.invite = None
      /\ invites \subseteq Acc!Invite
      /\ \A i, j \in invites : i.id = j.id \/ i.name = j.name => i = j
  BY RegFields DEF AccountsInv, Acc!TypeOK
<1>2. CASE UNCHANGED acc_vars
  BY <1>2 DEF acc_vars, WaitInv, InviteKept, NameIsFree, InviteOfReg,
              Acc!InviteNames, Acc!UserNames, Acc!UniqueUsernames
<1>3. ASSUME NEW n \in Names,
             Acc!CreateReservedUsername(n) \/ Acc!DeleteReservedUsername(n)
      PROVE  WaitInv'
  <2>1. UNCHANGED <<users, invites, reg, terminated>>
    BY <1>3 DEF Acc!CreateReservedUsername, Acc!DeleteReservedUsername
  <2> QED BY <2>1 DEF WaitInv, InviteKept, NameIsFree, InviteOfReg,
                      Acc!InviteNames, Acc!UserNames, Acc!UniqueUsernames
<1>4. ASSUME UNCHANGED <<users, invites, terminated>>,
             reg' = Acc!Idle \/ reg'.step = "valid" \/
               (reg'.step \in {"free", "admin"} /\ reg'.name \notin Acc!UserNames)
               \/ (reg'.step = "admin" /\ reg.step = "free" /\ reg'.name = reg.name),
             reg'.invite # None => \E i \in invites : i.id = reg'.invite
                                                    /\ i.name = reg'.name,
             reg'.step # "idle" /\ reg'.invite = None =>
               reg'.name \notin Acc!InviteNames
      PROVE  WaitInv'
  <2>1. InviteKept'
    BY <1>4 DEF WaitInv, InviteKept, InviteOfReg, Acc!InviteNames
  <2>2. reg'.step \in {"free", "admin"} /\ reg'.name # Empty =>
          reg'.name \notin Acc!UserNames
    BY <1>1, <1>4 DEF WaitInv, NameIsFree
  <2>3. Acc!UserNames' = Acc!UserNames /\ Acc!UniqueUsernames'
    BY <1>4 DEF WaitInv, NameIsFree, Acc!UserNames, Acc!UniqueUsernames
  <2> QED BY <1>4, <2>1, <2>2, <2>3 DEF WaitInv, NameIsFree
<1>5. ASSUME NEW id \in Invites, NEW size, Acc!RegisterInvited(id, size)
      PROVE  WaitInv'
  <2>1. /\ UNCHANGED <<users, invites, terminated>> /\ Acc!Exists(id)
        /\ reg' = [Acc!Idle EXCEPT !.step = "valid", !.name = Acc!Row(id).name,
                                   !.invite = id]
    BY <1>5 DEF Acc!RegisterInvited
  <2>2. reg'.step = "valid" /\ reg'.invite = id /\ reg'.name = Acc!Row(id).name
    BY <2>1 DEF Acc!Idle
  <2> QED BY <1>4, <2>1, <2>2, RowFound, AccountsConstants
<1>6. ASSUME NEW n \in Names, Acc!Register(n) PROVE WaitInv'
  <2>1. /\ UNCHANGED <<users, invites, terminated>> /\ n \notin Acc!InviteNames
        /\ reg' = [Acc!Idle EXCEPT !.step = "valid", !.name = n]
    BY <1>6 DEF Acc!Register
  <2>2. reg'.step = "valid" /\ reg'.invite = None /\ reg'.name = n
    BY <2>1 DEF Acc!Idle
  <2> QED BY <1>4, <2>1, <2>2
<1>7. CASE Acc!CheckUsername
  <2>1. /\ UNCHANGED <<users, invites, terminated>>
        /\ reg.step = "valid" /\ reg.invite = None
        /\ \/ reg' = Acc!Idle
           \/ reg.name \notin Acc!UserNames /\ reg' = [reg EXCEPT !.step = "free"]
    BY <1>7 DEF Acc!CheckUsername
  <2>2. CASE reg' = Acc!Idle
    BY <1>1, <1>4, <2>1, <2>2
  <2>3. CASE reg' # Acc!Idle
    <3>1. /\ reg'.step = "free" /\ reg'.invite = None /\ reg'.name = reg.name
          /\ reg.name \notin Acc!UserNames
      BY <1>1, <2>1, <2>3 DEF RegTypes
    <3>2. reg.name \notin Acc!InviteNames
      BY <2>1 DEF WaitInv, InviteKept
    <3> QED BY <1>4, <2>1, <3>1, <3>2
  <2> QED BY <2>2, <2>3
<1>8. CASE Acc!SelectIsAdmin
  <2>1. reg.step = "free" /\ UNCHANGED <<users, invites>>
    BY <1>8 DEF Acc!SelectIsAdmin
  <2>2. reg.invite = None \/ Acc!Exists(reg.invite)
    BY DEF WaitInv, InviteKept, InviteOfReg, Acc!Exists
  <2>3. ~terminated'
    BY <1>8, <2>2 DEF Acc!SelectIsAdmin, WaitInv, InviteKept
  <2>4. PICK admin : reg' = [reg EXCEPT !.step = "admin", !.admin = admin]
    BY <1>8, <2>2 DEF Acc!SelectIsAdmin
  <2>5. reg'.step = "admin" /\ reg'.invite = reg.invite /\ reg'.name = reg.name
    BY <1>1, <2>4 DEF RegTypes
  <2>6. InviteKept'
    BY <2>1, <2>3, <2>5 DEF WaitInv, InviteKept, InviteOfReg, Acc!InviteNames
  <2>7. NameIsFree'
    BY <2>1, <2>5 DEF WaitInv, NameIsFree, Acc!UserNames, Acc!UniqueUsernames
  <2> QED BY <2>6, <2>7 DEF WaitInv
<1>9. CASE Acc!Crash
  <2>1. UNCHANGED <<users, invites, terminated>> /\ reg' = Acc!Idle
    BY <1>9 DEF Acc!Crash
  <2> QED BY <1>1, <1>4, <2>1
<1>10. CASE Acc!AcceptInvite
  <2> DEFINE open == {i \in invites : i.id = reg.invite /\ ~i.accepted}
             New(i) == IF i \in open THEN [i EXCEPT !.accepted = TRUE] ELSE i
  <2>1. /\ reg.step = "valid" /\ reg.invite # None
        /\ invites' = {New(i) : i \in invites}
        /\ reg' = IF open # {} THEN [reg EXCEPT !.step = "free"] ELSE Acc!Idle
        /\ UNCHANGED <<users, terminated>>
    BY <1>10 DEF Acc!AcceptInvite
  <2>2. ASSUME NEW i \in invites
        PROVE  /\ New(i).id = i.id /\ New(i).name = i.name
               /\ ~New(i).accepted => ~i.accepted
    BY <1>1 DEF Acc!Invite
  <2> HIDE DEF New
  <2>3. /\ reg' = Acc!Idle \/ (reg'.step = "free" /\ reg'.invite = reg.invite
                                 /\ reg'.name = reg.name)
        /\ reg' # Acc!Idle => open # {}
    BY <1>1, <2>1 DEF RegTypes
  <2>4. InviteKept'
    BY <1>1, <2>1, <2>2, <2>3 DEF WaitInv, InviteKept, InviteOfReg
  <2>5. ASSUME reg' # Acc!Idle, reg.name # Empty PROVE reg.name \notin Acc!UserNames
    <3>1. PICK i \in invites : i.id = reg.invite /\ ~i.accepted
      BY <2>3, <2>5
    <3>2. i.name = reg.name
      BY <1>1, <2>1, <3>1 DEF WaitInv, InviteKept, InviteOfReg
    <3> QED BY <2>5, <3>1, <3>2 DEF WaitInv, NameIsFree
  <2>6. Acc!UserNames' = Acc!UserNames /\ Acc!UniqueUsernames'
    BY <2>1 DEF WaitInv, NameIsFree, Acc!UserNames, Acc!UniqueUsernames
  <2>7. \A i \in invites' : ~i.accepted /\ i.name # Empty => i.name \notin Acc!UserNames
    BY <2>1, <2>2 DEF WaitInv, NameIsFree
  <2>8. NameIsFree'
    BY <1>1, <2>3, <2>5, <2>6, <2>7 DEF NameIsFree
  <2> QED BY <2>4, <2>8 DEF WaitInv
<1>11. CASE Acc!CreateUser
  <2> DEFINE new == [id |-> Cardinality(users) + 1, name |-> reg.name,
                     admin |-> reg.admin, invite |-> reg.invite]
  <2>1. /\ reg.step = "admin" /\ users' = users \cup {new} /\ reg' = Acc!Idle
        /\ UNCHANGED <<invites, terminated>>
    BY <1>11, SameCardinalityAcc DEF Acc!CreateUser
  <2>2. new.name = reg.name
    OBVIOUS
  <2> HIDE DEF new
  <2>3. InviteKept'
    BY <1>1, <2>1 DEF WaitInv, InviteKept
  <2>4. reg.name # Empty => reg.name \notin Acc!UserNames
    BY <2>1 DEF WaitInv, NameIsFree
  <2>5. Acc!UserNames' = Acc!UserNames \cup {reg.name}
    BY <2>1, <2>2 DEF Acc!UserNames
  <2>6. Acc!UniqueUsernames'
    BY <2>1, <2>2, <2>4 DEF WaitInv, NameIsFree, Acc!UniqueUsernames, Acc!UserNames
  <2>7. ASSUME NEW i \in invites, ~i.accepted PROVE i.name # reg.name
    <3>1. CASE reg.invite = None
      BY <2>1, <3>1 DEF WaitInv, InviteKept, Acc!InviteNames
    <3>2. CASE reg.invite # None
      BY <1>1, <2>1, <2>7, <3>2
      DEF WaitInv, InviteKept, AccountsInv, AcceptedStays, InviteOfReg
    <3> QED BY <3>1, <3>2
  <2>8. NameIsFree'
    BY <1>1, <2>1, <2>5, <2>6, <2>7 DEF WaitInv, NameIsFree
  <2> QED BY <2>3, <2>8 DEF WaitInv
<1>12. ASSUME reg = Acc!Idle, UNCHANGED <<users, reg, terminated>>,
              \A i \in invites' : ~i.accepted /\ i.name # Empty =>
                i.name \notin Acc!UserNames
       PROVE  WaitInv'
  <2>1. InviteKept'
    BY <1>1, <1>12 DEF WaitInv, InviteKept
  <2>2. Acc!UserNames' = Acc!UserNames /\ Acc!UniqueUsernames'
    BY <1>12 DEF WaitInv, NameIsFree, Acc!UserNames, Acc!UniqueUsernames
  <2>3. NameIsFree'
    BY <1>1, <1>12, <2>2 DEF NameIsFree
  <2> QED BY <2>1, <2>3 DEF WaitInv
<1>13. ASSUME NEW id \in Invites, Acc!DeleteInvite(id) PROVE WaitInv'
  <2>1. reg = Acc!Idle /\ UNCHANGED <<users, reg, terminated>> /\ invites' \subseteq invites
    BY <1>13 DEF Acc!DeleteInvite, Acc!MayChange
  <2> QED BY <1>12, <2>1 DEF WaitInv, NameIsFree
<1>14. ASSUME NEW id \in Invites, NEW n \in Names \cup {Empty},
              NEW admin \in BOOLEAN, Acc!CreateInvite(id, n, admin)
       PROVE  WaitInv'
  <2> DEFINE new == [id |-> id, name |-> n, admin |-> admin, accepted |-> FALSE]
  <2>1. /\ reg = Acc!Idle /\ UNCHANGED <<users, reg, terminated>>
        /\ n # Empty => n \notin Acc!UserNames
        /\ invites' = invites \cup {new}
    BY <1>14 DEF Acc!CreateInvite, Acc!MayChange
  <2>2. new.name = n
    OBVIOUS
  <2> HIDE DEF new
  <2> QED BY <1>12, <2>1, <2>2 DEF WaitInv, NameIsFree
<1>15. ASSUME NEW id \in Invites, NEW n \in Names \cup {Empty},
              NEW admin \in BOOLEAN, Acc!UpdateInvite(id, n, admin)
       PROVE  WaitInv'
  <2> DEFINE New(i) == IF i.id = id THEN [i EXCEPT !.name = n, !.admin = admin]
                       ELSE i
  <2>1. /\ reg = Acc!Idle /\ UNCHANGED <<users, reg, terminated>>
        /\ n \notin Acc!UserNames /\ invites' = {New(i) : i \in invites}
    BY <1>15 DEF Acc!UpdateInvite, Acc!MayChange
  <2>2. ASSUME NEW i \in invites
        PROVE  New(i).accepted = i.accepted /\ New(i).name \in {n, i.name}
    BY <1>1 DEF Acc!Invite
  <2> HIDE DEF New
  <2>3. \A i \in invites' : ~i.accepted /\ i.name # Empty => i.name \notin Acc!UserNames
    BY <2>1, <2>2 DEF WaitInv, NameIsFree
  <2> QED BY <1>12, <2>1, <2>3
<1> QED BY <1>2, <1>3, <1>5, <1>6, <1>7, <1>8, <1>9, <1>10, <1>11, <1>13, <1>14,
           <1>15
        DEF Acc!Next, Acc!RegStep, Acc!AllNames

\* There are no accounts at first.
LEMMA AccountsInit ==
  ASSUME Acc!Init
  PROVE  AccountsInv /\ WaitInv
<1>1. IsFiniteSet({}) /\ Cardinality({}) = 0
  BY FS_EmptySet
<1>2. /\ users = {} /\ invites = {} /\ issued = {} /\ reserved = {}
      /\ reg = Acc!Idle /\ terminated = FALSE
      /\ Acc!Idle.step = "idle" /\ Acc!Idle.invite = None
  BY DEF Acc!Init, Acc!Idle
<1>3. Acc!TypeOK
  BY <1>2 DEF Acc!TypeOK, Acc!Idle, Acc!Steps, Acc!AllNames
<1>4. AccountsInv
  BY <1>1, <1>2, <1>3
  DEF AccountsInv, RoomForAccount, InvitesIssued, AcceptedStays,
      FirstAdminIsAlone, Acc!InviteUsedOnce, Acc!OneFirstAdmin
<1>5. WaitInv
  BY <1>2 DEF WaitInv, InviteKept, NameIsFree, Acc!UniqueUsernames
<1> QED BY <1>4, <1>5

\* A step of the whole is one of the accounts, or leaves them alone.
LEMMA AccountsSteps == [Next]_vars => [Acc!Next]_acc_vars
BY DEF Next, vars, acc_vars

\* Whatever administrators do in the middle of a registration, and wherever
\* the server crashes: no invite makes two accounts, and only the first
\* account is an administrator's without one.
InvitesSound == Acc!TypeOK /\ Acc!InviteUsedOnce /\ Acc!OneFirstAdmin

\* CreateAccount(): an invite is good for one account and the first account
\* alone is made an administrator's, with no assumption on administrators.
THEOREM InvitesAreSound == Spec => []InvitesSound
<1>1. Init => AccountsInv
  BY AccountsInit DEF Init
<1>2. AccountsInv /\ [Next]_vars => AccountsInv'
  BY AccountsInvStep, AccountsSteps
<1>3. AccountsInv => InvitesSound
  BY DEF AccountsInv, InvitesSound
<1> QED BY <1>1, <1>2, <1>3, PTL DEF Spec

\* With administrators that wait for registrations, usernames are unique too
\* and no registration meets an invite that has gone.
THEOREM AccountsAreSound == Patient => (Spec => []AccountsSound)
<1> SUFFICES ASSUME Patient PROVE Spec => []AccountsSound
  OBVIOUS
<1>1. Init => AccountsInv /\ WaitInv
  BY AccountsInit DEF Init
<1>2. AccountsInv /\ WaitInv /\ [Next]_vars => AccountsInv' /\ WaitInv'
  BY AccountsInvStep, WaitInvStep, AccountsSteps
<1>3. AccountsInv /\ WaitInv => AccountsSound
  BY DEF AccountsInv, WaitInv, AccountsSound, NameIsFree, InviteKept,
         Acc!NeverTerminates
<1> QED BY <1>1, <1>2, <1>3, PTL DEF Spec

-----------------------------------------------------------------------------
(* Logins, passwords and sessions: Sessions, with a single I/O thread. *)

\* What is begun is finished before anything else is begun.
OneAtATime ==
  /\ Len(creates) <= 1
  /\ creates # <<>> => creating = Ses!Idle /\ changing = Ses!Idle
  /\ creating # Ses!Idle => changing = Ses!Idle /\ issued_sessions < MaxSessions

\* A copy of a row is the row, and a session is created for its password.
CopiesAreCurrent ==
  /\ changing # Ses!Idle => changing.row = row[changing.account]
  /\ creating # Ses!Idle =>
       /\ creating.row = row[creating.account]
       /\ creating.password = row[creating.account].hash
  /\ creates # <<>> => row[creates[1].account].hash = creates[1].password

\* Inductive for a single thread.
SessionsInv ==
  /\ Ses!TypeOK /\ OneAtATime /\ CopiesAreCurrent
  /\ Ses!PasswordSticks /\ Ses!NewestIsStored
  /\ \A a \in Accounts : row[a].session <= issued_sessions

Changing == [account : Accounts, new : Passwords, row : Ses!Row]
Creating == [account : Accounts, socket : LoginSockets, password : Passwords,
             row : Ses!Row]

\* What is assumed of the constants.
LEMMA SessionsConstants ==
  /\ Nobody \notin Accounts /\ None \notin Passwords
  /\ MaxSessions \in Nat
BY PartsAssumption DEF Ses!SessionsAssumption

\* The types of the rows do not change.
LEMMA SessionsRigid ==
  /\ Ses!Row' = Ses!Row /\ Ses!Login' = Ses!Login /\ Ses!Change' = Ses!Change
  /\ Ses!Create' = Ses!Create /\ Ses!Idle' = Ses!Idle
BY DEF Ses!Row, Ses!Login, Ses!Change, Ses!Create, Ses!Idle

\* The first of the tasks that wait.
LEMMA FirstTask ==
  ASSUME NEW S, NEW q \in Seq(S), q # <<>>
  PROVE  /\ q[1] \in S /\ Head(q) = q[1] /\ Tail(q) \in Seq(S)
         /\ Len(q) <= 1 => Tail(q) = <<>>
BY HeadTailProperties, EmptySeq

\* A single task.
LEMMA SingleTask ==
  ASSUME NEW S, NEW t \in S
  PROVE  /\ Append(<<>>, t) \in Seq(S) /\ Append(<<>>, t) # <<>>
         /\ Append(<<>>, t)[1] = t /\ Len(Append(<<>>, t)) = 1
         /\ <<>> \in Seq(S) /\ Len(<<>>) = 0
OBVIOUS

\* Steps that write no row and create no session.
LEMMA RowsKept ==
  ASSUME SessionsInv, UNCHANGED <<row, issued_sessions, sessions, user, told>>,
         logins' \in Seq(Ses!Login \cup Ses!Change), creates' \in Seq(Ses!Create),
         changing' \in {Ses!Idle} \cup Changing,
         creating' \in {Ses!Idle} \cup Creating,
         OneAtATime', CopiesAreCurrent'
  PROVE  SessionsInv'
<1>1. Ses!TypeOK'
  BY SessionsRigid DEF SessionsInv, Ses!TypeOK, Changing, Creating
<1>2. Ses!PasswordSticks' /\ Ses!NewestIsStored'
  BY DEF SessionsInv, Ses!PasswordSticks, Ses!NewestIsStored
<1> QED BY <1>1, <1>2 DEF SessionsInv

\* A client asks for a login or a new password.
LEMMA RequestStep ==
  ASSUME SessionsInv, NEW t \in Ses!Login \cup Ses!Change,
         logins' = Append(logins, t),
         UNCHANGED <<row, issued_sessions, sessions, user, creates, changing,
                     creating, told>>
  PROVE  SessionsInv'
<1>1. logins' \in Seq(Ses!Login \cup Ses!Change)
  BY AppendProperties DEF SessionsInv, Ses!TypeOK
<1>2. /\ creates' \in Seq(Ses!Create) /\ changing' \in {Ses!Idle} \cup Changing
      /\ creating' \in {Ses!Idle} \cup Creating
  BY DEF SessionsInv, Ses!TypeOK, Changing, Creating
<1>3. OneAtATime' /\ CopiesAreCurrent'
  BY SessionsRigid DEF SessionsInv, OneAtATime, CopiesAreCurrent
<1> QED BY <1>1, <1>2, <1>3, RowsKept

\* A login whose password is right is followed by a session.
LEMMA RunLoginStep ==
  ASSUME SessionsInv, OneThread, Ses!RunLogin
  PROVE  SessionsInv'
<1> DEFINE t == Head(logins)
           c == [socket |-> t.socket, account |-> t.account,
                 password |-> t.password]
<1>1. /\ creates = <<>> /\ creating = Ses!Idle /\ changing = Ses!Idle
      /\ logins # <<>> /\ t.kind = "login" /\ logins' = Tail(logins)
      /\ UNCHANGED <<row, issued_sessions, sessions, user, changing, creating, told>>
  BY DEF Ses!RunLogin, Ses!Free
<1>2. \/ creates' = creates
      \/ row[t.account].hash = t.password /\ creates' = Append(creates, c)
  BY DEF Ses!RunLogin
<1>3. logins \in Seq(Ses!Login \cup Ses!Change)
  BY DEF SessionsInv, Ses!TypeOK
<1>4. t \in Ses!Login \cup Ses!Change /\ Tail(logins) \in Seq(Ses!Login \cup Ses!Change)
  BY <1>1, <1>3, FirstTask
<1>5. t \in Ses!Login
  BY <1>1, <1>4 DEF Ses!Change
<1>6. c \in Ses!Create /\ c.account = t.account /\ c.password = t.password
  BY <1>5 DEF Ses!Login, Ses!Create
<1> HIDE DEF t, c
<1>7. /\ creates' \in Seq(Ses!Create) /\ Len(creates') <= 1
      /\ creates' # <<>> => /\ creates'[1] = c
                            /\ row[t.account].hash = t.password
  <2>1. creates' = <<>> \/ creates' = Append(<<>>, c)
    BY <1>1, <1>2
  <2>2. CASE creates' = <<>>
    BY <1>6, <2>2, SingleTask
  <2>3. CASE creates' # <<>>
    <3>1. creates' = Append(<<>>, c) /\ row[t.account].hash = t.password
      BY <1>1, <1>2, <2>1, <2>3
    <3> QED BY <1>6, <3>1, SingleTask
  <2> QED BY <2>2, <2>3
<1>8. OneAtATime' /\ CopiesAreCurrent'
  BY <1>1, <1>6, <1>7, SessionsRigid DEF OneAtATime, CopiesAreCurrent
<1> QED BY <1>1, <1>4, <1>7, <1>8, RowsKept

\* ChangePassword() reads the row.
LEMMA ReadForChangeStep ==
  ASSUME SessionsInv, OneThread, Ses!ReadForChange
  PROVE  SessionsInv'
<1> DEFINE t == Head(logins)
           c == [account |-> t.account, new |-> t.new, row |-> row[t.account]]
<1>1. /\ creates = <<>> /\ creating = Ses!Idle /\ changing = Ses!Idle
      /\ logins # <<>> /\ t.kind = "change" /\ logins' = Tail(logins)
      /\ UNCHANGED <<row, issued_sessions, sessions, user, creates, creating, told>>
      /\ changing' = Ses!Idle \/ changing' = c
  BY DEF Ses!ReadForChange, Ses!Free
<1>2. logins \in Seq(Ses!Login \cup Ses!Change)
  BY DEF SessionsInv, Ses!TypeOK
<1>3. t \in Ses!Login \cup Ses!Change /\ Tail(logins) \in Seq(Ses!Login \cup Ses!Change)
  BY <1>1, <1>2, FirstTask
<1>4. t \in Ses!Change
  BY <1>1, <1>3 DEF Ses!Login
<1>5. c \in Changing /\ c.row = row[c.account]
  BY <1>4 DEF Ses!Change, Changing, SessionsInv, Ses!TypeOK
<1> HIDE DEF t, c
<1>6. OneAtATime' /\ CopiesAreCurrent'
  BY <1>1, <1>5, SessionsRigid, SingleTask DEF OneAtATime, CopiesAreCurrent
<1>7. creates' \in Seq(Ses!Create)
  BY <1>1 DEF SessionsInv, Ses!TypeOK
<1> QED BY <1>1, <1>3, <1>5, <1>6, <1>7, RowsKept

\* CreateSession() reads the row.
LEMMA ReadForCreateStep ==
  ASSUME SessionsInv, Ses!ReadForCreate
  PROVE  SessionsInv'
<1> DEFINE t == Head(creates)
           c == [account |-> t.account, socket |-> t.socket,
                 password |-> t.password, row |-> row[t.account]]
<1>1. /\ creates # <<>> /\ creating = Ses!Idle
      /\ creates' = Tail(creates) /\ creating' = c
      /\ UNCHANGED <<row, issued_sessions, sessions, user, logins, changing, told>>
  BY DEF Ses!ReadForCreate
<1>2. creates \in Seq(Ses!Create) /\ Len(creates) <= 1 /\ changing = Ses!Idle
  BY <1>1 DEF SessionsInv, Ses!TypeOK, OneAtATime
<1>3. t = creates[1] /\ t \in Ses!Create /\ Tail(creates) = <<>>
  BY <1>1, <1>2, FirstTask
<1>4. row[t.account].hash = t.password
  BY <1>1, <1>3 DEF SessionsInv, CopiesAreCurrent
<1>5. c \in Creating /\ c.row = row[c.account] /\ c.password = row[c.account].hash
  BY <1>3, <1>4 DEF Ses!Create, Creating, SessionsInv, Ses!TypeOK
<1> HIDE DEF t, c
<1>6. creates' = <<>> /\ <<>> \in Seq(Ses!Create) /\ Len(<<>>) = 0
  BY <1>1, <1>3
<1>7. OneAtATime' /\ CopiesAreCurrent'
  <2>1. issued_sessions < MaxSessions
    BY DEF Ses!ReadForCreate
  <2> QED BY <1>1, <1>2, <1>5, <1>6, <2>1, SessionsRigid
          DEF OneAtATime, CopiesAreCurrent
<1>8. logins' \in Seq(Ses!Login \cup Ses!Change) /\ changing' \in {Ses!Idle} \cup Changing
  BY <1>1, <1>2 DEF SessionsInv, Ses!TypeOK
<1> QED BY <1>1, <1>5, <1>6, <1>7, <1>8, RowsKept

\* A row is written with another password, which the client is told of.
LEMMA HashWritten ==
  ASSUME SessionsInv, NEW a \in Accounts, NEW p \in Passwords,
         row' = [row EXCEPT ![a] = [row[a] EXCEPT !.hash = p]],
         told' = [told EXCEPT ![a] = p],
         UNCHANGED <<issued_sessions, sessions, user, logins>>,
         creates' \in Seq(Ses!Create), changing' = Ses!Idle, creating' = Ses!Idle,
         OneAtATime', CopiesAreCurrent'
  PROVE  SessionsInv'
<1>1. /\ row' \in [Accounts -> Ses!Row]
      /\ \A b \in Accounts : /\ row'[b].session = row[b].session
                             /\ row'[b].hash = IF b = a THEN p ELSE row[b].hash
  <2>1. row[a] \in Ses!Row /\ [row[a] EXCEPT !.hash = p] \in Ses!Row
        /\ [row[a] EXCEPT !.hash = p].session = row[a].session
        /\ [row[a] EXCEPT !.hash = p].hash = p
    BY DEF SessionsInv, Ses!TypeOK, Ses!Row
  <2> QED BY <2>1 DEF SessionsInv, Ses!TypeOK
<1>2. told' \in [Accounts -> Passwords \cup {None}]
  BY DEF SessionsInv, Ses!TypeOK
<1>3. Ses!TypeOK'
  BY <1>1, <1>2, SessionsRigid DEF SessionsInv, Ses!TypeOK
<1>4. Ses!PasswordSticks'
  BY <1>1 DEF SessionsInv, Ses!TypeOK, Ses!PasswordSticks
<1>5. Ses!NewestIsStored'
  BY <1>1 DEF SessionsInv, Ses!NewestIsStored
<1> QED BY <1>1, <1>3, <1>4, <1>5 DEF SessionsInv

\* A registration has made an account.
LEMMA RegisteredStep ==
  ASSUME SessionsInv, OneThread, NEW s \in LoginSockets, NEW a \in Accounts,
         NEW p \in Passwords, Ses!Registered(s, a, p)
  PROVE  SessionsInv'
<1> DEFINE c == [socket |-> s, account |-> a, password |-> p]
<1>1. /\ creates = <<>> /\ creating = Ses!Idle /\ changing = Ses!Idle
      /\ row' = [row EXCEPT ![a] = [row[a] EXCEPT !.hash = p]]
      /\ told' = [told EXCEPT ![a] = p]
      /\ creates' = Append(creates, c)
      /\ UNCHANGED <<issued_sessions, sessions, user, logins, changing, creating>>
  BY DEF Ses!Registered, Ses!Free
<1>2. c \in Ses!Create /\ c.account = a /\ c.password = p
  BY DEF Ses!Create
<1> HIDE DEF c
<1>3. /\ creates' \in Seq(Ses!Create) /\ creates'[1] = c /\ Len(creates') = 1
  <2>1. creates' = Append(<<>>, c)
    BY <1>1
  <2> QED BY <1>2, <2>1, SingleTask
<1>4. row'[a].hash = p
  BY <1>1 DEF SessionsInv, Ses!TypeOK, Ses!Row
<1>5. OneAtATime' /\ CopiesAreCurrent'
  BY <1>1, <1>2, <1>3, <1>4, SessionsRigid DEF OneAtATime, CopiesAreCurrent
<1> QED BY <1>1, <1>3, <1>5, HashWritten

\* ChangePassword() writes the row.
LEMMA WriteChangeStep ==
  ASSUME SessionsInv, Ses!WriteChange
  PROVE  SessionsInv'
<1> DEFINE a == changing.account
           p == changing.new
<1>1. /\ changing # Ses!Idle /\ changing' = Ses!Idle
      /\ row' = [row EXCEPT ![a] = [changing.row EXCEPT !.hash = p]]
      /\ told' = [told EXCEPT ![a] = p]
      /\ UNCHANGED <<issued_sessions, sessions, user, logins, creates, creating>>
  BY DEF Ses!WriteChange
<1>2. a \in Accounts /\ p \in Passwords /\ changing.row = row[a]
  BY <1>1 DEF SessionsInv, Ses!TypeOK, CopiesAreCurrent
<1> HIDE DEF a, p
<1>3. creates = <<>> /\ creating = Ses!Idle /\ creates \in Seq(Ses!Create)
  BY <1>1 DEF SessionsInv, Ses!TypeOK, OneAtATime
<1>4. OneAtATime' /\ CopiesAreCurrent'
  BY <1>1, <1>3, SessionsRigid, SingleTask DEF OneAtATime, CopiesAreCurrent
<1> QED BY <1>1, <1>2, <1>3, <1>4, HashWritten

\* A sequence grows by one.
LEMMA GrowsByOne ==
  ASSUME NEW S, NEW q \in Seq(S), NEW x \in S
  PROVE  /\ Append(q, x) \in [1 .. Len(q) + 1 -> S]
         /\ Append(q, x)[Len(q) + 1] = x
         /\ \A i \in 1 .. Len(q) : Append(q, x)[i] = q[i]
<1>1. /\ Append(q, x) \in Seq(S) /\ Len(Append(q, x)) = Len(q) + 1
      /\ Append(q, x)[Len(q) + 1] = x
      /\ \A i \in 1 .. Len(q) : Append(q, x)[i] = q[i]
  BY AppendProperties
<1>2. Append(q, x) \in [1 .. Len(q) + 1 -> S]
  BY <1>1, LenProperties
<1> QED BY <1>1, <1>2

\* CreateSession() writes the row, and the socket is logged in.
LEMMA WriteCreateStep ==
  ASSUME SessionsInv, Ses!WriteCreate
  PROVE  SessionsInv'
<1> DEFINE id == issued_sessions + 1
           a == creating.account
           s == creating.socket
           new == [row[a] EXCEPT !.session = id]
<1>1. creating # Ses!Idle /\ creating \in Creating
  BY DEF Ses!WriteCreate, SessionsInv, Ses!TypeOK, Creating
<1>2. a \in Accounts /\ s \in LoginSockets /\ creating.row = row[a]
  BY <1>1 DEF SessionsInv, CopiesAreCurrent, Creating
<1>3. /\ creating' = Ses!Idle /\ issued_sessions' = id
      /\ row' = [row EXCEPT ![a] = new]
      /\ user' = [user EXCEPT ![s] = a]
      /\ sessions' = Append(sessions, s)
      /\ UNCHANGED <<logins, creates, changing, told>>
  BY <1>2 DEF Ses!WriteCreate
<1>4. issued_sessions \in Nat /\ id \in 0 .. MaxSessions
  BY <1>1, SessionsConstants DEF SessionsInv, Ses!TypeOK, OneAtATime
<1>5. /\ new \in Ses!Row /\ new.session = id /\ new.hash = row[a].hash
  BY <1>2, <1>4 DEF SessionsInv, Ses!TypeOK, Ses!Row
<1> HIDE DEF a, s, new
<1>6. /\ row' \in [Accounts -> Ses!Row]
      /\ row'[a].session = id
      /\ \A b \in Accounts : row'[b].hash = row[b].hash
      /\ \A b \in Accounts \ {a} : row'[b] = row[b]
  BY <1>2, <1>3, <1>5 DEF SessionsInv, Ses!TypeOK
<1>7. /\ sessions' \in [1 .. id -> LoginSockets] /\ sessions'[id] = s
      /\ \A i \in 1 .. issued_sessions : sessions'[i] = sessions[i]
  <2>1. sessions \in [1 .. issued_sessions -> LoginSockets]
    BY DEF SessionsInv, Ses!TypeOK
  <2>2. sessions \in Seq(LoginSockets) /\ Len(sessions) = issued_sessions
    BY <1>4, <2>1
  <2>3. /\ Append(sessions, s) \in [1 .. issued_sessions + 1 -> LoginSockets]
        /\ Append(sessions, s)[issued_sessions + 1] = s
        /\ \A i \in 1 .. issued_sessions : Append(sessions, s)[i] = sessions[i]
    BY <1>2, <2>2, GrowsByOne
  <2> QED BY <1>3, <2>3
<1>8. /\ \A b \in Accounts : row[b].session \in 0 .. issued_sessions
      /\ creates = <<>> /\ changing = Ses!Idle
  BY <1>1, <1>4 DEF SessionsInv, Ses!TypeOK, Ses!Row, OneAtATime
<1>9. \A b, c \in Accounts :
        row'[b].session = row'[c].session => b = c \/ row'[b].session = 0
  BY <1>4, <1>6, <1>8 DEF SessionsInv, Ses!TypeOK
<1>10. Ses!TypeOK'
  <2>1. user' \in [LoginSockets -> Accounts \cup {Nobody}]
    BY <1>2, <1>3 DEF SessionsInv, Ses!TypeOK
  <2> QED BY <1>3, <1>4, <1>6, <1>7, <1>9, <2>1, SessionsRigid
          DEF SessionsInv, Ses!TypeOK
<1>11. Ses!PasswordSticks'
  BY <1>3, <1>6 DEF SessionsInv, Ses!PasswordSticks
<1>12. Ses!NewestIsStored'
  <2> SUFFICES ASSUME NEW b \in Accounts, NEW v \in LoginSockets, user'[v] = b
               PROVE  \/ row'[b].session > 0 /\ sessions'[row'[b].session] = v
                      \/ \A i \in 1 .. id : sessions'[i] = v => i < row'[b].session
    BY <1>4, <1>7 DEF Ses!NewestIsStored
  <2>1. CASE v = s
    <3>1. b = a
      BY <1>2, <1>3, <2>1 DEF SessionsInv, Ses!TypeOK
    <3> QED BY <1>4, <1>6, <1>7, <2>1, <3>1
  <2>2. CASE v # s /\ b = a
    BY <1>4, <1>6, <1>7, <2>2
  <2>3. CASE v # s /\ b # a
    <3>1. user[v] = b /\ row'[b] = row[b]
      BY <1>2, <1>3, <1>6, <2>3 DEF SessionsInv, Ses!TypeOK
    <3>2. DOMAIN sessions = 1 .. issued_sessions
      BY DEF SessionsInv, Ses!TypeOK
    <3>3. \/ row[b].session > 0 /\ sessions[row[b].session] = v
          \/ \A i \in 1 .. issued_sessions : sessions[i] = v => i < row[b].session
      BY <3>1, <3>2 DEF SessionsInv, Ses!NewestIsStored
    <3>4. CASE row[b].session > 0 /\ sessions[row[b].session] = v
      BY <1>4, <1>7, <1>8, <3>1, <3>4
    <3>5. CASE \A i \in 1 .. issued_sessions : sessions[i] = v => i < row[b].session
      BY <1>4, <1>7, <2>3, <3>1, <3>5
    <3> QED BY <3>3, <3>4, <3>5
  <2> QED BY <2>1, <2>2, <2>3
<1>13. \A b \in Accounts : row'[b].session <= issued_sessions'
  BY <1>3, <1>4, <1>6, <1>8
<1>14. OneAtATime' /\ CopiesAreCurrent'
  BY <1>3, <1>8, SessionsRigid, SingleTask DEF OneAtATime, CopiesAreCurrent
<1> QED BY <1>10, <1>11, <1>12, <1>13, <1>14 DEF SessionsInv

\* Every step of logins and sessions keeps the invariant.
LEMMA SessionsInvStep ==
  ASSUME SessionsInv, OneThread, [Ses!Next]_ses_vars
  PROVE  SessionsInv'
<1>1. CASE UNCHANGED ses_vars
  <2>1. /\ UNCHANGED <<row, issued_sessions, sessions, user, told, logins,
                       creates, changing, creating>>
    BY <1>1 DEF ses_vars
  <2>2. /\ logins' \in Seq(Ses!Login \cup Ses!Change)
        /\ creates' \in Seq(Ses!Create) /\ changing' \in {Ses!Idle} \cup Changing
        /\ creating' \in {Ses!Idle} \cup Creating
    BY <2>1 DEF SessionsInv, Ses!TypeOK, Changing, Creating
  <2>3. OneAtATime' /\ CopiesAreCurrent'
    BY <2>1, SessionsRigid DEF SessionsInv, OneAtATime, CopiesAreCurrent
  <2> QED BY <2>1, <2>2, <2>3, RowsKept
<1>2. ASSUME NEW s \in LoginSockets, NEW a \in Accounts, NEW p \in Passwords,
             Ses!LoginRequest(s, a, p)
      PROVE  SessionsInv'
  <2> DEFINE t == [kind |-> "login", socket |-> s, account |-> a, password |-> p]
  <2>1. t \in Ses!Login
    BY DEF Ses!Login
  <2> HIDE DEF t
  <2> QED BY <1>2, <2>1, RequestStep DEF Ses!LoginRequest, t
<1>3. ASSUME NEW s \in LoginSockets, NEW p \in Passwords, NEW new \in Passwords,
             Ses!ChangePasswordRequest(s, p, new)
      PROVE  SessionsInv'
  <2> DEFINE t == [kind |-> "change", socket |-> s, account |-> user[s],
                   old |-> p, new |-> new]
  <2>1. t \in Ses!Change
    BY <1>3 DEF Ses!Change, Ses!ChangePasswordRequest, SessionsInv, Ses!TypeOK
  <2> HIDE DEF t
  <2> QED BY <1>3, <2>1, RequestStep DEF Ses!ChangePasswordRequest, t
<1> QED BY <1>1, <1>2, <1>3, RunLoginStep, ReadForChangeStep, ReadForCreateStep,
           WriteChangeStep, WriteCreateStep, RegisteredStep
        DEF Ses!Next

\* Nobody is logged in at first.
LEMMA SessionsInit ==
  ASSUME Ses!Init
  PROVE  SessionsInv
<1>1. /\ row = [a \in Accounts |-> [hash |-> None, session |-> 0]]
      /\ issued_sessions = 0 /\ sessions = <<>> /\ logins = <<>> /\ creates = <<>>
      /\ user = [s \in LoginSockets |-> Nobody]
      /\ changing = Ses!Idle /\ creating = Ses!Idle
      /\ told = [a \in Accounts |-> None]
  BY DEF Ses!Init
<1>2. /\ <<>> \in Seq(Ses!Login \cup Ses!Change) /\ <<>> \in Seq(Ses!Create)
      /\ Len(<<>>) = 0 /\ <<>> \in [1 .. 0 -> LoginSockets]
  OBVIOUS
<1>3. /\ row \in [Accounts -> Ses!Row]
      /\ \A a \in Accounts : row[a].hash = None /\ row[a].session = 0
  BY <1>1, SessionsConstants DEF Ses!Row
<1>4. Ses!TypeOK
  BY <1>1, <1>2, <1>3, SessionsConstants DEF Ses!TypeOK
<1>5. OneAtATime /\ CopiesAreCurrent
  BY <1>1, <1>2 DEF OneAtATime, CopiesAreCurrent
<1>6. Ses!PasswordSticks /\ Ses!NewestIsStored
  BY <1>1, <1>3, SessionsConstants DEF Ses!PasswordSticks, Ses!NewestIsStored
<1> QED BY <1>1, <1>3, <1>4, <1>5, <1>6 DEF SessionsInv

\* A session is created with the password that the account has.
LEMMA SessionPassword ==
  ASSUME SessionsInv, OneThread, [Ses!Next]_ses_vars, NEW a \in Accounts,
         row'[a].session # row[a].session
  PROVE  row[a].hash = creating.password
<1>1. row \in [Accounts -> Ses!Row]
  BY DEF SessionsInv, Ses!TypeOK
<1>2. CASE Ses!WriteCreate
  <2>1. /\ creating # Ses!Idle
        /\ row' = [row EXCEPT ![creating.account] =
                     [creating.row EXCEPT !.session = issued_sessions + 1]]
    BY <1>2 DEF Ses!WriteCreate
  <2>2. a = creating.account
    BY <1>1, <2>1
  <2> QED BY <2>1, <2>2 DEF SessionsInv, CopiesAreCurrent
<1>3. CASE Ses!WriteChange
  <2>1. /\ changing # Ses!Idle
        /\ row' = [row EXCEPT ![changing.account] =
                     [changing.row EXCEPT !.hash = changing.new]]
    BY <1>3 DEF Ses!WriteChange
  <2>2. a = changing.account
    BY <1>1, <2>1
  <2>3. changing.row = row[a] /\ row[a] \in Ses!Row
    BY <1>1, <2>1, <2>2 DEF SessionsInv, CopiesAreCurrent
  <2>4. row'[a].session = row[a].session
    BY <1>1, <2>1, <2>2, <2>3 DEF Ses!Row
  <2> QED BY <2>4
<1>4. ASSUME NEW s \in LoginSockets, NEW b \in Accounts, NEW p \in Passwords,
             Ses!Registered(s, b, p)
      PROVE  FALSE
  <2>1. row' = [row EXCEPT ![b] = [row[b] EXCEPT !.hash = p]]
    BY <1>4 DEF Ses!Registered
  <2>2. row[b] \in Ses!Row /\ [row[b] EXCEPT !.hash = p].session = row[b].session
    BY <1>1 DEF Ses!Row
  <2>3. row'[a].session = row[a].session
    BY <1>1, <2>1, <2>2
  <2> QED BY <2>3
<1>5. CASE UNCHANGED row
  BY <1>5
<1>6. \/ UNCHANGED row \/ Ses!WriteCreate \/ Ses!WriteChange
      \/ \E s \in LoginSockets, b \in Accounts, p \in Passwords :
           Ses!Registered(s, b, p)
  BY DEF Ses!Next, ses_vars, Ses!RunLogin, Ses!ReadForChange, Ses!ReadForCreate,
         Ses!LoginRequest, Ses!ChangePasswordRequest
<1> QED BY <1>2, <1>3, <1>4, <1>5, <1>6

\* A step of the whole is one of the sessions, or leaves them alone.
LEMMA SessionsSteps == [Next]_vars => [Ses!Next]_ses_vars
BY DEF Next, vars, ses_vars

\* With one I/O thread UpdateUser() writes back no stale copy: the password is
\* the one that was confirmed last, the session stored the newest.
THEOREM SessionsAreSound == OneThread => (Spec => []SessionsSound)
<1> SUFFICES ASSUME OneThread PROVE Spec => []SessionsSound
  OBVIOUS
<1>1. Init => SessionsInv
  BY SessionsInit DEF Init
<1>2. SessionsInv /\ [Next]_vars => SessionsInv'
  BY SessionsInvStep, SessionsSteps
<1>3. SessionsInv => SessionsSound
  BY DEF SessionsInv, SessionsSound
<1> QED BY <1>1, <1>2, <1>3, PTL DEF Spec

\* With one I/O thread the password that Login() has compared is still the
\* account's when CreateSession() stores the session.
THEOREM PasswordIsNeeded == OneThread => (Spec => SessionNeedsPassword)
<1> SUFFICES ASSUME OneThread PROVE Spec => SessionNeedsPassword
  OBVIOUS
<1>1. Init => SessionsInv
  BY SessionsInit DEF Init
<1>2. SessionsInv /\ [Next]_vars => SessionsInv'
  BY SessionsInvStep, SessionsSteps
<1>3. SessionsInv /\ [Next]_vars =>
        [\A a \in Accounts : row'[a].session # row[a].session
           => row[a].hash = creating.password]_ses_vars
  BY SessionPassword, SessionsSteps
<1> QED BY <1>1, <1>2, <1>3, PTL DEF Spec, SessionNeedsPassword,
           Ses!SessionNeedsPassword, Ses!vars, ses_vars

-----------------------------------------------------------------------------
(* Sockets and turns: VmTurns, with a single VM. *)

TurnTasks == [kind : {"join", "turn", "leave", "timer"}, socket : TurnSockets]

\* The types of what the steps work on.
TurnTypes ==
  /\ connected_vm_id \in [TurnSockets -> Vms \cup {NoVm}]
  /\ position \in [TurnSockets -> Nat \cup {-1}]
  /\ turn_queue \in [Vms -> Seq(TurnSockets)]
  /\ armed \in [Vms -> TurnSockets \cup {NoSocket}]
  /\ tasks \in [Vms -> Seq(TurnTasks)]

\* Positions and places in a queue are each other's inverse.
Agree(pos, queue) ==
  /\ \A i \in 1 .. Len(queue) : pos[queue[i]] = i - 1
  /\ \A s \in TurnSockets : pos[s] # -1 =>
       pos[s] < Len(queue) /\ queue[pos[s] + 1] = s

\* r is q without its k-th element.
ErasedAt(q, k, r) ==
  /\ r \in Seq(TurnSockets) /\ Len(r) = Len(q) - 1
  /\ \A i \in 1 .. Len(q) - 1 : r[i] = IF i < k THEN q[i] ELSE q[i + 1]

\* The positions when s has left and those behind it have moved up.
MovedUp(pos, s, new) ==
  /\ new \in [TurnSockets -> Int]
  /\ \A v \in TurnSockets : new[v] =
       IF v = s THEN -1 ELSE IF pos[v] > pos[s] THEN pos[v] - 1 ELSE pos[v]

\* r is q with s at its end, and new are the positions then.
AppendedTo(q, s, r, pos, new) ==
  /\ r \in Seq(TurnSockets) /\ Len(r) = Len(q) + 1 /\ r[Len(q) + 1] = s
  /\ \A i \in 1 .. Len(q) : r[i] = q[i]
  /\ new \in [TurnSockets -> Nat \cup {-1}] /\ new[s] = Len(q)
  /\ \A v \in TurnSockets \ {s} : new[v] = pos[v]

\* Inductive for a single VM.
TurnsInv == TurnTypes /\ \A vm \in Vms : Agree(position, turn_queue[vm])

\* What is assumed of the constants.
LEMMA TurnsConstants == NoVm \notin Vms /\ NoSocket \notin TurnSockets
BY PartsAssumption DEF Turns!VmTurnsAssumption

\* erase() on the queue: the elements behind the index move up by one.
LEMMA TurnRemoved ==
  ASSUME NEW S, NEW q \in Seq(S), NEW k \in 1 .. Len(q)
  PROVE  /\ Turns!RemoveAt(q, k) \in Seq(S)
         /\ Len(Turns!RemoveAt(q, k)) = Len(q) - 1
         /\ \A i \in 1 .. Len(q) - 1 :
              Turns!RemoveAt(q, k)[i] = IF i < k THEN q[i] ELSE q[i + 1]
<1> DEFINE front == SubSeq(q, 1, k - 1)
           back == SubSeq(q, k + 1, Len(q))
<1>1. /\ front \in Seq(S) /\ Len(front) = k - 1
      /\ \A i \in 1 .. k - 1 : front[i] = q[i]
  OBVIOUS
<1>2. /\ back \in Seq(S) /\ Len(back) = Len(q) - k
      /\ \A i \in 1 .. Len(q) - k : back[i] = q[k + i]
  OBVIOUS
<1>3. Turns!RemoveAt(q, k) = front \o back
  BY DEF Turns!RemoveAt
<1> HIDE DEF front, back
<1>4. /\ front \o back \in Seq(S)
      /\ Len(front \o back) = Len(front) + Len(back)
      /\ \A i \in 1 .. Len(front) + Len(back) : (front \o back)[i] =
           IF i <= Len(front) THEN front[i] ELSE back[i - Len(front)]
  BY <1>1, <1>2, ConcatProperties
<1>5. /\ Len(front \o back) = Len(q) - 1
      /\ \A i \in 1 .. Len(q) - 1 : (front \o back)[i] =
           IF i <= k - 1 THEN front[i] ELSE back[i - (k - 1)]
  <2>1. Len(front) + Len(back) = Len(q) - 1
    BY <1>1, <1>2
  <2> QED BY <1>1, <1>4, <2>1
<1>6. ASSUME NEW i \in 1 .. Len(q) - 1
      PROVE  (front \o back)[i] = IF i < k THEN q[i] ELSE q[i + 1]
  <2>1. CASE i < k
    BY <1>1, <1>5, <2>1
  <2>2. CASE ~(i < k)
    <3>1. i - (k - 1) \in 1 .. Len(q) - k /\ k + (i - (k - 1)) = i + 1
      BY <2>2
    <3>2. (front \o back)[i] = back[i - (k - 1)]
      BY <1>5, <2>2
    <3>3. back[i - (k - 1)] = q[k + (i - (k - 1))]
      BY <1>2, <3>1
    <3> QED BY <2>2, <3>1, <3>2, <3>3
  <2> QED BY <2>1, <2>2
<1> QED BY <1>3, <1>4, <1>5, <1>6

\* Who is behind a socket in the queue has a larger position.
LEMMA BehindIsLarger ==
  ASSUME NEW pos \in [TurnSockets -> Nat \cup {-1}], NEW q \in Seq(TurnSockets),
         Agree(pos, q), NEW s \in TurnSockets, pos[s] # -1,
         NEW v \in TurnSockets, v # s
  PROVE  (\E i \in pos[s] + 2 .. Len(q) : v = q[i]) <=> pos[v] > pos[s]
<1>1. pos[s] \in Nat /\ Len(q) \in Nat
  OBVIOUS
<1>2. ASSUME NEW i \in pos[s] + 2 .. Len(q), v = q[i] PROVE pos[v] > pos[s]
  <2>1. i \in 1 .. Len(q)
    BY <1>1
  <2> QED BY <1>1, <1>2, <2>1 DEF Agree
<1>3. ASSUME pos[v] > pos[s]
      PROVE  \E i \in pos[s] + 2 .. Len(q) : v = q[i]
  <2>1. pos[v] \in Nat /\ pos[v] < Len(q) /\ q[pos[v] + 1] = v
    BY <1>1, <1>3 DEF Agree
  <2>2. pos[v] + 1 \in pos[s] + 2 .. Len(q)
    BY <1>1, <1>3, <2>1
  <2> QED BY <2>1, <2>2
<1> QED BY <1>2, <1>3

\* Positions agree with the queue from which a socket was erased, when those
\* with larger ones have moved up.
LEMMA AgreeWithout ==
  ASSUME NEW pos \in [TurnSockets -> Nat \cup {-1}], NEW q \in Seq(TurnSockets),
         Agree(pos, q), NEW s \in TurnSockets, pos[s] # -1,
         NEW r, ErasedAt(q, pos[s] + 1, r), NEW new, MovedUp(pos, s, new)
  PROVE  /\ new \in [TurnSockets -> Nat \cup {-1}] /\ Agree(new, r)
         /\ \A i \in 1 .. Len(q) : q[i] # s => \E j \in 1 .. Len(r) : r[j] = q[i]
<1> DEFINE k == pos[s] + 1
<1>1. k \in 1 .. Len(q) /\ q[k] = s /\ pos[s] \in Nat /\ Len(q) \in Nat
  BY DEF Agree
<1>2. \A i \in 1 .. Len(q) : q[i] \in TurnSockets /\ pos[q[i]] = i - 1
  BY ElementOfSeq DEF Agree
<1>3. /\ Len(r) = Len(q) - 1
      /\ \A i \in 1 .. Len(q) - 1 : r[i] = IF i < k THEN q[i] ELSE q[i + 1]
  BY DEF ErasedAt
<1> HIDE DEF k
<1>4. \A v \in TurnSockets : new[v] =
        IF v = s THEN -1 ELSE IF pos[v] > pos[s] THEN pos[v] - 1 ELSE pos[v]
  BY DEF MovedUp
<1>5. new \in [TurnSockets -> Nat \cup {-1}]
  <2>1. \A v \in TurnSockets : new[v] \in Nat \cup {-1}
    BY <1>1, <1>4
  <2> QED BY <2>1 DEF MovedUp
<1>6. ASSUME NEW i \in 1 .. Len(r) PROVE new[r[i]] = i - 1
  <2>1. i \in 1 .. Len(q) - 1 /\ i + 1 \in 1 .. Len(q) /\ i \in 1 .. Len(q)
    BY <1>1, <1>3
  <2>2. CASE i < k
    BY <1>1, <1>2, <1>3, <1>4, <2>1, <2>2 DEF k
  <2>3. CASE ~(i < k)
    BY <1>1, <1>2, <1>3, <1>4, <2>1, <2>3 DEF k
  <2> QED BY <2>2, <2>3
<1>7. ASSUME NEW v \in TurnSockets, new[v] # -1
      PROVE  new[v] < Len(r) /\ r[new[v] + 1] = v
  <2>1. v # s /\ pos[v] # -1
    BY <1>1, <1>4, <1>7
  <2>2. pos[v] \in Nat /\ pos[v] < Len(q) /\ q[pos[v] + 1] = v /\ pos[v] # pos[s]
    BY <1>1, <2>1 DEF Agree, k
  <2>3. CASE pos[v] > pos[s]
    BY <1>1, <1>3, <1>4, <2>1, <2>2, <2>3 DEF k
  <2>4. CASE ~(pos[v] > pos[s])
    BY <1>1, <1>3, <1>4, <2>1, <2>2, <2>4 DEF k
  <2> QED BY <2>3, <2>4
<1>8. ASSUME NEW i \in 1 .. Len(q), q[i] # s
      PROVE  \E j \in 1 .. Len(r) : r[j] = q[i]
  <2>1. CASE i < k
    BY <1>1, <1>3, <2>1
  <2>2. CASE i > k
    <3>1. i - 1 \in 1 .. Len(q) - 1 /\ ~(i - 1 < k) /\ (i - 1) + 1 = i
      BY <1>1, <2>2 DEF k
    <3>2. r[i - 1] = q[i]
      BY <1>3, <3>1
    <3> QED BY <1>3, <3>1, <3>2
  <2> QED BY <1>1, <1>8, <2>1, <2>2 DEF k
<1> QED BY <1>5, <1>6, <1>7, <1>8 DEF Agree

\* Positions agree with the queue to which a socket was added.
LEMMA AgreeWith ==
  ASSUME NEW pos \in [TurnSockets -> Nat \cup {-1}], NEW q \in Seq(TurnSockets),
         Agree(pos, q), NEW s \in TurnSockets, pos[s] = -1,
         NEW r, NEW new, AppendedTo(q, s, r, pos, new)
  PROVE  /\ Agree(new, r)
         /\ \A i \in 1 .. Len(q) : \E j \in 1 .. Len(r) : r[j] = q[i]
<1>1. /\ Len(r) = Len(q) + 1 /\ r[Len(q) + 1] = s /\ Len(q) \in Nat
      /\ \A i \in 1 .. Len(q) : r[i] = q[i]
  BY DEF AppendedTo
<1>2. new[s] = Len(q) /\ \A v \in TurnSockets \ {s} : new[v] = pos[v]
  BY DEF AppendedTo
<1>3. \A i \in 1 .. Len(q) : q[i] \in TurnSockets /\ pos[q[i]] = i - 1 /\ q[i] # s
  BY <1>1, ElementOfSeq DEF Agree
<1>4. ASSUME NEW i \in 1 .. Len(r) PROVE new[r[i]] = i - 1
  <2>1. CASE i = Len(q) + 1
    BY <1>1, <1>2, <2>1
  <2>2. CASE i \in 1 .. Len(q)
    BY <1>1, <1>2, <1>3, <2>2
  <2> QED BY <1>1, <2>1, <2>2
<1>5. ASSUME NEW v \in TurnSockets, new[v] # -1
      PROVE  new[v] < Len(r) /\ r[new[v] + 1] = v
  <2>1. CASE v = s
    BY <1>1, <1>2, <2>1
  <2>2. CASE v # s
    <3>1. new[v] = pos[v] /\ pos[v] \in Nat /\ pos[v] < Len(q) /\ q[pos[v] + 1] = v
      BY <1>2, <1>5, <2>2 DEF Agree
    <3>2. pos[v] + 1 \in 1 .. Len(q)
      BY <1>1, <3>1
    <3> QED BY <1>1, <3>1, <3>2
  <2> QED BY <2>1, <2>2
<1>6. \A i \in 1 .. Len(q) : \E j \in 1 .. Len(r) : r[j] = q[i]
  BY <1>1
<1> QED BY <1>4, <1>5, <1>6 DEF Agree

\* The socket whose task a VM's strand runs.
LEMMA TaskOfSocket ==
  ASSUME TurnsInv, NEW vm \in Vms, tasks[vm] # <<>>
  PROVE  /\ Head(tasks[vm]).socket \in TurnSockets
         /\ [tasks EXCEPT ![vm] = Tail(tasks[vm])] \in [Vms -> Seq(TurnTasks)]
<1>1. tasks[vm] \in Seq(TurnTasks) /\ tasks \in [Vms -> Seq(TurnTasks)]
  BY DEF TurnsInv, TurnTypes
<1>2. Head(tasks[vm]) \in TurnTasks /\ Tail(tasks[vm]) \in Seq(TurnTasks)
  BY <1>1, FirstTask
<1> QED BY <1>1, <1>2 DEF TurnTasks

\* A task is dispatched to a VM's strand.
LEMMA TaskDispatched ==
  ASSUME NEW ts \in [Vms -> Seq(TurnTasks)], NEW vm \in Vms, NEW s \in TurnSockets,
         NEW kind \in {"join", "turn", "leave", "timer"}
  PROVE  [ts EXCEPT ![vm] = Append(ts[vm], Turns!Task(kind, s))]
           \in [Vms -> Seq(TurnTasks)]
<1>1. Turns!Task(kind, s) \in TurnTasks
  BY DEF Turns!Task, TurnTasks
<1>2. Append(ts[vm], Turns!Task(kind, s)) \in Seq(TurnTasks)
  BY <1>1, AppendProperties
<1> QED BY <1>2

\* Nobody but s leaves the queues.
OnlyLeaves(s) ==
  \A vm \in Vms : \A v \in Turns!ToSet(turn_queue[vm]) :
    v \notin Turns!ToSet(turn_queue[vm])' => v = s

\* RemoveUser() of the turn queue.
LEMMA RemoveStep ==
  ASSUME NEW vm, Vms = {vm}, TurnsInv, NEW s \in TurnSockets,
         Turns!RemoveFromQueue(vm, s)
  PROVE  /\ position' \in [TurnSockets -> Nat \cup {-1}]
         /\ turn_queue' \in [Vms -> Seq(TurnSockets)]
         /\ armed' \in [Vms -> TurnSockets \cup {NoSocket}]
         /\ \A v \in Vms : Agree(position', turn_queue'[v])
         /\ OnlyLeaves(s)
<1> DEFINE q == turn_queue[vm]
<1>1. /\ q \in Seq(TurnSockets) /\ Agree(position, q)
      /\ position \in [TurnSockets -> Nat \cup {-1}]
      /\ turn_queue \in [Vms -> Seq(TurnSockets)]
      /\ armed \in [Vms -> TurnSockets \cup {NoSocket}]
  BY DEF TurnsInv, TurnTypes
<1>2. CASE position[s] = -1
  <2>1. UNCHANGED <<position, turn_queue, armed>>
    BY <1>2 DEF Turns!RemoveFromQueue, Turns!NotQueued
  <2> QED BY <1>1, <2>1 DEF OnlyLeaves, Turns!ToSet
<1>3. CASE position[s] # -1
  <2> DEFINE r == Turns!RemoveAt(q, position[s] + 1)
  <2>1. Turns!Erase(vm, s)
    BY <1>3 DEF Turns!RemoveFromQueue, Turns!NotQueued
  <2>2. /\ turn_queue' = [turn_queue EXCEPT ![vm] = r]
        /\ position' = [v \in TurnSockets |->
              IF v = s THEN -1
              ELSE IF v \in {turn_queue[vm][i] :
                               i \in position[s] + 2 .. Len(turn_queue[vm])}
                THEN position[v] - 1
              ELSE position[v]]
        /\ Turns!UpdateCurrentTurn(vm) \/ UNCHANGED armed
    BY <2>1 DEF Turns!Erase, Turns!NotQueued
  <2>3. /\ position' \in [TurnSockets -> Nat \cup {-1}]
        /\ r \in Seq(TurnSockets) /\ Agree(position', r)
        /\ \A i \in 1 .. Len(q) : q[i] # s => \E j \in 1 .. Len(r) : r[j] = q[i]
    <3>1. /\ position' \in [TurnSockets -> Int]
          /\ \A v \in TurnSockets : position'[v] =
               IF v = s THEN -1
               ELSE IF \E i \in position[s] + 2 .. Len(q) : v = q[i]
                 THEN position[v] - 1
               ELSE position[v]
      BY <1>1, <2>2
    <3> HIDE DEF q
    <3>2. \A v \in TurnSockets : v # s =>
            ((\E i \in position[s] + 2 .. Len(q) : v = q[i])
               <=> position[v] > position[s])
      BY <1>1, <1>3, BehindIsLarger
    <3>3. MovedUp(position, s, position')
      BY <3>1, <3>2 DEF MovedUp
    <3>4. position[s] + 1 \in 1 .. Len(q)
      BY <1>1, <1>3 DEF Agree
    <3>5. ErasedAt(q, position[s] + 1, r)
      BY <1>1, <3>4, TurnRemoved DEF ErasedAt
    <3> HIDE DEF r
    <3>6. r \in Seq(TurnSockets)
      BY <3>5 DEF ErasedAt
    <3> QED BY <1>1, <1>3, <3>3, <3>5, <3>6, AgreeWithout
  <2> HIDE DEF r
  <2>4. turn_queue' \in [Vms -> Seq(TurnSockets)] /\ turn_queue'[vm] = r
    BY <1>1, <2>2, <2>3
  <2>5. armed' \in [Vms -> TurnSockets \cup {NoSocket}]
    <3>1. r # <<>> => Head(r) \in TurnSockets
      BY <2>3, FirstTask
    <3> QED BY <1>1, <2>2, <2>4, <3>1 DEF Turns!UpdateCurrentTurn
  <2>6. OnlyLeaves(s)
    <3> SUFFICES ASSUME NEW i \in DOMAIN q, q[i] # s
                 PROVE  \E j \in DOMAIN r : r[j] = q[i]
      BY <2>4 DEF OnlyLeaves, Turns!ToSet
    <3>1. DOMAIN q = 1 .. Len(q) /\ DOMAIN r = 1 .. Len(r)
      BY <1>1, <2>3
    <3> QED BY <2>3, <3>1
  <2> QED BY <2>3, <2>4, <2>5, <2>6
<1> QED BY <1>2, <1>3

\* Every step of sockets and turns keeps the invariant, and only the socket
\* whose task runs leaves the queue.
LEMMA TurnsStep ==
  ASSUME NEW vm, Vms = {vm}, TurnsInv, [Turns!Next]_turns_vars
  PROVE  TurnsInv' /\ OnlyLeaves(Head(tasks[vm]).socket)
<1> DEFINE s0 == Head(tasks[vm]).socket
<1>1. ASSUME UNCHANGED <<position, turn_queue>>,
             connected_vm_id' \in [TurnSockets -> Vms \cup {NoVm}],
             armed' \in [Vms -> TurnSockets \cup {NoSocket}],
             tasks' \in [Vms -> Seq(TurnTasks)]
      PROVE  TurnsInv' /\ OnlyLeaves(s0)
  BY <1>1 DEF TurnsInv, TurnTypes, Agree, OnlyLeaves, Turns!ToSet
<1>2. /\ connected_vm_id \in [TurnSockets -> Vms \cup {NoVm}]
      /\ armed \in [Vms -> TurnSockets \cup {NoSocket}]
      /\ tasks \in [Vms -> Seq(TurnTasks)]
  BY DEF TurnsInv, TurnTypes
<1>3. CASE UNCHANGED turns_vars
  BY <1>1, <1>2, <1>3 DEF turns_vars
<1>4. ASSUME NEW s \in TurnSockets, Turns!ConnectToChannel(s, vm)
      PROVE  TurnsInv' /\ OnlyLeaves(s0)
  BY <1>1, <1>2, <1>4, TaskDispatched DEF Turns!ConnectToChannel, Turns!Dispatch
<1>5. ASSUME NEW s \in TurnSockets, Turns!TurnRequest(s)
      PROVE  TurnsInv' /\ OnlyLeaves(s0)
  <2>1. connected_vm_id[s] \in Vms
    BY <1>2, <1>5 DEF Turns!TurnRequest
  <2> QED BY <1>1, <1>2, <1>5, <2>1, TaskDispatched DEF Turns!TurnRequest, Turns!Dispatch
<1>6. ASSUME NEW s \in TurnSockets, Turns!OnDisconnect(s)
      PROVE  TurnsInv' /\ OnlyLeaves(s0)
  <2>1. connected_vm_id[s] # NoVm => connected_vm_id[s] \in Vms
    BY <1>2
  <2>2. tasks' \in [Vms -> Seq(TurnTasks)]
    <3>1. CASE connected_vm_id[s] = NoVm
      BY <1>2, <1>6, <3>1 DEF Turns!OnDisconnect
    <3>2. CASE connected_vm_id[s] # NoVm
      <4>1. Turns!Dispatch(connected_vm_id[s], Turns!Task("leave", s))
        BY <1>6, <3>2 DEF Turns!OnDisconnect
      <4> QED BY <1>2, <2>1, <3>2, <4>1, TaskDispatched DEF Turns!Dispatch
    <3> QED BY <3>1, <3>2
  <2> QED BY <1>1, <1>2, <1>6, <2>2 DEF Turns!OnDisconnect
<1>7. ASSUME Turns!NoEffect(vm), tasks[vm] # <<>> PROVE TurnsInv' /\ OnlyLeaves(s0)
  BY <1>1, <1>2, <1>7, TaskOfSocket DEF Turns!NoEffect
<1>8. CASE Turns!Join(vm)
  <2> DEFINE rest == [tasks EXCEPT ![vm] = Tail(tasks[vm])]
             old == connected_vm_id[s0]
  <2>1. /\ s0 \in TurnSockets /\ rest \in [Vms -> Seq(TurnTasks)]
        /\ old # NoVm => old \in Vms
    BY <1>2, <1>8, TaskOfSocket DEF Turns!Join, Turns!Runs
  <2>2. /\ tasks' = IF old = NoVm THEN rest
                    ELSE [rest EXCEPT ![old] = Append(rest[old], Turns!Task("leave", s0))]
        /\ connected_vm_id' = [connected_vm_id EXCEPT ![s0] = vm]
        /\ UNCHANGED <<position, turn_queue, armed>>
    BY <1>8 DEF Turns!Join
  <2> HIDE DEF rest, old, s0
  <2>3. tasks' \in [Vms -> Seq(TurnTasks)]
    BY <2>1, <2>2, TaskDispatched
  <2>4. connected_vm_id' \in [TurnSockets -> Vms \cup {NoVm}]
    BY <1>2, <2>1, <2>2
  <2> QED BY <1>1, <1>2, <2>2, <2>3, <2>4 DEF s0
<1>9. ASSUME s0 \in TurnSockets, Turns!RemoveFromQueue(vm, s0),
             UNCHANGED connected_vm_id, tasks' \in [Vms -> Seq(TurnTasks)]
      PROVE  TurnsInv' /\ OnlyLeaves(s0)
  BY <1>2, <1>9, RemoveStep DEF TurnsInv, TurnTypes
<1>10. CASE Turns!Rejoin(vm)
  <2>1. /\ s0 \in TurnSockets /\ tasks' \in [Vms -> Seq(TurnTasks)]
        /\ UNCHANGED connected_vm_id
        /\ Turns!RemoveFromQueue(vm, s0) \/ UNCHANGED <<position, turn_queue, armed>>
    BY <1>10, TaskOfSocket DEF Turns!Rejoin, Turns!Runs
  <2> QED BY <1>1, <1>2, <1>9, <2>1
<1>11. CASE Turns!Leave(vm)
  <2>1. /\ s0 \in TurnSockets
        /\ \/ Turns!NoEffect(vm) /\ tasks[vm] # <<>>
           \/ /\ Turns!RemoveFromQueue(vm, s0) /\ UNCHANGED connected_vm_id
              /\ tasks' \in [Vms -> Seq(TurnTasks)]
    BY <1>11, TaskOfSocket DEF Turns!Leave, Turns!Runs
  <2> QED BY <1>7, <1>9, <2>1
<1>12. CASE Turns!TimerHandler(vm)
  <2>1. /\ s0 \in TurnSockets /\ tasks' \in [Vms -> Seq(TurnTasks)]
        /\ UNCHANGED connected_vm_id /\ Turns!RemoveFromQueue(vm, s0)
    BY <1>12, TaskOfSocket DEF Turns!TimerHandler, Turns!Runs
  <2> QED BY <1>9, <2>1
<1>13. CASE Turns!TimerExpires(vm)
  <2>1. armed[vm] \in TurnSockets
    BY <1>2, <1>13 DEF Turns!TimerExpires
  <2>2. tasks' \in [Vms -> Seq(TurnTasks)]
    BY <1>2, <1>13, <2>1, TaskDispatched DEF Turns!TimerExpires, Turns!Dispatch
  <2>3. armed' \in [Vms -> TurnSockets \cup {NoSocket}]
    BY <1>2, <1>13 DEF Turns!TimerExpires
  <2> QED BY <1>1, <1>2, <1>13, <2>2, <2>3 DEF Turns!TimerExpires
<1>14. CASE Turns!RequestTurn(vm)
  <2> DEFINE q == turn_queue[vm]
  <2>1. tasks[vm] # <<>> /\ s0 \in TurnSockets
    BY <1>14, TaskOfSocket DEF Turns!RequestTurn, Turns!Runs
  <2>2. CASE position[s0] # -1
    BY <1>7, <1>14, <2>1, <2>2 DEF Turns!RequestTurn, Turns!NotQueued
  <2>3. CASE position[s0] = -1
    <3>1. /\ turn_queue' = [turn_queue EXCEPT ![vm] = Append(q, s0)]
          /\ position' = [position EXCEPT ![s0] = Len(q)]
          /\ Turns!UpdateCurrentTurn(vm) \/ UNCHANGED armed
          /\ tasks' = [tasks EXCEPT ![vm] = Tail(tasks[vm])]
          /\ UNCHANGED connected_vm_id
      BY <1>14, <2>3 DEF Turns!RequestTurn, Turns!NotQueued
    <3>2. /\ position \in [TurnSockets -> Nat \cup {-1}] /\ q \in Seq(TurnSockets)
          /\ turn_queue \in [Vms -> Seq(TurnSockets)] /\ Agree(position, q)
      BY DEF TurnsInv, TurnTypes
    <3> DEFINE r == Append(q, s0)
    <3>3. /\ position' \in [TurnSockets -> Nat \cup {-1}]
          /\ r \in Seq(TurnSockets) /\ Agree(position', r)
          /\ \A i \in 1 .. Len(q) : \E j \in 1 .. Len(r) : r[j] = q[i]
      <4> HIDE DEF q, s0
      <4>1. /\ r \in Seq(TurnSockets) /\ Len(r) = Len(q) + 1 /\ r[Len(q) + 1] = s0
            /\ \A i \in 1 .. Len(q) : r[i] = q[i]
            /\ Len(q) \in Nat
        BY <2>1, <3>2, AppendProperties
      <4>2. /\ position' \in [TurnSockets -> Nat \cup {-1}] /\ position'[s0] = Len(q)
            /\ \A v \in TurnSockets \ {s0} : position'[v] = position[v]
        BY <2>1, <3>1, <3>2, <4>1
      <4> HIDE DEF r
      <4>3. AppendedTo(q, s0, r, position, position')
        BY <4>1, <4>2 DEF AppendedTo
      <4>4. Agree(position', r)
        BY <2>1, <2>3, <3>2, <4>1, <4>2, <4>3, AgreeWith
      <4>5. \A i \in 1 .. Len(q) : i \in 1 .. Len(r) /\ r[i] = q[i]
        BY <4>1
      <4> QED BY <4>1, <4>2, <4>4, <4>5
    <3> HIDE DEF r, s0
    <3>4. turn_queue' \in [Vms -> Seq(TurnSockets)] /\ turn_queue'[vm] = r
      BY <3>1, <3>2, <3>3 DEF r
    <3>5. armed' \in [Vms -> TurnSockets \cup {NoSocket}]
      <4>1. r # <<>> => Head(r) \in TurnSockets
        BY <3>3, FirstTask
      <4> QED BY <1>2, <3>1, <3>4, <4>1 DEF Turns!UpdateCurrentTurn
    <3>6. OnlyLeaves(s0)
      <4>1. DOMAIN q = 1 .. Len(q) /\ DOMAIN r = 1 .. Len(r)
        BY <3>2, <3>3
      <4> QED BY <3>3, <3>4, <4>1 DEF OnlyLeaves, Turns!ToSet
    <3>7. tasks' \in [Vms -> Seq(TurnTasks)]
      BY <2>1, <3>1, TaskOfSocket
    <3>8. TurnsInv'
      BY <1>2, <3>1, <3>3, <3>4, <3>5, <3>7 DEF TurnsInv, TurnTypes
    <3> QED BY <3>6, <3>8 DEF s0
  <2> QED BY <2>2, <2>3
<1> QED BY <1>3, <1>4, <1>5, <1>6, <1>8, <1>10, <1>11, <1>12, <1>13, <1>14
        DEF Turns!Next

\* Nobody has joined a VM at first.
LEMMA TurnsInit ==
  ASSUME Turns!Init
  PROVE  TurnsInv
<1>1. /\ connected_vm_id = [s \in TurnSockets |-> NoVm]
      /\ position = [s \in TurnSockets |-> -1]
      /\ turn_queue = [vm \in Vms |-> <<>>]
      /\ armed = [vm \in Vms |-> NoSocket]
      /\ tasks = [vm \in Vms |-> <<>>]
  BY DEF Turns!Init, Turns!NotQueued
<1>2. <<>> \in Seq(TurnTasks) /\ <<>> \in Seq(TurnSockets) /\ Len(<<>>) = 0
  OBVIOUS
<1>3. TurnTypes
  BY <1>1, <1>2 DEF TurnTypes
<1>4. ASSUME NEW vm \in Vms PROVE Agree(position, turn_queue[vm])
  BY <1>1, <1>2 DEF Agree
<1> QED BY <1>3, <1>4 DEF TurnsInv

\* A step of the whole is one of the turns, or leaves them alone.
LEMMA TurnsSteps == [Next]_vars => [Turns!Next]_turns_vars
BY DEF Next, vars, turns_vars

\* With a single VM every turn_queue_position_ is the index of the socket in
\* the queue, so that RemoveUser() erases inside it; with two it is not, see
\* the run two_vm_turns.
THEOREM PositionsAgreeWithOneVm ==
  (\E vm : Vms = {vm}) => (Spec => []PositionsAgree)
<1> SUFFICES ASSUME NEW vm, Vms = {vm} PROVE Spec => []PositionsAgree
  OBVIOUS
<1>1. Init => TurnsInv
  BY TurnsInit DEF Init
<1>2. TurnsInv /\ [Next]_vars => TurnsInv'
  BY TurnsStep, TurnsSteps
<1>3. TurnsInv => PositionsAgree
  <2> SUFFICES ASSUME TurnsInv PROVE PositionsAgree
    OBVIOUS
  <2>1. \A s \in TurnSockets : position[s] # -1 => Turns!Contains(turn_queue[vm], s)
    <3> SUFFICES ASSUME NEW s \in TurnSockets, position[s] # -1
                 PROVE  \E i \in 1 .. Len(turn_queue[vm]) : turn_queue[vm][i] = s
      BY DEF Turns!Contains
    <3>1. /\ turn_queue[vm] \in Seq(TurnSockets) /\ position[s] \in Nat
          /\ position[s] < Len(turn_queue[vm]) /\ turn_queue[vm][position[s] + 1] = s
      BY DEF TurnsInv, TurnTypes, Agree
    <3>2. position[s] + 1 \in 1 .. Len(turn_queue[vm])
      BY <3>1
    <3> QED BY <3>1, <3>2
  <2> QED BY <2>1 DEF PositionsAgree, Turns!PositionsAgree, Turns!NotQueued,
                      TurnsInv, Agree
<1> QED BY <1>1, <1>2, <1>3, PTL DEF Spec

\* With a single VM RemoveUser() removes the user it is called for: "Remove the
\* user and update the queue position for all users behind them".
THEOREM RemovesTheUserWithOneVm ==
  (\E vm : Vms = {vm}) => (Spec => Turns!RemovesTheUser)
<1> SUFFICES ASSUME NEW one, Vms = {one} PROVE Spec => Turns!RemovesTheUser
  OBVIOUS
<1>1. Init => TurnsInv
  BY TurnsInit DEF Init
<1>2. TurnsInv /\ [Next]_vars => TurnsInv'
  BY TurnsStep, TurnsSteps
<1>3. TurnsInv /\ [Next]_vars =>
        [Turns!OnlyTheUserLeaves]_turns_vars
  BY TurnsStep, TurnsSteps DEF OnlyLeaves, Turns!OnlyTheUserLeaves, Turns!ToSet
<1> QED BY <1>1, <1>2, <1>3, PTL DEF Spec, Turns!RemovesTheUser, Turns!vars, turns_vars

-----------------------------------------------------------------------------
(* The users of a channel: UserChannel. *)

ChannelTasks ==
  [op : {"join", "leave", "update"}, socket : ChannelSockets,
   name : Names \cup {NoName}]

\* The type of the channel's variables.
ChannelTypes ==
  /\ username \in [ChannelSockets -> Names]
  /\ connected \subseteq ChannelSockets /\ gone_sockets \subseteq ChannelSockets
  /\ channel_users \in [ChannelSockets -> Names \cup {NoName}]
  /\ strand \in Seq(ChannelTasks) /\ Len(strand) <= MaxChannelTasks
  /\ view \in [ChannelSockets -> [Names -> Nat]]
  /\ status \in Statuses /\ writing \in BOOLEAN /\ gone \in BOOLEAN
  /\ pending \in [ChannelSockets -> Seq(Statuses \cup {"join"})]
  /\ told_status \in [ChannelSockets -> Statuses]

\* A task waits; every socket has at most one; s has one of the kind op.
Waits(m, x) == \E i \in 1 .. Len(m) : m[i] = x
OneTaskEach(m) ==
  \A i, j \in 1 .. Len(m) : m[i].socket = m[j].socket => i = j
Asked(m, s, op) == \E x \in ChannelTasks : Waits(m, x) /\ x.socket = s /\ x.op = op

\* What a client was told, or will be told last, is the status.
Fresh(p, told_last, now) ==
  IF p = <<>> THEN told_last = now ELSE p[Len(p)] \in {"join", now}

\* A member is there, or is about to leave, under its name, or is about to get
\* it; it has left if it is closed.
MemberOk(s) ==
  /\ ~gone
  /\ s \in connected \/ Asked(strand, s, "leave")
  /\ channel_users[s] = username[s] \/ Asked(strand, s, "update")
  /\ s \in gone_sockets => Asked(strand, s, "leave")

\* A task carries the name that the socket has, and a closed one only leaves.
ChannelTaskOk(x) ==
  x.op # "leave" => x.name = username[x.socket] /\ x.socket \notin gone_sockets

\* The inductive invariant, for strands that are free.
ChannelInv ==
  /\ ChannelTypes /\ OneTaskEach(strand)
  /\ gone => strand = <<>>
  /\ \A x \in ChannelTasks : Waits(strand, x) => ChannelTaskOk(x)
  /\ \A s \in ChannelSockets : channel_users[s] # NoName => MemberOk(s)
  /\ \A s \in ChannelSockets : channel_users[s] # NoName /\ ~writing =>
       Fresh(pending[s], told_status[s], status)
  /\ \A s \in ChannelSockets : channel_users[s] # NoName =>
       view[s] = Channel!Listed(channel_users)

\* What is assumed of the constants.
LEMMA ChannelConstants ==
  /\ IsFiniteSet(ChannelSockets) /\ NoName \notin Names /\ "join" \notin Statuses
  /\ Prompt \in BOOLEAN /\ MaxChannelTasks \in Nat
<1>1. Channel!IsFiniteSet(ChannelSockets) <=> IsFiniteSet(ChannelSockets)
  BY DEF Channel!IsFiniteSet, IsFiniteSet
<1> QED BY <1>1, PartsAssumption DEF Channel!UserChannelAssumption

\* The entries of a list of users.
LEMMA ListedEntry ==
  ASSUME NEW u \in [ChannelSockets -> Names \cup {NoName}], NEW n \in Names
  PROVE  /\ Channel!Listed(u)[n] = Cardinality({s \in ChannelSockets : u[s] = n})
         /\ Channel!Listed(u)[n] \in Nat
         /\ IsFiniteSet({s \in ChannelSockets : u[s] = n})
<1> DEFINE S == {s \in ChannelSockets : u[s] = n}
<1>1. Channel!Cardinality(S) = Cardinality(S)
  BY DEF Channel!Cardinality, Cardinality
<1>2. IsFiniteSet(S) /\ Cardinality(S) \in Nat
  BY ChannelConstants, FS_Subset, FS_CardinalityType
<1>3. Channel!Listed(u)[n] = Channel!Cardinality(S)
  BY DEF Channel!Listed
<1> QED BY <1>1, <1>2, <1>3

\* A list of users is a function to numbers.
LEMMA ListedType ==
  ASSUME NEW u \in [ChannelSockets -> Names \cup {NoName}]
  PROVE  Channel!Listed(u) \in [Names -> Nat]
<1>1. Channel!Listed(u) = [n \in Names |-> Channel!Listed(u)[n]]
  BY DEF Channel!Listed
<1> HIDE DEF Channel!Listed
<1>2. \A n \in Names : Channel!Listed(u)[n] \in Nat
  BY ListedEntry
<1> QED BY <1>1, <1>2

\* A user more is one entry more.
LEMMA ListedWith ==
  ASSUME NEW u \in [ChannelSockets -> Names \cup {NoName}], NEW s \in ChannelSockets,
         NEW n \in Names, u[s] = NoName
  PROVE  Channel!Listed([u EXCEPT ![s] = n]) =
           [Channel!Listed(u) EXCEPT ![n] = @ + 1]
<1> DEFINE w == [u EXCEPT ![s] = n]
           Has(f, k) == {t \in ChannelSockets : f[t] = k}
<1>1. w \in [ChannelSockets -> Names \cup {NoName}]
  OBVIOUS
<1>2. Has(w, n) = Has(u, n) \cup {s} /\ s \notin Has(u, n)
  BY ChannelConstants
<1>3. \A k \in Names \ {n} : Has(w, k) = Has(u, k)
  BY ChannelConstants
<1>4. IsFiniteSet(Has(u, n))
  BY ListedEntry
<1> HIDE DEF w
<1>5. Cardinality(Has(w, n)) = Cardinality(Has(u, n)) + 1
  BY <1>2, <1>4, FS_AddElement
<1>6. Channel!Listed(w)[n] = Channel!Listed(u)[n] + 1
  BY <1>1, <1>5, ListedEntry
<1>7. ASSUME NEW k \in Names \ {n} PROVE Channel!Listed(w)[k] = Channel!Listed(u)[k]
  <2>1. Channel!Listed(w)[k] = Cardinality(Has(w, k))
    BY <1>1, ListedEntry
  <2>2. Channel!Listed(u)[k] = Cardinality(Has(u, k))
    BY ListedEntry
  <2> QED BY <1>3, <2>1, <2>2
<1>8. Channel!Listed(w) \in [Names -> Nat] /\ Channel!Listed(u) \in [Names -> Nat]
  BY <1>1, ListedType
<1>9. Channel!Listed(w) = [Channel!Listed(u) EXCEPT ![n] = @ + 1]
  BY <1>6, <1>7, <1>8
<1> QED BY <1>9 DEF w

\* A user less is one entry less, and there was one.
LEMMA ListedWithout ==
  ASSUME NEW u \in [ChannelSockets -> Names \cup {NoName}], NEW s \in ChannelSockets,
         u[s] # NoName
  PROVE  /\ Channel!Listed([u EXCEPT ![s] = NoName]) =
              [Channel!Listed(u) EXCEPT ![u[s]] = @ - 1]
         /\ Channel!Listed(u)[u[s]] > 0
<1> DEFINE w == [u EXCEPT ![s] = NoName]
<1>1. w \in [ChannelSockets -> Names \cup {NoName}] /\ w[s] = NoName
  OBVIOUS
<1>2. u = [w EXCEPT ![s] = u[s]] /\ u[s] \in Names
  OBVIOUS
<1> HIDE DEF w
<1>3. Channel!Listed(u) = [Channel!Listed(w) EXCEPT ![u[s]] = @ + 1]
  <2>1. \A n \in Names : Channel!Listed([w EXCEPT ![s] = n]) =
          [Channel!Listed(w) EXCEPT ![n] = @ + 1]
    BY <1>1, ListedWith
  <2> QED BY <1>2, <2>1
<1>4. Channel!Listed(w) \in [Names -> Nat] /\ Channel!Listed(u) \in [Names -> Nat]
  BY <1>1, ListedType
<1> DEFINE lu == Channel!Listed(u)
           lw == Channel!Listed(w)
<1> HIDE DEF lu, lw
<1>5. lu = [lw EXCEPT ![u[s]] = @ + 1] /\ lw \in [Names -> Nat]
  BY <1>3, <1>4 DEF lu, lw
<1>6. lw = [lu EXCEPT ![u[s]] = @ - 1] /\ lu[u[s]] > 0
  <2>1. /\ lw[u[s]] \in Nat /\ lu[u[s]] = lw[u[s]] + 1 /\ lu \in [Names -> Nat]
        /\ \A k \in Names \ {u[s]} : lu[k] = lw[k]
    BY <1>2, <1>5
  <2>2. lu[u[s]] - 1 = lw[u[s]] /\ lu[u[s]] > 0
    BY <2>1
  <2>3. \A k \in Names : lw[k] = [lu EXCEPT ![u[s]] = @ - 1][k]
    BY <2>1, <2>2
  <2> QED BY <1>5, <2>1, <2>2, <2>3
<1> QED BY <1>6 DEF w, lu, lw

\* The head of the strand leaves it.
LEMMA StrandTail ==
  ASSUME NEW m \in Seq(ChannelTasks), m # <<>>, OneTaskEach(m)
  PROVE  /\ Head(m) \in ChannelTasks /\ Waits(m, Head(m))
         /\ Tail(m) \in Seq(ChannelTasks) /\ Len(Tail(m)) = Len(m) - 1
         /\ OneTaskEach(Tail(m))
         /\ \A x \in ChannelTasks :
              Waits(Tail(m), x) <=> Waits(m, x) /\ x.socket # Head(m).socket
<1> DEFINE p == Tail(m)
<1>1. /\ Len(m) \in Nat /\ Len(m) >= 1 /\ Head(m) = m[1]
      /\ p \in Seq(ChannelTasks) /\ Len(p) = Len(m) - 1
      /\ \A i \in 1 .. Len(p) : p[i] = m[i + 1]
      /\ \A i \in 1 .. Len(m) : m[i] \in ChannelTasks
  OBVIOUS
<1>2. 1 \in 1 .. Len(m) /\ \A i \in 1 .. Len(p) : i + 1 \in 1 .. Len(m)
  BY <1>1
<1> HIDE DEF p
<1>3. OneTaskEach(p)
  <2> SUFFICES ASSUME NEW i \in 1 .. Len(p), NEW j \in 1 .. Len(p),
                      p[i].socket = p[j].socket
               PROVE  i = j
    BY DEF OneTaskEach
  <2>1. i + 1 = j + 1
    BY <1>1, <1>2 DEF OneTaskEach
  <2> QED BY <2>1
<1>4. ASSUME NEW x \in ChannelTasks
      PROVE  Waits(p, x) <=> Waits(m, x) /\ x.socket # m[1].socket
  <2>1. ASSUME NEW i \in 1 .. Len(p), p[i] = x
        PROVE  Waits(m, x) /\ x.socket # m[1].socket
    <3>1. m[i + 1] = x /\ i + 1 \in 1 .. Len(m) /\ i + 1 # 1
      BY <1>1, <1>2, <2>1
    <3> QED BY <1>2, <3>1 DEF Waits, OneTaskEach
  <2>2. ASSUME NEW i \in 1 .. Len(m), m[i] = x, x.socket # m[1].socket
        PROVE  Waits(p, x)
    <3>1. i # 1 /\ i - 1 \in 1 .. Len(p)
      BY <1>1, <2>2
    <3>2. p[i - 1] = m[(i - 1) + 1] /\ (i - 1) + 1 = i
      BY <1>1, <3>1
    <3> QED BY <2>2, <3>1, <3>2 DEF Waits
  <2> QED BY <2>1, <2>2 DEF Waits
<1> QED BY <1>1, <1>2, <1>3, <1>4 DEF Waits, p

\* A task goes behind the others, of which none is its socket's.
LEMMA StrandAppend ==
  ASSUME NEW m \in Seq(ChannelTasks), OneTaskEach(m), NEW task \in ChannelTasks,
         \A i \in 1 .. Len(m) : m[i].socket # task.socket
  PROVE  /\ Append(m, task) \in Seq(ChannelTasks)
         /\ Len(Append(m, task)) = Len(m) + 1 /\ OneTaskEach(Append(m, task))
         /\ \A x \in ChannelTasks : Waits(Append(m, task), x) <=> Waits(m, x) \/ x = task
<1> DEFINE p == Append(m, task)
<1>1. /\ Len(m) \in Nat /\ p \in Seq(ChannelTasks) /\ Len(p) = Len(m) + 1
      /\ \A i \in 1 .. Len(m) : p[i] = m[i] /\ i \in 1 .. Len(p)
      /\ p[Len(p)] = task /\ Len(p) \in 1 .. Len(p)
  OBVIOUS
<1>2. \A i \in 1 .. Len(p) : i \in 1 .. Len(m) \/ i = Len(p)
  BY <1>1
<1> HIDE DEF p
<1>3. OneTaskEach(p)
  BY <1>1, <1>2 DEF OneTaskEach
<1>4. \A x \in ChannelTasks : Waits(p, x) <=> Waits(m, x) \/ x = task
  BY <1>1, <1>2 DEF Waits
<1> QED BY <1>1, <1>3, <1>4 DEF p

\* The lists of the members' clients are the list of the users.
Agrees(u, v) ==
  /\ v \in [ChannelSockets -> [Names -> Nat]]
  /\ \A m \in ChannelSockets : u[m] # NoName => v[m] = Channel!Listed(u)

AllMembers(u) == {m \in ChannelSockets : u[m] # NoName}

\* AddUser(): the others are sent the new user, which is sent the whole list.
LEMMA AgreesWith ==
  ASSUME NEW u \in [ChannelSockets -> Names \cup {NoName}], NEW v, Agrees(u, v),
         NEW s \in ChannelSockets, NEW n \in Names, u[s] = NoName
  PROVE  LET w == [u EXCEPT ![s] = n] IN
         Agrees(w, [Channel!Shows(v, AllMembers(u) \ {s}, n) EXCEPT
                      ![s] = Channel!Listed(w)])
<1> DEFINE w == [u EXCEPT ![s] = n]
           lu == Channel!Listed(u)
           lw == Channel!Listed(w)
           new == [Channel!Shows(v, AllMembers(u) \ {s}, n) EXCEPT ![s] = lw]
<1>1. w \in [ChannelSockets -> Names \cup {NoName}]
      /\ \A m \in ChannelSockets \ {s} : w[m] = u[m]
  OBVIOUS
<1>2. lw = [lu EXCEPT ![n] = @ + 1]
  <2>1. \A k \in Names : Channel!Listed([u EXCEPT ![s] = k]) =
          [Channel!Listed(u) EXCEPT ![k] = @ + 1]
    BY ListedWith
  <2> QED BY <2>1
<1>3. lw \in [Names -> Nat] /\ lu \in [Names -> Nat]
  BY <1>1, ListedType
<1> HIDE DEF w, lu, lw
<1>4. v \in [ChannelSockets -> [Names -> Nat]]
      /\ \A m \in AllMembers(u) : v[m] = lu
  BY DEF Agrees, AllMembers, lu
<1>5. new[s] = lw /\ \A m \in ChannelSockets \ {s} :
        new[m] = IF m \in AllMembers(u) THEN [v[m] EXCEPT ![n] = @ + 1] ELSE v[m]
  BY DEF Channel!Shows, AllMembers
<1>6. new \in [ChannelSockets -> [Names -> Nat]]
  <2>1. \A m \in ChannelSockets : new[m] \in [Names -> Nat]
    <3> SUFFICES ASSUME NEW m \in ChannelSockets, m # s
                 PROVE  new[m] \in [Names -> Nat]
      BY <1>3, <1>5
    <3>1. v[m] \in [Names -> Nat] /\ v[m][n] + 1 \in Nat
      BY <1>4
    <3>2. [v[m] EXCEPT ![n] = @ + 1] \in [Names -> Nat]
      BY <3>1
    <3> HIDE DEF new
    <3> QED BY <1>5, <3>1, <3>2
  <2>2. new = [m \in ChannelSockets |-> new[m]]
    BY DEF Channel!Shows
  <2> HIDE DEF new
  <2> QED BY <2>1, <2>2
<1>7. ASSUME NEW m \in ChannelSockets, w[m] # NoName PROVE new[m] = lw
  <2>1. CASE m = s
    BY <1>5, <2>1
  <2>2. CASE m # s
    <3>1. m \in AllMembers(u) /\ v[m] = lu
      BY <1>1, <1>4, <1>7, <2>2 DEF AllMembers
    <3> QED BY <1>2, <1>5, <2>2, <3>1
  <2> QED BY <2>1, <2>2
<1> QED BY <1>6, <1>7 DEF Agrees, w, lw

\* RemoveUser(): the members are sent that the user has gone.
LEMMA AgreesWithout ==
  ASSUME NEW u \in [ChannelSockets -> Names \cup {NoName}], NEW v, Agrees(u, v),
         NEW s \in ChannelSockets, u[s] # NoName
  PROVE  /\ Channel!Hides(v, AllMembers(u), u[s]) \in
              [ChannelSockets -> [Names -> Nat]]
         /\ \A m \in AllMembers(u) : Channel!Hides(v, AllMembers(u), u[s])[m] =
              Channel!Listed([u EXCEPT ![s] = NoName])
<1> DEFINE w == [u EXCEPT ![s] = NoName]
           lu == Channel!Listed(u)
           lw == Channel!Listed(w)
           new == Channel!Hides(v, AllMembers(u), u[s])
<1>1. w \in [ChannelSockets -> Names \cup {NoName}] /\ u[s] \in Names
  OBVIOUS
<1>2. lw = [lu EXCEPT ![u[s]] = @ - 1] /\ lu[u[s]] > 0
  BY ListedWithout
<1>3. lw \in [Names -> Nat] /\ lu \in [Names -> Nat]
  BY <1>1, ListedType
<1> HIDE DEF w, lu, lw
<1>4. v \in [ChannelSockets -> [Names -> Nat]]
      /\ \A m \in AllMembers(u) : v[m] = lu
  BY DEF Agrees, AllMembers, lu
<1>5. \A m \in AllMembers(u) : new[m] = lw
  BY <1>2, <1>4 DEF Channel!Hides, AllMembers
<1>6. \A m \in ChannelSockets \ AllMembers(u) : new[m] = v[m]
  BY DEF Channel!Hides
<1>7. new = [m \in ChannelSockets |-> new[m]]
  BY DEF Channel!Hides
<1> HIDE DEF new
<1>8. \A m \in ChannelSockets : new[m] \in [Names -> Nat]
  BY <1>3, <1>4, <1>5, <1>6
<1>9. new \in [ChannelSockets -> [Names -> Nat]]
  BY <1>7, <1>8
<1> QED BY <1>5, <1>9 DEF new, w, lw

\* Leaving, with the list of the socket itself emptied.
LEMMA AgreesLeft ==
  ASSUME NEW u \in [ChannelSockets -> Names \cup {NoName}], NEW v, Agrees(u, v),
         NEW s \in ChannelSockets, u[s] # NoName
  PROVE  Agrees([u EXCEPT ![s] = NoName],
                [Channel!Hides(v, AllMembers(u), u[s]) EXCEPT ![s] = Channel!NoUsers])
<1> DEFINE h == Channel!Hides(v, AllMembers(u), u[s])
           w == [u EXCEPT ![s] = NoName]
<1>1. h \in [ChannelSockets -> [Names -> Nat]]
      /\ \A m \in AllMembers(u) : h[m] = Channel!Listed(w)
  BY AgreesWithout
<1>2. Channel!NoUsers \in [Names -> Nat]
  BY DEF Channel!NoUsers
<1>3. \A m \in ChannelSockets : w[m] # NoName => m # s /\ m \in AllMembers(u)
  BY DEF AllMembers
<1> HIDE DEF h, w
<1>4. Agrees(w, [h EXCEPT ![s] = Channel!NoUsers])
  BY <1>1, <1>2, <1>3 DEF Agrees
<1> QED BY <1>4 DEF h, w

\* SetUserData(): the members are sent the old name and the new one.
LEMMA AgreesRenamed ==
  ASSUME NEW u \in [ChannelSockets -> Names \cup {NoName}], NEW v, Agrees(u, v),
         NEW s \in ChannelSockets, u[s] # NoName, NEW n \in Names
  PROVE  Agrees([u EXCEPT ![s] = n],
           Channel!Shows(Channel!Hides(v, AllMembers(u), u[s]), AllMembers(u), n))
<1> DEFINE h == Channel!Hides(v, AllMembers(u), u[s])
           w == [u EXCEPT ![s] = NoName]
           z == [u EXCEPT ![s] = n]
           lw == Channel!Listed(w)
           lz == Channel!Listed(z)
           new == Channel!Shows(h, AllMembers(u), n)
<1>1. h \in [ChannelSockets -> [Names -> Nat]] /\ \A m \in AllMembers(u) : h[m] = lw
  BY AgreesWithout
<1>2. /\ w \in [ChannelSockets -> Names \cup {NoName}] /\ w[s] = NoName
      /\ z = [w EXCEPT ![s] = n] /\ z \in [ChannelSockets -> Names \cup {NoName}]
      /\ \A m \in ChannelSockets : z[m] # NoName => m \in AllMembers(u)
  BY DEF AllMembers
<1> HIDE DEF h, w, z
<1>3. \A k \in Names : Channel!Listed([w EXCEPT ![s] = k]) =
        [Channel!Listed(w) EXCEPT ![k] = @ + 1]
  <2>1. w \in [ChannelSockets -> Names \cup {NoName}] /\ w[s] = NoName
    BY <1>2
  <2> QED BY <2>1, ListedWith
<1>4. lz = [lw EXCEPT ![n] = @ + 1]
  BY <1>2, <1>3
<1>5. lz \in [Names -> Nat] /\ lw \in [Names -> Nat]
  BY <1>2, ListedType
<1> HIDE DEF lw, lz
<1>6. \A m \in AllMembers(u) : new[m] = lz
  BY <1>1, <1>4 DEF Channel!Shows, AllMembers
<1>7. \A m \in ChannelSockets \ AllMembers(u) : new[m] = h[m]
  BY DEF Channel!Shows
<1>8. new = [m \in ChannelSockets |-> new[m]]
  BY DEF Channel!Shows
<1> HIDE DEF new
<1>9. \A m \in ChannelSockets : new[m] \in [Names -> Nat]
  BY <1>1, <1>5, <1>6, <1>7
<1>10. new \in [ChannelSockets -> [Names -> Nat]]
  BY <1>8, <1>9
<1> QED BY <1>2, <1>6, <1>10 DEF Agrees, new, h, z, lz

\* The variables a step of the channel's strand leaves alone, and what follows
\* for the sockets whose task it is not.
LEMMA RunsTask ==
  ASSUME ChannelInv, NEW op, Channel!Run(op), strand' = Tail(strand)
  PROVE  /\ Head(strand) \in ChannelTasks /\ Head(strand).op = op
         /\ ChannelTaskOk(Head(strand)) /\ ~writing /\ ~gone
         /\ strand' \in Seq(ChannelTasks) /\ Len(strand') <= MaxChannelTasks
         /\ OneTaskEach(strand')
         /\ \A x \in ChannelTasks : Waits(strand', x) =>
              Waits(strand, x) /\ x.socket # Head(strand).socket
         /\ \A s \in ChannelSockets \ {Head(strand).socket} : \A o :
              Asked(strand, s, o) => Asked(strand', s, o)
         /\ \A o : Asked(strand, Head(strand).socket, o) => o = op
<1>1. /\ strand \in Seq(ChannelTasks) /\ OneTaskEach(strand) /\ strand # <<>>
      /\ Head(strand).op = op /\ ~writing /\ ~gone
      /\ Len(strand) <= MaxChannelTasks
  BY DEF ChannelInv, ChannelTypes, Channel!Run
<1>2. PICK m \in Seq(ChannelTasks) : m = strand
  BY <1>1
<1>3. OneTaskEach(m) /\ m # <<>>
  BY <1>1, <1>2
<1>4. /\ Head(m) \in ChannelTasks /\ Waits(m, Head(m))
      /\ Tail(m) \in Seq(ChannelTasks) /\ Len(Tail(m)) = Len(m) - 1
      /\ OneTaskEach(Tail(m))
      /\ \A x \in ChannelTasks :
           Waits(Tail(m), x) <=> Waits(m, x) /\ x.socket # Head(m).socket
  BY <1>3, StrandTail
<1>5. Len(m) \in Nat /\ MaxChannelTasks \in Nat
  BY ChannelConstants
<1>6. ChannelTaskOk(Head(strand))
  BY <1>2, <1>4 DEF ChannelInv
<1>7. \A s \in ChannelSockets \ {Head(m).socket} : \A o :
        Asked(m, s, o) => Asked(Tail(m), s, o)
  BY <1>4 DEF Asked
<1>8. \A o : Asked(m, Head(m).socket, o) => o = op
  <2> SUFFICES ASSUME NEW x \in ChannelTasks, Waits(m, x),
                      x.socket = Head(m).socket
               PROVE  x.op = op
    BY DEF Asked
  <2>1. PICK i \in 1 .. Len(m) : m[i] = x
    BY DEF Waits
  <2>2. PICK j \in 1 .. Len(m) : m[j] = Head(m)
    BY <1>4 DEF Waits
  <2>3. i = j
    BY <2>1, <2>2, <1>3 DEF OneTaskEach
  <2> QED BY <1>1, <1>2, <2>1, <2>2, <2>3
<1>9. Len(Tail(m)) <= MaxChannelTasks
  BY <1>1, <1>2, <1>4, <1>5
<1> QED BY <1>1, <1>2, <1>4, <1>6, <1>7, <1>8, <1>9

\* What a step of the channel's strand keeps: the tasks that are left, and the
\* members whose task it was not.
LEMMA RunsKept ==
  ASSUME ChannelInv, NEW op, Channel!Run(op), strand' = Tail(strand),
         UNCHANGED <<username, gone_sockets, gone>>, connected \subseteq connected',
         \A s \in ChannelSockets \ {Head(strand).socket} :
           channel_users'[s] = channel_users[s]
  PROVE  /\ \A x \in ChannelTasks : Waits(strand', x) => ChannelTaskOk(x)'
         /\ \A s \in ChannelSockets \ {Head(strand).socket} :
              channel_users'[s] # NoName => MemberOk(s)'
<1>1. ASSUME NEW x \in ChannelTasks, Waits(strand', x) PROVE ChannelTaskOk(x)'
  <2>1. ChannelTaskOk(x)
    BY <1>1, RunsTask DEF ChannelInv
  <2> QED BY <2>1 DEF ChannelTaskOk
<1>2. ASSUME NEW s \in ChannelSockets \ {Head(strand).socket},
             channel_users'[s] # NoName
      PROVE  MemberOk(s)'
  <2>1. MemberOk(s) /\ channel_users'[s] = channel_users[s]
    BY <1>2 DEF ChannelInv
  <2>2. \A o : Asked(strand, s, o) => Asked(strand', s, o)
    BY <1>2, RunsTask
  <2> QED BY <2>1, <2>2 DEF MemberOk
<1> QED BY <1>1, <1>2

\* A socket without a task is a member only if it is connected, open and
\* listed under its name.
LEMMA WithoutTask ==
  ASSUME ChannelInv, NEW s \in ChannelSockets, channel_users[s] # NoName,
         ~Asked(strand, s, "leave"), ~Asked(strand, s, "update")
  PROVE  s \in connected /\ channel_users[s] = username[s] /\ s \notin gone_sockets
BY DEF ChannelInv, MemberOk

\* AddUser() for a socket that is no member (any more).
LEMMA AddUserStep ==
  ASSUME ChannelInv, Channel!Run("join"), strand' = Tail(strand),
         NEW us \in [ChannelSockets -> Names \cup {NoName}], NEW v, Agrees(us, v),
         us[Head(strand).socket] = NoName,
         \A s \in ChannelSockets \ {Head(strand).socket} : us[s] = channel_users[s],
         connected' = connected \cup {Head(strand).socket},
         Channel!AddUser(Head(strand).socket, Head(strand).name, us, v),
         UNCHANGED <<username, gone_sockets, status, writing, told_status, gone>>
  PROVE  ChannelInv'
<1> DEFINE h == Head(strand)
<1>1. PICK s \in ChannelSockets : s = h.socket
  BY RunsTask DEF ChannelTasks
<1>2. PICK n \in Names : n = h.name /\ n = username[s]
  BY <1>1, RunsTask DEF ChannelTaskOk, ChannelInv, ChannelTypes
<1>3. s \notin gone_sockets /\ ~writing /\ ~gone
  BY <1>1, RunsTask DEF ChannelTaskOk
<1>4. us[s] = NoName /\ \A t \in ChannelSockets \ {s} : us[t] = channel_users[t]
  BY <1>1
<1>5. Channel!AddUser(s, n, us, v)
  BY <1>1, <1>2
<1>6. /\ channel_users' = [us EXCEPT ![s] = n]
      /\ pending' = [pending EXCEPT ![s] = Append(@, "join")]
      /\ view' = [Channel!Shows(v, AllMembers(us) \ {s}, n) EXCEPT
                    ![s] = Channel!Listed(channel_users')]
  BY <1>4, <1>5 DEF Channel!AddUser, AllMembers
<1>7. channel_users' \in [ChannelSockets -> Names \cup {NoName}]
      /\ channel_users'[s] = n
      /\ \A t \in ChannelSockets \ {s} : channel_users'[t] = channel_users[t]
  BY <1>4, <1>6
<1>8. Agrees(channel_users', view')
  <2>1. \A k \in Names : Agrees([us EXCEPT ![s] = k],
          [Channel!Shows(v, AllMembers(us) \ {s}, k) EXCEPT
             ![s] = Channel!Listed([us EXCEPT ![s] = k])])
    BY <1>4, AgreesWith
  <2> QED BY <1>6, <2>1
<1>9. pending \in [ChannelSockets -> Seq(Statuses \cup {"join"})]
  BY DEF ChannelInv, ChannelTypes
<1>10. PICK p \in Seq(Statuses \cup {"join"}) : p = pending[s]
  BY <1>9
<1>11. /\ Append(p, "join") \in Seq(Statuses \cup {"join"})
       /\ Append(p, "join") # <<>>
       /\ Append(p, "join")[Len(Append(p, "join"))] = "join"
  OBVIOUS
<1>12. pending' = [pending EXCEPT ![s] = Append(p, "join")]
  BY <1>6, <1>10
<1>13. /\ pending' \in [ChannelSockets -> Seq(Statuses \cup {"join"})]
       /\ pending'[s] = Append(p, "join")
       /\ \A t \in ChannelSockets \ {s} : pending'[t] = pending[t]
  BY <1>9, <1>11, <1>12
<1>14. ChannelTypes'
  BY <1>1, <1>7, <1>8, <1>13, RunsTask DEF ChannelInv, ChannelTypes, Agrees
<1>15. /\ OneTaskEach(strand)' /\ gone' = FALSE
       /\ \A x \in ChannelTasks : Waits(strand', x) => ChannelTaskOk(x)'
       /\ \A t \in ChannelSockets \ {s} : channel_users'[t] # NoName => MemberOk(t)'
  BY <1>1, <1>3, <1>7, RunsTask, RunsKept
<1>16. MemberOk(s)'
  BY <1>1, <1>2, <1>3, <1>7 DEF MemberOk
<1>17. ASSUME NEW t \in ChannelSockets, channel_users'[t] # NoName, ~writing'
       PROVE  Fresh(pending'[t], told_status'[t], status')
  <2>1. CASE t = s
    BY <1>11, <1>13, <2>1 DEF Fresh
  <2>2. CASE t # s
    <3>1. channel_users[t] # NoName
      BY <1>7, <1>17, <2>2
    <3>2. Fresh(pending[t], told_status[t], status)
      BY <1>3, <3>1 DEF ChannelInv
    <3> QED BY <1>13, <2>2, <3>2
  <2> QED BY <2>1, <2>2
<1>18. \A t \in ChannelSockets : channel_users'[t] # NoName => MemberOk(t)'
  BY <1>15, <1>16
<1> QED BY <1>8, <1>14, <1>15, <1>17, <1>18 DEF ChannelInv, Agrees

\* The clients of the members are sent what the channel has.
LEMMA ChannelAgrees == ChannelInv => Agrees(channel_users, view)
BY DEF ChannelInv, ChannelTypes, Agrees

\* RemoveUser(): its list of users and what the clients show.
LEMMA RemovedUser ==
  ASSUME ChannelInv, NEW s \in ChannelSockets
  PROVE  /\ Channel!Without(s) \in [ChannelSockets -> Names \cup {NoName}]
         /\ Channel!Without(s)[s] = NoName
         /\ \A t \in ChannelSockets \ {s} : Channel!Without(s)[t] = channel_users[t]
         /\ Agrees(Channel!Without(s), Channel!ViewWithout(s))
<1>1. channel_users \in [ChannelSockets -> Names \cup {NoName}]
  BY DEF ChannelInv, ChannelTypes
<1>2. /\ Channel!Without(s) \in [ChannelSockets -> Names \cup {NoName}]
      /\ Channel!Without(s)[s] = NoName
      /\ \A t \in ChannelSockets \ {s} : Channel!Without(s)[t] = channel_users[t]
  BY <1>1 DEF Channel!Without
<1>3. CASE channel_users[s] = NoName
  <2>1. Channel!Without(s) = channel_users
    BY <1>1, <1>2, <1>3
  <2> QED BY <1>2, <1>3, <2>1, ChannelAgrees DEF Channel!ViewWithout
<1>4. CASE channel_users[s] # NoName
  <2>1. PICK u \in [ChannelSockets -> Names \cup {NoName}] : u = channel_users
    BY <1>1
  <2>2. PICK v : v = view
    OBVIOUS
  <2>3. Agrees(u, v) /\ u[s] # NoName
    BY <1>4, <2>1, <2>2, ChannelAgrees
  <2>4. Agrees([u EXCEPT ![s] = NoName],
               [Channel!Hides(v, AllMembers(u), u[s]) EXCEPT ![s] = Channel!NoUsers])
    BY <2>3, AgreesLeft
  <2>5. Channel!Members = AllMembers(u)
    BY <2>1 DEF Channel!Members, AllMembers
  <2>6. Agrees(Channel!Without(s), Channel!ViewWithout(s))
    BY <1>4, <2>1, <2>2, <2>4, <2>5 DEF Channel!Without, Channel!ViewWithout
  <2> QED BY <1>2, <2>6
<1> QED BY <1>3, <1>4

\* A join of a socket that was elsewhere.
LEMMA JoinStep == ASSUME ChannelInv, Prompt, Channel!Join PROVE ChannelInv'
<1> DEFINE h == Head(strand)
<1>1. /\ Channel!Run("join") /\ h.socket \notin connected
      /\ strand' = Tail(strand) /\ connected' = connected \cup {h.socket}
      /\ Channel!AddUser(h.socket, h.name, channel_users, view)
      /\ UNCHANGED <<username, gone_sockets, status, writing, told_status, gone>>
  BY DEF Channel!Join, Channel!told
<1>2. h.socket \in ChannelSockets
  BY <1>1, RunsTask DEF ChannelTasks
<1>3. channel_users[h.socket] = NoName
  <2>1. ~Asked(strand, h.socket, "leave") /\ ~Asked(strand, h.socket, "update")
    BY <1>1, RunsTask
  <2> QED BY <1>1, <1>2, <2>1, WithoutTask
<1>4. channel_users \in [ChannelSockets -> Names \cup {NoName}]
  BY DEF ChannelInv, ChannelTypes
<1> QED BY <1>1, <1>3, <1>4, ChannelAgrees, AddUserStep

\* A join of a socket that is in the channel.
LEMMA RejoinStep == ASSUME ChannelInv, Channel!Rejoin PROVE ChannelInv'
<1> DEFINE h == Head(strand)
<1>1. /\ Channel!Run("join") /\ h.socket \in connected
      /\ strand' = Tail(strand) /\ connected' = connected
      /\ Channel!AddUser(h.socket, h.name, Channel!Without(h.socket),
                         Channel!ViewWithout(h.socket))
      /\ UNCHANGED <<username, gone_sockets, status, writing, told_status, gone>>
  BY DEF Channel!Rejoin, Channel!told
<1>2. h.socket \in ChannelSockets
  BY <1>1, RunsTask DEF ChannelTasks
<1>3. connected' = connected \cup {h.socket}
  BY <1>1
<1>4. /\ Channel!Without(h.socket) \in [ChannelSockets -> Names \cup {NoName}]
      /\ Channel!Without(h.socket)[h.socket] = NoName
      /\ \A t \in ChannelSockets \ {h.socket} :
           Channel!Without(h.socket)[t] = channel_users[t]
      /\ Agrees(Channel!Without(h.socket), Channel!ViewWithout(h.socket))
  BY <1>2, RemovedUser
<1> QED BY <1>1, <1>3, <1>4, AddUserStep

\* The tasks of the strand that add nobody.
LEMMA OtherTaskStep ==
  ASSUME ChannelInv, NEW op, Channel!Run(op), strand' = Tail(strand),
         UNCHANGED <<username, connected, gone_sockets, status, writing, pending,
                     told_status, gone>>,
         channel_users' \in [ChannelSockets -> Names \cup {NoName}],
         Agrees(channel_users', view'),
         NEW h \in ChannelSockets, h = Head(strand).socket,
         \A s \in ChannelSockets \ {h} : channel_users'[s] = channel_users[s],
         channel_users'[h] # NoName => channel_users[h] # NoName /\ MemberOk(h)'
  PROVE  ChannelInv'
<1>1. ChannelTypes'
  BY RunsTask DEF ChannelInv, ChannelTypes, Agrees
<1>2. /\ OneTaskEach(strand)' /\ gone' = FALSE
      /\ \A x \in ChannelTasks : Waits(strand', x) => ChannelTaskOk(x)'
      /\ \A t \in ChannelSockets \ {h} : channel_users'[t] # NoName => MemberOk(t)'
  BY RunsTask, RunsKept
<1>3. \A t \in ChannelSockets : channel_users'[t] # NoName => MemberOk(t)'
  BY <1>2
<1>4. \A t \in ChannelSockets : channel_users'[t] # NoName => channel_users[t] # NoName
  OBVIOUS
<1>5. \A t \in ChannelSockets : channel_users'[t] # NoName /\ ~writing' =>
        Fresh(pending'[t], told_status'[t], status')
  BY <1>4 DEF ChannelInv
<1> QED BY <1>1, <1>2, <1>3, <1>5 DEF ChannelInv, Agrees

\* A join that is refused leaves the member it may have been.
LEMMA JoinFailsStep == ASSUME ChannelInv, Channel!JoinFails PROVE ChannelInv'
<1>1. /\ Channel!Run("join") /\ strand' = Tail(strand)
      /\ UNCHANGED <<username, connected, gone_sockets, channel_users, view, status,
                     writing, pending, told_status, gone>>
  BY DEF Channel!JoinFails, Channel!told
<1>2. PICK h \in ChannelSockets : h = Head(strand).socket
  BY <1>1, RunsTask DEF ChannelTasks
<1>3. ~Asked(strand, h, "leave") /\ ~Asked(strand, h, "update") /\ ~gone
  BY <1>1, <1>2, RunsTask
<1>4. channel_users[h] # NoName => MemberOk(h)'
  BY <1>1, <1>3, WithoutTask DEF MemberOk
<1>5. channel_users' \in [ChannelSockets -> Names \cup {NoName}]
  BY <1>1 DEF ChannelInv, ChannelTypes
<1>6. Agrees(channel_users', view')
  BY <1>1, ChannelAgrees
<1> QED BY <1>1, <1>2, <1>4, <1>5, <1>6, OtherTaskStep

\* RemoveUser().
LEMMA LeaveStep == ASSUME ChannelInv, Channel!Leave PROVE ChannelInv'
<1>1. PICK h : h = Head(strand).socket
  OBVIOUS
<1>2. /\ Channel!Run("leave") /\ strand' = Tail(strand)
      /\ channel_users' = Channel!Without(h) /\ view' = Channel!ViewWithout(h)
      /\ UNCHANGED <<username, connected, gone_sockets, status,
                     writing, pending, told_status, gone>>
  BY <1>1 DEF Channel!Leave, Channel!told
<1>3. h \in ChannelSockets
  BY <1>1, <1>2, RunsTask DEF ChannelTasks
<1>4. /\ channel_users' \in [ChannelSockets -> Names \cup {NoName}]
      /\ channel_users'[h] = NoName
      /\ \A t \in ChannelSockets \ {h} : channel_users'[t] = channel_users[t]
      /\ Agrees(channel_users', view')
  BY <1>2, <1>3, RemovedUser
<1> QED BY <1>1, <1>2, <1>3, <1>4, OtherTaskStep

\* The rest of SetUserData().
LEMMA UpdateStep == ASSUME ChannelInv, Channel!Update PROVE ChannelInv'
<1>1. PICK h, n : h = Head(strand).socket /\ n = Head(strand).name
  OBVIOUS
<1>2. /\ Channel!Run("update") /\ strand' = Tail(strand)
      /\ IF channel_users[h] = NoName THEN UNCHANGED <<channel_users, view>>
         ELSE /\ channel_users' = [channel_users EXCEPT ![h] = n]
              /\ view' = Channel!Shows(
                   Channel!Hides(view, Channel!Members, channel_users[h]),
                   Channel!Members, n)
      /\ UNCHANGED <<username, connected, gone_sockets, status,
                     writing, pending, told_status, gone>>
  BY <1>1 DEF Channel!Update, Channel!told
<1>3. h \in ChannelSockets
  BY <1>1, <1>2, RunsTask DEF ChannelTasks
<1>4. n = username[h] /\ h \notin gone_sockets /\ ~Asked(strand, h, "leave") /\ ~gone
  BY <1>1, <1>2, RunsTask DEF ChannelTaskOk
<1>5. n \in Names /\ channel_users \in [ChannelSockets -> Names \cup {NoName}]
  BY <1>3, <1>4 DEF ChannelInv, ChannelTypes
<1>6. CASE channel_users[h] = NoName
  BY <1>1, <1>2, <1>3, <1>5, <1>6, ChannelAgrees, OtherTaskStep
<1>7. CASE channel_users[h] # NoName
  <2>1. PICK u \in [ChannelSockets -> Names \cup {NoName}] : u = channel_users
    BY <1>5
  <2>2. PICK v : v = view
    OBVIOUS
  <2>3. Agrees(u, v) /\ u[h] # NoName
    BY <1>7, <2>1, <2>2, ChannelAgrees
  <2>4. Agrees([u EXCEPT ![h] = n],
          Channel!Shows(Channel!Hides(v, AllMembers(u), u[h]), AllMembers(u), n))
    BY <1>3, <1>5, <2>3, AgreesRenamed
  <2>5. Channel!Members = AllMembers(u)
    BY <2>1 DEF Channel!Members, AllMembers
  <2>6. Agrees(channel_users', view')
    BY <1>2, <1>7, <2>1, <2>2, <2>4, <2>5
  <2>7. /\ channel_users' \in [ChannelSockets -> Names \cup {NoName}]
        /\ channel_users'[h] = n
        /\ \A t \in ChannelSockets \ {h} : channel_users'[t] = channel_users[t]
    BY <1>2, <1>3, <1>5, <1>7
  <2>8. h \in connected
    BY <1>3, <1>4, <1>7 DEF ChannelInv, MemberOk
  <2>9. MemberOk(h)'
    BY <1>2, <1>4, <2>7, <2>8 DEF MemberOk
  <2> QED BY <1>1, <1>2, <1>3, <1>7, <2>6, <2>7, <2>9, OtherTaskStep
<1> QED BY <1>6, <1>7

\* A socket that may act has no task under way.
LEMMA SocketIsIdle ==
  ASSUME ChannelInv, Prompt, NEW s \in ChannelSockets, Channel!MayAct(s)
  PROVE  /\ s \notin gone_sockets
         /\ \A i \in 1 .. Len(strand) : strand[i].socket # s
         /\ \A x \in ChannelTasks : Waits(strand, x) => x.socket # s
         /\ \A o : ~Asked(strand, s, o)
<1>1. strand \in Seq(ChannelTasks)
  BY DEF ChannelInv, ChannelTypes
<1>2. s \notin gone_sockets /\ \A i \in 1 .. Len(strand) : strand[i].socket # s
  BY <1>1 DEF Channel!MayAct, Channel!Outstanding
<1> QED BY <1>2 DEF Waits, Asked

\* What a socket asks of the channel goes behind the tasks of others.
LEMMA ChannelDispatch ==
  ASSUME ChannelInv, Prompt, NEW s \in ChannelSockets, Channel!MayAct(s),
         NEW task \in ChannelTasks, task.socket = s, Channel!Dispatch(task)
  PROVE  /\ strand' \in Seq(ChannelTasks) /\ Len(strand') <= MaxChannelTasks
         /\ OneTaskEach(strand') /\ (gone => strand' = <<>>)
         /\ \A x \in ChannelTasks : Waits(strand', x) => Waits(strand, x) \/ x = task
         /\ \A t \in ChannelSockets : \A o : Asked(strand, t, o) => Asked(strand', t, o)
         /\ ~gone => Asked(strand', s, task.op)
<1>1. /\ strand \in Seq(ChannelTasks) /\ OneTaskEach(strand)
      /\ Len(strand) <= MaxChannelTasks /\ (gone => strand = <<>>)
      /\ gone \in BOOLEAN
  BY DEF ChannelInv, ChannelTypes
<1>2. CASE gone
  BY <1>1, <1>2 DEF Channel!Dispatch
<1>3. CASE ~gone
  <2>1. PICK m \in Seq(ChannelTasks) : m = strand
    BY <1>1
  <2>2. OneTaskEach(m) /\ \A i \in 1 .. Len(m) : m[i].socket # task.socket
    BY <1>1, <2>1, SocketIsIdle
  <2>3. /\ Append(m, task) \in Seq(ChannelTasks)
        /\ Len(Append(m, task)) = Len(m) + 1 /\ OneTaskEach(Append(m, task))
        /\ \A x \in ChannelTasks :
             Waits(Append(m, task), x) <=> Waits(m, x) \/ x = task
    BY <2>2, StrandAppend
  <2>4. strand' = Append(m, task) /\ Len(m) < MaxChannelTasks
    BY <1>3, <2>1 DEF Channel!Dispatch
  <2>5. Len(m) + 1 <= MaxChannelTasks
    BY <2>4, ChannelConstants
  <2>6. /\ \A t \in ChannelSockets : \A o : Asked(m, t, o) => Asked(Append(m, task), t, o)
        /\ Asked(Append(m, task), s, task.op)
    BY <2>3 DEF Asked
  <2> QED BY <1>3, <2>1, <2>3, <2>4, <2>5, <2>6
<1> QED BY <1>1, <1>2, <1>3

\* What sockets do leaves the channel's users and their lists alone.
LEMMA SocketKept ==
  ASSUME ChannelInv,
         strand' \in Seq(ChannelTasks), Len(strand') <= MaxChannelTasks,
         OneTaskEach(strand'), gone => strand' = <<>>,
         username' \in [ChannelSockets -> Names], connected' \subseteq ChannelSockets,
         gone_sockets' \subseteq ChannelSockets,
         UNCHANGED <<channel_users, view, status, writing, pending, told_status, gone>>,
         \A x \in ChannelTasks : Waits(strand', x) => ChannelTaskOk(x)',
         \A s \in ChannelSockets : channel_users[s] # NoName => MemberOk(s)'
  PROVE  ChannelInv'
<1>1. ChannelTypes'
  BY DEF ChannelInv, ChannelTypes
<1> QED BY <1>1 DEF ChannelInv

\* Names as tasks carry them.
LEMMA ChannelTask ==
  ASSUME NEW op \in {"join", "leave", "update"}, NEW s \in ChannelSockets,
         NEW n \in Names \cup {NoName}
  PROVE  /\ Channel!Task(op, s, n) \in ChannelTasks
         /\ Channel!Task(op, s, n).socket = s /\ Channel!Task(op, s, n).op = op
         /\ Channel!Task(op, s, n).name = n
BY DEF Channel!Task, ChannelTasks

\* CONNECT_TO_CHANNEL.
LEMMA ConnectToChannelStep ==
  ASSUME ChannelInv, Prompt, NEW s \in ChannelSockets, Channel!ConnectToChannel(s)
  PROVE  ChannelInv'
<1>1. PICK n : n = username[s]
  OBVIOUS
<1>2. n \in Names
  BY <1>1 DEF ChannelInv, ChannelTypes
<1>3. PICK task \in ChannelTasks : /\ task = Channel!Task("join", s, n)
                                   /\ task.socket = s /\ task.op = "join"
                                   /\ task.name = n
  BY <1>2, ChannelTask
<1>4. /\ Channel!MayAct(s) /\ Channel!Dispatch(task)
      /\ UNCHANGED <<username, connected, gone_sockets, channel_users, view, status,
                     writing, pending, told_status, gone>>
  BY <1>1, <1>3 DEF Channel!ConnectToChannel, Channel!told
<1>5. ASSUME NEW x \in ChannelTasks, Waits(strand', x) PROVE ChannelTaskOk(x)'
  <2>1. Waits(strand, x) \/ x = task
    BY <1>3, <1>4, <1>5, ChannelDispatch
  <2>2. Waits(strand, x) => ChannelTaskOk(x)
    BY DEF ChannelInv
  <2>3. s \notin gone_sockets
    BY <1>4, SocketIsIdle
  <2> QED BY <1>1, <1>3, <1>4, <2>1, <2>2, <2>3 DEF ChannelTaskOk
<1>6. ASSUME NEW t \in ChannelSockets, channel_users[t] # NoName PROVE MemberOk(t)'
  <2>1. MemberOk(t)
    BY <1>6 DEF ChannelInv
  <2>2. \A o : Asked(strand, t, o) => Asked(strand', t, o)
    BY <1>3, <1>4, ChannelDispatch
  <2> QED BY <1>4, <2>1, <2>2 DEF MemberOk
<1>7. /\ username' \in [ChannelSockets -> Names] /\ connected' \subseteq ChannelSockets
      /\ gone_sockets' \subseteq ChannelSockets
  BY <1>4 DEF ChannelInv, ChannelTypes
<1> QED BY <1>3, <1>4, <1>5, <1>6, <1>7, ChannelDispatch, SocketKept

\* A socket that goes to another channel, or is closed, asks to leave.
LEMMA AsksToLeave ==
  ASSUME ChannelInv, Prompt, NEW s \in ChannelSockets, Channel!MayAct(s),
         \/ Channel!Dispatch(Channel!Task("leave", s, NoName))
         \/ s \notin connected /\ UNCHANGED strand,
         connected \ {s} \subseteq connected', connected' \subseteq connected,
         gone_sockets' \subseteq gone_sockets \cup {s},
         gone_sockets \subseteq gone_sockets',
         UNCHANGED <<username, channel_users, view, status, writing, pending,
                     told_status, gone>>
  PROVE  ChannelInv'
<1>1. PICK task \in ChannelTasks : /\ task = Channel!Task("leave", s, NoName)
                                   /\ task.socket = s /\ task.op = "leave"
  BY ChannelTask
<1>2. /\ username' \in [ChannelSockets -> Names] /\ connected' \subseteq ChannelSockets
      /\ gone_sockets' \subseteq ChannelSockets
  BY DEF ChannelInv, ChannelTypes
<1>3. \A x \in ChannelTasks : Waits(strand, x) => ChannelTaskOk(x)'
  BY SocketIsIdle DEF ChannelInv, ChannelTaskOk
<1>4. CASE Channel!Dispatch(task)
  <2>1. ASSUME NEW x \in ChannelTasks, Waits(strand', x) PROVE ChannelTaskOk(x)'
    <3>1. Waits(strand, x) \/ x = task
      BY <1>1, <1>4, <2>1, ChannelDispatch
    <3> QED BY <1>1, <1>3, <3>1 DEF ChannelTaskOk
  <2>2. ASSUME NEW t \in ChannelSockets, channel_users[t] # NoName PROVE MemberOk(t)'
    <3>1. MemberOk(t)
      BY <2>2 DEF ChannelInv
    <3>2. \A o : Asked(strand, t, o) => Asked(strand', t, o)
      BY <1>1, <1>4, ChannelDispatch
    <3>3. ~gone => Asked(strand', s, "leave")
      BY <1>1, <1>4, ChannelDispatch
    <3>4. CASE t = s
      BY <3>1, <3>2, <3>3, <3>4 DEF MemberOk
    <3>5. CASE t # s
      BY <3>1, <3>2, <3>5 DEF MemberOk
    <3> QED BY <3>4, <3>5
  <2> QED BY <1>1, <1>2, <1>4, <2>1, <2>2, ChannelDispatch, SocketKept
<1>5. CASE s \notin connected /\ UNCHANGED strand
  <2>1. channel_users[s] = NoName
    BY <1>5, SocketIsIdle, WithoutTask
  <2>2. ASSUME NEW t \in ChannelSockets, channel_users[t] # NoName PROVE MemberOk(t)'
    <3>1. MemberOk(t) /\ t # s
      BY <2>1, <2>2 DEF ChannelInv
    <3> QED BY <1>5, <3>1 DEF MemberOk
  <2>3. /\ strand' \in Seq(ChannelTasks) /\ Len(strand') <= MaxChannelTasks
        /\ OneTaskEach(strand') /\ (gone => strand' = <<>>)
    BY <1>5 DEF ChannelInv, ChannelTypes
  <2>4. \A x \in ChannelTasks : Waits(strand', x) => ChannelTaskOk(x)'
    BY <1>3, <1>5
  <2> QED BY <1>2, <2>2, <2>3, <2>4, SocketKept
<1> QED BY <1>1, <1>4, <1>5

\* A change of name on the socket's side.
LEMMA SetUserDataStep ==
  ASSUME ChannelInv, Prompt, NEW s \in ChannelSockets, NEW n \in Names,
         Channel!SetUserData(s, n)
  PROVE  ChannelInv'
<1>1. PICK task \in ChannelTasks : /\ task = Channel!Task("update", s, n)
                                   /\ task.socket = s /\ task.op = "update"
                                   /\ task.name = n
  BY ChannelTask
<1>2. /\ Channel!MayAct(s) /\ username' = [username EXCEPT ![s] = n]
      /\ \/ s \in connected /\ Channel!Dispatch(task)
         \/ s \notin connected /\ UNCHANGED strand
      /\ UNCHANGED <<connected, gone_sockets, channel_users, view, status,
                     writing, pending, told_status, gone>>
  BY <1>1 DEF Channel!SetUserData, Channel!told
<1>3. /\ username' \in [ChannelSockets -> Names] /\ connected' \subseteq ChannelSockets
      /\ gone_sockets' \subseteq ChannelSockets /\ username'[s] = n
      /\ \A t \in ChannelSockets \ {s} : username'[t] = username[t]
  BY <1>2 DEF ChannelInv, ChannelTypes
<1>4. ASSUME NEW x \in ChannelTasks, Waits(strand, x) PROVE ChannelTaskOk(x)'
  <2>1. ChannelTaskOk(x) /\ x.socket # s /\ x.socket \in ChannelSockets
    BY <1>2, <1>4, SocketIsIdle DEF ChannelInv, ChannelTasks
  <2> QED BY <1>2, <1>3, <2>1 DEF ChannelTaskOk
<1>5. CASE s \in connected /\ Channel!Dispatch(task)
  <2>1. ASSUME NEW x \in ChannelTasks, Waits(strand', x) PROVE ChannelTaskOk(x)'
    <3>1. Waits(strand, x) \/ x = task
      BY <1>1, <1>2, <1>5, <2>1, ChannelDispatch
    <3>2. s \notin gone_sockets
      BY <1>2, SocketIsIdle
    <3> QED BY <1>1, <1>2, <1>3, <1>4, <3>1, <3>2 DEF ChannelTaskOk
  <2>2. ASSUME NEW t \in ChannelSockets, channel_users[t] # NoName PROVE MemberOk(t)'
    <3>1. MemberOk(t)
      BY <2>2 DEF ChannelInv
    <3>2. \A o : Asked(strand, t, o) => Asked(strand', t, o)
      BY <1>1, <1>2, <1>5, ChannelDispatch
    <3>3. ~gone => Asked(strand', s, "update")
      BY <1>1, <1>2, <1>5, ChannelDispatch
    <3>4. CASE t = s
      BY <1>2, <3>1, <3>2, <3>3, <3>4 DEF MemberOk
    <3>5. CASE t # s
      BY <1>2, <1>3, <3>1, <3>2, <3>5 DEF MemberOk
    <3> QED BY <3>4, <3>5
  <2> QED BY <1>1, <1>2, <1>3, <1>5, <2>1, <2>2, ChannelDispatch, SocketKept
<1>6. CASE s \notin connected /\ UNCHANGED strand
  <2>1. channel_users[s] = NoName
    BY <1>2, <1>6, SocketIsIdle, WithoutTask
  <2>2. ASSUME NEW t \in ChannelSockets, channel_users[t] # NoName PROVE MemberOk(t)'
    <3>1. MemberOk(t) /\ t # s
      BY <2>1, <2>2 DEF ChannelInv
    <3> QED BY <1>2, <1>3, <1>6, <3>1 DEF MemberOk
  <2>3. /\ strand' \in Seq(ChannelTasks) /\ Len(strand') <= MaxChannelTasks
        /\ OneTaskEach(strand') /\ (gone => strand' = <<>>)
    BY <1>6 DEF ChannelInv, ChannelTypes
  <2>4. \A x \in ChannelTasks : Waits(strand', x) => ChannelTaskOk(x)'
    BY <1>4, <1>6
  <2> QED BY <1>2, <1>3, <2>2, <2>3, <2>4, SocketKept
<1> QED BY <1>2, <1>5, <1>6

\* What concerns only the status: the users, the tasks and the sockets stay.
LEMMA StatusKept ==
  ASSUME ChannelInv,
         UNCHANGED <<username, connected, gone_sockets, channel_users, strand, view,
                     gone>>,
         status' \in Statuses, writing' \in BOOLEAN,
         pending' \in [ChannelSockets -> Seq(Statuses \cup {"join"})],
         told_status' \in [ChannelSockets -> Statuses],
         \A s \in ChannelSockets : channel_users[s] # NoName /\ ~writing' =>
           Fresh(pending'[s], told_status'[s], status')
  PROVE  ChannelInv'
<1>1. ChannelTypes'
  BY DEF ChannelInv, ChannelTypes
<1>2. \A x \in ChannelTasks : Waits(strand', x) => ChannelTaskOk(x)'
  BY DEF ChannelInv, ChannelTaskOk
<1>3. \A s \in ChannelSockets : channel_users'[s] # NoName => MemberOk(s)'
  BY DEF ChannelInv, MemberOk
<1> QED BY <1>1, <1>2, <1>3 DEF ChannelInv

\* The change of a status and its broadcast.
LEMMA BroadcastStep ==
  ASSUME ChannelInv,
         Channel!BroadcastMessage \/ \E v \in Statuses : Channel!ChangeStatus(v)
  PROVE  ChannelInv'
<1>1. ASSUME NEW v \in Statuses, Channel!ChangeStatus(v) PROVE ChannelInv'
  <2>1. /\ status' = v /\ writing' = TRUE
        /\ UNCHANGED <<username, connected, gone_sockets, channel_users, strand,
                       view, pending, told_status, gone>>
    BY <1>1 DEF Channel!ChangeStatus
  <2> QED BY <2>1, StatusKept DEF ChannelInv, ChannelTypes
<1>2. CASE Channel!BroadcastMessage
  <2>1. /\ writing' = FALSE
        /\ pending' = [m \in ChannelSockets |->
             IF m \in Channel!Members THEN Append(pending[m], status) ELSE pending[m]]
        /\ UNCHANGED <<username, connected, gone_sockets, channel_users, strand,
                       view, status, told_status, gone>>
    BY <1>2 DEF Channel!BroadcastMessage
  <2>2. /\ pending \in [ChannelSockets -> Seq(Statuses \cup {"join"})]
        /\ status \in Statuses /\ told_status \in [ChannelSockets -> Statuses]
    BY DEF ChannelInv, ChannelTypes
  <2>3. ASSUME NEW s \in ChannelSockets
        PROVE  /\ pending'[s] \in Seq(Statuses \cup {"join"})
               /\ channel_users[s] # NoName =>
                    Fresh(pending'[s], told_status'[s], status')
    <3>1. PICK p \in Seq(Statuses \cup {"join"}) : p = pending[s]
      BY <2>2
    <3>2. PICK v \in Statuses : v = status
      BY <2>2
    <3>3. /\ Append(p, v) \in Seq(Statuses \cup {"join"})
          /\ Append(p, v) # <<>> /\ Append(p, v)[Len(Append(p, v))] = v
      OBVIOUS
    <3>4. pending'[s] = IF channel_users[s] # NoName THEN Append(p, v) ELSE p
      BY <2>1, <3>1, <3>2 DEF Channel!Members
    <3>5. status' = v
      BY <2>1, <3>2
    <3> QED BY <3>3, <3>4, <3>5 DEF Fresh
  <2>4. pending' \in [ChannelSockets -> Seq(Statuses \cup {"join"})]
    <3>1. pending' = [m \in ChannelSockets |-> pending'[m]]
      BY <2>1
    <3> QED BY <2>3, <3>1
  <2>5. status' \in Statuses /\ told_status' \in [ChannelSockets -> Statuses]
    BY <2>1, <2>2
  <2> QED BY <2>1, <2>3, <2>4, <2>5, StatusKept
<1> QED BY <1>1, <1>2

\* A message of the send strand is written: what is left of the strand ends
\* with the same message, or the status has been written now.
LEMMA WrittenStep ==
  ASSUME ChannelInv, NEW s \in ChannelSockets, pending[s] # <<>>,
         pending' = [pending EXCEPT ![s] = Tail(@)], NEW v \in Statuses,
         told_status' = [told_status EXCEPT ![s] = v],
         ~writing /\ ~gone => v = (IF Head(pending[s]) = "join" THEN status
                                   ELSE Head(pending[s])),
         UNCHANGED <<username, connected, gone_sockets, channel_users, strand, view,
                     status, writing, gone>>
  PROVE  ChannelInv'
<1>1. /\ pending \in [ChannelSockets -> Seq(Statuses \cup {"join"})]
      /\ status \in Statuses /\ told_status \in [ChannelSockets -> Statuses]
      /\ writing \in BOOLEAN
  BY DEF ChannelInv, ChannelTypes
<1>2. PICK p \in Seq(Statuses \cup {"join"}) : p = pending[s]
  BY <1>1
<1>3. /\ p # <<>> /\ Tail(p) \in Seq(Statuses \cup {"join"})
      /\ Tail(p) = <<>> => p[Len(p)] = Head(p)
      /\ Tail(p) # <<>> => Tail(p)[Len(Tail(p))] = p[Len(p)]
  <2>1. /\ p # <<>> /\ Len(p) \in Nat /\ Len(p) >= 1 /\ Head(p) = p[1]
        /\ Tail(p) \in Seq(Statuses \cup {"join"}) /\ Len(Tail(p)) = Len(p) - 1
        /\ \A i \in 1 .. Len(p) - 1 : Tail(p)[i] = p[i + 1]
    BY <1>2
  <2>2. CASE Tail(p) = <<>>
    <3>1. Len(p) = 1
      BY <2>1, <2>2
    <3> QED BY <2>1, <2>2, <3>1
  <2>3. CASE Tail(p) # <<>>
    <3>1. Len(p) - 1 \in 1 .. Len(p) - 1 /\ (Len(p) - 1) + 1 = Len(p)
      BY <2>1, <2>3
    <3> QED BY <2>1, <2>3, <3>1
  <2> QED BY <2>2, <2>3
<1>4. /\ pending' \in [ChannelSockets -> Seq(Statuses \cup {"join"})]
      /\ pending'[s] = Tail(p)
      /\ \A t \in ChannelSockets \ {s} : pending'[t] = pending[t]
      /\ told_status' \in [ChannelSockets -> Statuses] /\ told_status'[s] = v
      /\ \A t \in ChannelSockets \ {s} : told_status'[t] = told_status[t]
  BY <1>1, <1>2, <1>3
<1>5. ASSUME NEW t \in ChannelSockets, channel_users[t] # NoName, ~writing
      PROVE  Fresh(pending'[t], told_status'[t], status)
  <2>1. Fresh(pending[t], told_status[t], status) /\ ~gone
    BY <1>5 DEF ChannelInv, MemberOk
  <2>2. CASE t = s
    <3>1. p[Len(p)] \in {"join", status}
      BY <1>2, <1>3, <2>1, <2>2 DEF Fresh
    <3>2. CASE Tail(p) = <<>>
      <4>1. Head(p) \in {"join", status}
        BY <1>3, <3>1, <3>2
      <4>2. v = status
        BY <1>2, <1>5, <2>1, <4>1
      <4> QED BY <1>4, <2>2, <3>2, <4>2 DEF Fresh
    <3>3. CASE Tail(p) # <<>>
      BY <1>3, <1>4, <2>2, <3>1, <3>3 DEF Fresh
    <3> QED BY <3>2, <3>3
  <2>3. CASE t # s
    BY <1>4, <2>1, <2>3
  <2> QED BY <2>2, <2>3
<1> QED BY <1>1, <1>4, <1>5, StatusKept

\* The two kinds of messages.
LEMMA WriteStep ==
  ASSUME ChannelInv, NEW s \in ChannelSockets,
         Channel!WriteChannelJoinMessages(s) \/ Channel!QueueMessage(s)
  PROVE  ChannelInv'
<1>1. CASE Channel!WriteChannelJoinMessages(s)
  <2>1. PICK v \in IF writing \/ gone THEN Statuses ELSE {status} :
          told_status' = [told_status EXCEPT ![s] = v]
    BY <1>1 DEF Channel!WriteChannelJoinMessages
  <2>2. v \in Statuses
    BY <2>1 DEF ChannelInv, ChannelTypes
  <2>3. /\ pending[s] # <<>> /\ Head(pending[s]) = "join"
        /\ pending' = [pending EXCEPT ![s] = Tail(@)]
        /\ UNCHANGED <<username, connected, gone_sockets, channel_users, strand,
                       view, status, writing, gone>>
    BY <1>1 DEF Channel!WriteChannelJoinMessages
  <2> QED BY <2>1, <2>2, <2>3, WrittenStep
<1>2. CASE Channel!QueueMessage(s)
  <2>1. /\ pending[s] # <<>> /\ Head(pending[s]) # "join"
        /\ pending' = [pending EXCEPT ![s] = Tail(@)]
        /\ told_status' = [told_status EXCEPT ![s] = Head(pending[s])]
        /\ UNCHANGED <<username, connected, gone_sockets, channel_users, strand,
                       view, status, writing, gone>>
    BY <1>2 DEF Channel!QueueMessage
  <2>2. pending[s] \in Seq(Statuses \cup {"join"})
    BY DEF ChannelInv, ChannelTypes
  <2>3. PICK v : v = Head(pending[s])
    OBVIOUS
  <2>4. v \in Statuses
    BY <2>1, <2>2, <2>3
  <2> QED BY <2>1, <2>3, <2>4, WrittenStep
<1> QED BY <1>1, <1>2

\* The VM is deleted, with its users.
LEMMA ClearStep == ASSUME ChannelInv, Channel!Clear PROVE ChannelInv'
<1>1. /\ strand = <<>> /\ gone' = TRUE
      /\ channel_users' = [s \in ChannelSockets |-> NoName]
      /\ view' = [s \in ChannelSockets |-> Channel!NoUsers]
      /\ UNCHANGED <<username, connected, gone_sockets, strand, status, writing,
                     told_status, pending>>
  BY DEF Channel!Clear, Channel!told
<1>2. Channel!NoUsers \in [Names -> Nat]
  BY DEF Channel!NoUsers
<1>3. ChannelTypes'
  BY <1>1, <1>2 DEF ChannelInv, ChannelTypes
<1>4. \A s \in ChannelSockets : channel_users'[s] = NoName
  BY <1>1
<1>5. \A x \in ChannelTasks : Waits(strand', x) => ChannelTaskOk(x)'
  BY <1>1 DEF ChannelInv, ChannelTaskOk
<1> QED BY <1>1, <1>3, <1>4, <1>5 DEF ChannelInv

\* Every step of the channel keeps its invariant.
LEMMA ChannelStep ==
  ASSUME ChannelInv, Prompt, [Channel!Next]_channel_vars
  PROVE  ChannelInv'
<1>1. CASE UNCHANGED channel_vars
  BY <1>1, StatusKept DEF channel_vars, ChannelInv, ChannelTypes
<1>2. CASE Channel!Next
  <2>1. ASSUME NEW s \in ChannelSockets, Channel!ConnectElsewhere(s) PROVE ChannelInv'
    BY <2>1, AsksToLeave DEF Channel!ConnectElsewhere, Channel!told
  <2>2. ASSUME NEW s \in ChannelSockets, Channel!OnDisconnect(s) PROVE ChannelInv'
    BY <2>2, AsksToLeave DEF Channel!OnDisconnect, Channel!told
  <2> QED BY <1>2, <2>1, <2>2, ConnectToChannelStep, SetUserDataStep, WriteStep,
             JoinStep, RejoinStep, JoinFailsStep, LeaveStep, UpdateStep,
             BroadcastStep, ClearStep DEF Channel!Next
<1> QED BY <1>1, <1>2

\* A channel begins without members.
LEMMA ChannelInit == Channel!Init => ChannelInv
<1> SUFFICES ASSUME Channel!Init PROVE ChannelInv
  OBVIOUS
<1>1. /\ username \in [ChannelSockets -> Names] /\ connected = {}
      /\ gone_sockets = {} /\ channel_users = [s \in ChannelSockets |-> NoName]
      /\ strand = <<>> /\ view = [s \in ChannelSockets |-> Channel!NoUsers]
      /\ status \in Statuses /\ writing = FALSE /\ gone = FALSE
      /\ pending = [s \in ChannelSockets |-> <<>>]
      /\ told_status = [s \in ChannelSockets |-> status]
  BY DEF Channel!Init
<1>2. /\ <<>> \in Seq(ChannelTasks) /\ <<>> \in Seq(Statuses \cup {"join"})
      /\ Len(<<>>) = 0
  OBVIOUS
<1>3. Channel!NoUsers \in [Names -> Nat]
  BY DEF Channel!NoUsers
<1>4. ChannelTypes
  <2>1. pending \in [ChannelSockets -> Seq(Statuses \cup {"join"})]
    BY <1>1, <1>2
  <2>2. strand \in Seq(ChannelTasks) /\ Len(strand) <= MaxChannelTasks
    BY <1>1, <1>2, ChannelConstants
  <2>3. view \in [ChannelSockets -> [Names -> Nat]]
    BY <1>1, <1>3
  <2> QED BY <1>1, <2>1, <2>2, <2>3 DEF ChannelTypes
<1>5. OneTaskEach(strand) /\ \A x \in ChannelTasks : ~Waits(strand, x)
  BY <1>1, <1>2 DEF OneTaskEach, Waits
<1> QED BY <1>1, <1>4, <1>5 DEF ChannelInv

\* A step of the whole is one of the channel, or leaves it alone.
LEMMA ChannelSteps == [Next]_vars => [Channel!Next]_channel_vars
BY DEF Next, vars, channel_vars

\* The members of a channel see the users it has, under the names they have
\* and without those that have gone, and were told the status last that there
\* is: for any number of sockets whose requests are done before their next.
THEOREM ChannelIsSound == Prompt => (Spec => []ChannelSound)
<1> SUFFICES ASSUME Prompt PROVE Spec => []ChannelSound
  OBVIOUS
<1>1. Init => ChannelInv
  BY ChannelInit DEF Init
<1>2. ChannelInv /\ [Next]_vars => ChannelInv'
  BY ChannelStep, ChannelSteps
<1>3. ChannelInv => ChannelSound
  <2> SUFFICES ASSUME ChannelInv PROVE ChannelSound
    OBVIOUS
  <2>1. strand \in Seq(ChannelTasks)
    BY DEF ChannelInv, ChannelTypes
  <2>2. \A i \in DOMAIN strand : strand[i] \in ChannelTasks
    BY <2>1
  <2>3. ASSUME NEW s \in ChannelSockets
        PROVE  Channel!ToSet(pending[s]) \subseteq Statuses \cup {"join"}
    <3>1. pending[s] \in Seq(Statuses \cup {"join"})
      BY DEF ChannelInv, ChannelTypes
    <3> QED BY <3>1 DEF Channel!ToSet
  <2>4. Channel!TypeOK
    BY <2>2, <2>3 DEF Channel!TypeOK, ChannelInv, ChannelTypes, ChannelTasks
  <2>5. Channel!ListsAgree
    BY DEF ChannelInv, Channel!ListsAgree, Channel!Members
  <2>6. ASSUME NEW s \in ChannelSockets, NEW o, Asked(strand, s, o)
        PROVE  \E i \in Channel!Outstanding(s) : strand[i].op = o
    <3>1. PICK x \in ChannelTasks : Waits(strand, x) /\ x.socket = s /\ x.op = o
      BY <2>6 DEF Asked
    <3>2. PICK i \in 1 .. Len(strand) : strand[i] = x
      BY <3>1 DEF Waits
    <3> QED BY <2>1, <3>1, <3>2 DEF Channel!Outstanding
  <2>7. Channel!NamesAreCurrent
    BY <2>6 DEF ChannelInv, MemberOk, Channel!NamesAreCurrent, Channel!Members
  <2>8. Channel!NoGhosts
    BY <2>6 DEF ChannelInv, MemberOk, Channel!NoGhosts, Channel!Members
  <2>9. Channel!StatusIsSeen
    BY DEF ChannelInv, Fresh, Channel!StatusIsSeen, Channel!Members
  <2> QED BY <2>4, <2>5, <2>7, <2>8, <2>9 DEF ChannelSound
<1> QED BY <1>1, <1>2, <1>3, PTL DEF Spec

=============================================================================
