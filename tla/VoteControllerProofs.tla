------------------------ MODULE VoteControllerProofs ------------------------
(***************************************************************************)
(* Proofs about VoteController, for any number of users and addresses, any *)
(* assignment of one to the other and any vote limit: the tally is the     *)
(* ballots that are there, an address has one of them, no address stays    *)
(* marked between votes, and a vote that passes had a majority.            *)
(***************************************************************************)
EXTENDS VoteController, FiniteSetTheorems, SequenceTheorems, TLAPS

USE UsersAssumption, RoomAssumption, SettingsAssumption, LimitAssumption,
    BoundAssumption

\* The members behind an address.
Behind(ip) == {u \in members : IpOf[u] = ip}

HasBallot(u) == vote_data[u].last_vote # "Undecided"

\* TimerMatchesState by cases: the one wait is pending, or is the one
\* completion.
OneWait(what) ==
  \/ wait = what /\ done = <<>>
  \/ wait = "none" /\ Len(done) = 1 /\ done[1].what = what

TimerByState ==
  /\ vote_state = "Idle" => wait = "none" /\ done = <<>>
  /\ vote_state = "Voting" => OneWait("vote")
  /\ vote_state = "Coolingdown" => OneWait("cooldown")

\* A ballot marks its address, and who is not a member has none.
BallotsAreMarked ==
  /\ \A u \in members : HasBallot(u) => IpOf[u] \in ip_voted
  /\ \A u \in Users \ members : ~HasBallot(u)

\* An address is counted at least once for each of its members, and its mark
\* goes with its last count.
AddressesCounted ==
  /\ \A ip \in Ips : refs[ip] >= Cardinality(Behind(ip))
  /\ \A ip \in ip_voted : refs[ip] > 0

\* A vote starts without ballots, unless an earlier one left its own.
StartsEmpty ==
  vote_state # "Voting" /\ ~leftover => \A u \in members : ~HasBallot(u)

\* The inductive invariant.
Inv ==
  /\ TypeOK /\ TimerByState /\ BallotsAreMarked /\ AddressesCounted
  /\ StartsEmpty /\ TallyMatchesBallots /\ ClientsSeeTally
  /\ OneBallotPerAddress /\ NobodyLockedOut

-----------------------------------------------------------------------------
(* Counting. *)

\* A set of users is counted without wrapping.
LEMMA Room ==
  ASSUME NEW S \in SUBSET Users
  PROVE  /\ IsFiniteSet(S) /\ Cardinality(S) \in Nat
         /\ Cardinality(S) \in 0 .. Wrap - 1
<1>1. IsFiniteSet(S) /\ Cardinality(S) <= Cardinality(Users)
  BY FS_Subset
<1>2. Cardinality(S) \in Nat /\ Cardinality(Users) \in Nat
  BY <1>1, FS_CardinalityType
<1> QED BY <1>1, <1>2

\* One ballot more or less.
LEMMA OneMoreOrLess ==
  ASSUME NEW S \in SUBSET Users, NEW u \in Users
  PROVE  /\ u \notin S => Cardinality(S \cup {u}) = Cardinality(S) + 1
         /\ u \in S => Cardinality(S \ {u}) = Cardinality(S) - 1
         /\ u \in S => Cardinality(S) >= 1
<1>1. IsFiniteSet(S) /\ Cardinality(S) \in Nat
  BY Room
<1>2. u \notin S => Cardinality(S \cup {u}) = Cardinality(S) + 1
  BY <1>1, FS_AddElement
<1>3. u \in S => Cardinality(S \ {u}) = Cardinality(S) - 1
  BY <1>1, FS_RemoveElement
<1>4. u \in S => Cardinality(S) # 0
  BY <1>1, FS_EmptySet
<1> QED BY <1>1, <1>2, <1>3, <1>4

\* The counters as residues.
LEMMA Residues ==
  /\ \A n \in Int : n % Wrap \in 0 .. Wrap - 1
  /\ \A n \in 0 .. Wrap - 1 : n % Wrap = n
OBVIOUS

-----------------------------------------------------------------------------
(* The steps. *)

\* Types of what a broadcast shows, which is the tally if a vote is open.
LEMMA Broadcast ==
  ASSUME BroadcastVoteStatus, yes_vote_count' \in 0 .. Wrap - 1,
         no_vote_count' \in 0 .. Wrap - 1
  PROVE  /\ shown' \in [status : {"Disabled", "CoolingDown", "Idle", "InProgress"},
                        yes : 0 .. Wrap - 1, no : 0 .. Wrap - 1]
         /\ ClientsSeeTally'
<1>1. 0 \in 0 .. Wrap - 1
  OBVIOUS
<1>2. shown' \in {[status |-> "InProgress", yes |-> yes_vote_count',
                    no |-> no_vote_count']} \cup
                  {[status |-> st, yes |-> 0, no |-> 0] :
                      st \in {"Disabled", "CoolingDown", "Idle"}}
  BY DEF BroadcastVoteStatus, GetVoteStatus
<1> QED BY <1>1, <1>2 DEF ClientsSeeTally

\* A step that touches neither the ballots, nor the addresses, nor the state.
LEMMA QuietStep ==
  ASSUME Inv, TypeOK', TimerByState', ClientsSeeTally',
         UNCHANGED <<vote_state, counts, channel, leftover>>
  PROVE  Inv'
<1> USE DEF counts, channel, ballots
<1>1. UNCHANGED <<vote_state, yes_vote_count, no_vote_count, members,
                  vote_data, refs, ip_voted, leftover>>
  OBVIOUS
<1>2. BallotsAreMarked' /\ StartsEmpty' /\ OneBallotPerAddress'
  BY <1>1 DEF Inv, BallotsAreMarked, StartsEmpty, OneBallotPerAddress, HasBallot
<1>3. AddressesCounted' /\ NobodyLockedOut'
  BY <1>1 DEF Inv, AddressesCounted, NobodyLockedOut, Behind
<1>4. TallyMatchesBallots'
  BY <1>1 DEF Inv, TallyMatchesBallots, Ballots
<1> QED BY <1>2, <1>3, <1>4 DEF Inv

\* A user joins, perhaps not for the first time.
LEMMA AddUserStep ==
  ASSUME Inv, NEW u \in Users, AddUser(u)
  PROVE  Inv'
<1> DEFINE ip == IpOf[u]
<1>1. /\ refs[ip] < MaxRefs /\ ip \in Ips
      /\ refs' = [refs EXCEPT ![ip] = @ + 1]
      /\ members' = members \cup {u}
      /\ UNCHANGED <<vote_state, yes_vote_count, no_vote_count, wait, done,
                     vote_data, ip_voted, active, config, result, shown, leftover>>
  BY DEF AddUser, counts, timer, ballots
<1>2. TypeOK'
  BY <1>1 DEF Inv, TypeOK
<1>3. TimerByState' /\ ClientsSeeTally'
  BY <1>1 DEF Inv, TimerByState, OneWait, ClientsSeeTally
<1>4. u \notin members => ~HasBallot(u)
  BY DEF Inv, BallotsAreMarked
<1>5. BallotsAreMarked' /\ StartsEmpty' /\ OneBallotPerAddress'
  BY <1>1, <1>4 DEF Inv, BallotsAreMarked, StartsEmpty, OneBallotPerAddress,
                    HasBallot
<1>6. ASSUME NEW a \in Ips
      PROVE  /\ Cardinality(Behind(a)') =
                  IF a = ip /\ u \notin members
                    THEN Cardinality(Behind(a)) + 1 ELSE Cardinality(Behind(a))
             /\ Cardinality(Behind(a)) \in Nat
             /\ refs'[a] = (IF a = ip THEN refs[a] + 1 ELSE refs[a])
             /\ refs[a] \in Nat
  <2>1. Behind(a) \in SUBSET Users
    BY DEF Behind, Inv, TypeOK
  <2>2. refs'[a] = (IF a = ip THEN refs[a] + 1 ELSE refs[a]) /\ refs[a] \in Nat
    BY <1>1 DEF Inv, TypeOK
  <2>3. CASE a = ip /\ u \notin members
    <3>1. Behind(a)' = Behind(a) \cup {u} /\ u \notin Behind(a)
      BY <1>1, <2>3 DEF Behind
    <3> QED BY <2>1, <2>2, <2>3, <3>1, OneMoreOrLess, Room
  <2>4. CASE ~(a = ip /\ u \notin members)
    <3>1. Behind(a)' = Behind(a)
      BY <1>1, <2>4 DEF Behind
    <3> QED BY <2>1, <2>2, <2>4, <3>1, Room
  <2> QED BY <2>3, <2>4
<1>7. AddressesCounted'
  <2>1. ASSUME NEW a \in Ips PROVE refs'[a] >= Cardinality(Behind(a)')
    BY <1>6 DEF Inv, AddressesCounted
  <2>2. ASSUME NEW a \in ip_voted PROVE refs'[a] > 0
    <3>1. a \in Ips /\ refs[a] > 0
      BY DEF Inv, AddressesCounted, TypeOK
    <3> QED BY <1>6, <3>1
  <2> QED BY <1>1, <2>1, <2>2 DEF AddressesCounted
<1>8. NobodyLockedOut'
  <2>1. ASSUME vote_state # "Voting", ~leftover, NEW a \in ip_voted
        PROVE  refs'[a] > Cardinality(Behind(a)')
    <3>1. a \in Ips /\ refs[a] > Cardinality(Behind(a))
      BY <2>1 DEF Inv, NobodyLockedOut, TypeOK, Behind
    <3> QED BY <1>6, <3>1
  <2> QED BY <1>1, <2>1 DEF NobodyLockedOut, Behind
<1>9. TallyMatchesBallots'
  <2>1. \A side \in {"Yes", "No"} : Ballots(side)' = Ballots(side)
    BY <1>1, <1>4 DEF Ballots, HasBallot
  <2> QED BY <1>1, <2>1 DEF Inv, TallyMatchesBallots
<1> QED BY <1>2, <1>3, <1>5, <1>7, <1>8, <1>9 DEF Inv

\* What a leaving member does to the counts: its ballot is taken out.
LEMMA RemoveVoteCounts ==
  ASSUME Inv, NEW u \in members, RemoveVote(u)
  PROVE  /\ yes_vote_count' \in 0 .. Wrap - 1 /\ no_vote_count' \in 0 .. Wrap - 1
         /\ ~RemovesBallot(u) => UNCHANGED counts
         /\ vote_state = "Voting" /\ ~leftover =>
              /\ yes_vote_count' = Cardinality(Ballots("Yes") \ {u})
              /\ no_vote_count' = Cardinality(Ballots("No") \ {u})
<1>1. u \in Users /\ yes_vote_count \in 0 .. Wrap - 1
      /\ no_vote_count \in 0 .. Wrap - 1
  BY DEF Inv, TypeOK
<1>2. /\ yes_vote_count - 1 \in Int /\ no_vote_count - 1 \in Int
      /\ 0 \in 0 .. Wrap - 1
  BY <1>1
<1>3. yes_vote_count' \in 0 .. Wrap - 1 /\ no_vote_count' \in 0 .. Wrap - 1
  BY <1>1, <1>2, Residues DEF RemoveVote, Decrement
<1>4. ~RemovesBallot(u) => UNCHANGED counts
  BY DEF RemovesBallot, RemoveVote, counts
<1>5. ASSUME vote_state = "Voting", ~leftover
      PROVE  /\ yes_vote_count' = Cardinality(Ballots("Yes") \ {u})
             /\ no_vote_count' = Cardinality(Ballots("No") \ {u})
  <2>1. /\ yes_vote_count = Cardinality(Ballots("Yes"))
        /\ no_vote_count = Cardinality(Ballots("No"))
    BY <1>5 DEF Inv, TallyMatchesBallots
  <2>2. \A side : Ballots(side) \in SUBSET Users
    BY DEF Ballots, Inv, TypeOK
  <2>3. ASSUME NEW side, NEW count \in 0 .. Wrap - 1,
               count = Cardinality(Ballots(side))
        PROVE  Cardinality(Ballots(side) \ {u}) =
                 IF vote_data[u].last_vote = side THEN Decrement(count) ELSE count
    <3>1. CASE vote_data[u].last_vote = side
      <4>1. u \in Ballots(side)
        BY <3>1 DEF Ballots
      <4>2. count >= 1 /\ Cardinality(Ballots(side) \ {u}) = count - 1
        BY <1>1, <2>2, <2>3, <4>1, OneMoreOrLess
      <4>3. count - 1 \in 0 .. Wrap - 1
        BY <4>2
      <4> QED BY <3>1, <4>2, <4>3, Residues DEF Decrement
    <3>2. CASE vote_data[u].last_vote # side
      <4>1. Ballots(side) \ {u} = Ballots(side)
        BY <3>2 DEF Ballots
      <4> QED BY <2>3, <3>2, <4>1
    <3> QED BY <3>1, <3>2
  <2> QED BY <1>1, <2>1, <2>3 DEF RemoveVote
<1> QED BY <1>3, <1>4, <1>5

\* A member leaves: its ballot goes with it, and its address's mark goes with
\* the last count of the address.
LEMMA RemoveUserStep ==
  ASSUME Inv, NEW u \in Users, RemoveUser(u)
  PROVE  Inv'
<1> DEFINE ip == IpOf[u]
<1>1. /\ u \in members /\ ip \in Ips
      /\ refs' = [refs EXCEPT ![ip] = @ - 1]
      /\ ip_voted' = IF refs'[ip] = 0 THEN ip_voted \ {ip} ELSE ip_voted
      /\ vote_data' = [vote_data EXCEPT ![u] = FreshData]
      /\ members' = members \ {u}
      /\ UNCHANGED <<vote_state, wait, done, active, config, result, leftover>>
  BY DEF RemoveUser, DropIp, timer
<1>2. /\ yes_vote_count' \in 0 .. Wrap - 1 /\ no_vote_count' \in 0 .. Wrap - 1
      /\ ~RemovesBallot(u) => UNCHANGED counts
      /\ vote_state = "Voting" /\ ~leftover =>
              /\ yes_vote_count' = Cardinality(Ballots("Yes") \ {u})
              /\ no_vote_count' = Cardinality(Ballots("No") \ {u})
  BY <1>1, RemoveVoteCounts DEF RemoveUser
<1>3. \A v \in Users : vote_data'[v] = IF v = u THEN FreshData ELSE vote_data[v]
  BY <1>1 DEF Inv, TypeOK
<1>4. ASSUME NEW a \in Ips
      PROVE  /\ Cardinality(Behind(a)') =
                  IF a = ip THEN Cardinality(Behind(a)) - 1
                            ELSE Cardinality(Behind(a))
             /\ Cardinality(Behind(a)) \in Nat /\ Cardinality(Behind(a)') \in Nat
             /\ refs'[a] = (IF a = ip THEN refs[a] - 1 ELSE refs[a])
             /\ refs[a] \in 0 .. MaxRefs /\ refs[a] >= Cardinality(Behind(a))
  <2>1. Behind(a) \in SUBSET Users
    BY DEF Behind, Inv, TypeOK
  <2>2. /\ refs'[a] = (IF a = ip THEN refs[a] - 1 ELSE refs[a])
        /\ refs[a] \in 0 .. MaxRefs /\ refs[a] >= Cardinality(Behind(a))
    BY <1>1 DEF Inv, TypeOK, AddressesCounted
  <2>3. CASE a = ip
    <3>1. Behind(a)' = Behind(a) \ {u} /\ u \in Behind(a)
      BY <1>1, <2>3 DEF Behind
    <3> QED BY <2>1, <2>2, <2>3, <3>1, OneMoreOrLess, Room
  <2>4. CASE a # ip
    <3>1. Behind(a)' = Behind(a)
      BY <1>1, <2>4 DEF Behind
    <3> QED BY <2>1, <2>2, <2>4, <3>1, Room
  <2> QED BY <2>3, <2>4
<1>5. \A a \in Ips : refs'[a] \in 0 .. MaxRefs /\ refs'[a] >= Cardinality(Behind(a)')
  BY <1>4
<1>6. ClientsSeeTally' /\
      shown' \in [status : {"Disabled", "CoolingDown", "Idle", "InProgress"},
                  yes : 0 .. Wrap - 1, no : 0 .. Wrap - 1]
  <2>1. CASE RemovesBallot(u)
    BY <1>2, <2>1, Broadcast DEF RemoveUser
  <2>2. CASE ~RemovesBallot(u)
    BY <1>1, <1>2, <2>2 DEF RemoveUser, Inv, TypeOK, ClientsSeeTally, counts
  <2> QED BY <2>1, <2>2
<1>7. TypeOK'
  <2>1. refs' \in [Ips -> 0 .. MaxRefs]
    BY <1>1, <1>5 DEF Inv, TypeOK
  <2>2. FreshData \in [last_vote : {"Undecided", "Yes", "No"},
                       voted_amount : Nat, voted_limit : BOOLEAN]
    BY DEF FreshData
  <2>3. vote_data' \in [Users -> [last_vote : {"Undecided", "Yes", "No"},
                                  voted_amount : Nat, voted_limit : BOOLEAN]]
    BY <1>1, <2>2 DEF Inv, TypeOK
  <2> QED BY <1>1, <1>2, <1>6, <2>1, <2>3 DEF Inv, TypeOK
<1>8. TimerByState'
  BY <1>1 DEF Inv, TimerByState, OneWait
<1>9. ASSUME NEW v \in members', HasBallot(v)'
      PROVE  v # u /\ v \in members /\ HasBallot(v) /\ IpOf[v] \in ip_voted'
  <2>1. v # u /\ v \in members /\ v \in Users /\ HasBallot(v)
    BY <1>1, <1>3, <1>9 DEF HasBallot, Inv, TypeOK
  <2>2. IpOf[v] \in ip_voted
    BY <2>1 DEF Inv, BallotsAreMarked
  <2>3. CASE IpOf[v] = ip
    <3>1. v \in Behind(ip)' /\ Behind(ip)' \in SUBSET Users
      BY <1>1, <2>1, <2>3 DEF Behind, Inv, TypeOK
    <3>2. Cardinality(Behind(ip)') >= 1
      BY <2>1, <3>1, OneMoreOrLess
    <3>3. refs'[ip] # 0
      BY <1>1, <1>4, <1>5, <3>2
    <3> QED BY <1>1, <2>1, <2>2, <3>3
  <2> QED BY <1>1, <2>1, <2>2, <2>3
<1>10. BallotsAreMarked'
  <2>1. ASSUME NEW v \in Users \ members' PROVE ~HasBallot(v)'
    BY <1>1, <1>3 DEF HasBallot, FreshData, Inv, BallotsAreMarked
  <2> QED BY <1>9, <2>1 DEF BallotsAreMarked
<1>11. OneBallotPerAddress' /\ StartsEmpty'
  BY <1>1, <1>9 DEF OneBallotPerAddress, StartsEmpty, Inv, HasBallot
<1>12. ASSUME NEW a \in ip_voted'
       PROVE  a \in Ips /\ a \in ip_voted /\ refs'[a] > 0
  <2>1. a \in Ips /\ a \in ip_voted /\ refs[a] > 0
    BY <1>1 DEF Inv, AddressesCounted, TypeOK
  <2>2. a = ip => refs'[a] # 0
    BY <1>1
  <2> QED BY <1>4, <2>1, <2>2
<1>13. AddressesCounted'
  BY <1>5, <1>12 DEF AddressesCounted
<1>14. NobodyLockedOut'
  <2>1. ASSUME vote_state # "Voting", ~leftover, NEW a \in ip_voted'
        PROVE  refs'[a] > Cardinality(Behind(a)')
    <3>1. a \in Ips /\ refs[a] > Cardinality(Behind(a))
      BY <1>12, <2>1 DEF Inv, NobodyLockedOut, Behind
    <3> QED BY <1>4, <3>1
  <2> QED BY <1>1, <2>1 DEF NobodyLockedOut, Behind
<1>15. TallyMatchesBallots'
  <2>1. \A side \in {"Yes", "No"} : Ballots(side)' = Ballots(side) \ {u}
    BY <1>1, <1>3 DEF Ballots, Inv, TypeOK
  <2> QED BY <1>1, <1>2, <2>1 DEF TallyMatchesBallots
<1> QED
  BY <1>6, <1>7, <1>8, <1>10, <1>11, <1>13, <1>14, <1>15 DEF Inv

\* A user that may vote has no ballot, and nobody behind its address has one.
LEMMA VoterIsFresh ==
  ASSUME Inv, NEW u \in Users, MayVote(u)
  PROVE  /\ u \in members /\ IpOf[u] \in Ips \ ip_voted /\ ~HasBallot(u)
         /\ \A v \in members : IpOf[v] = IpOf[u] => ~HasBallot(v)
BY DEF Inv, MayVote, BallotsAreMarked

\* A counted vote: one ballot more, on one side, of a marked address.
LEMMA CountedVote ==
  ASSUME Inv, NEW u \in Users, MayVote(u), NEW side \in {"Yes", "No"},
         vote_state' = "Voting", ip_voted' = ip_voted \cup {IpOf[u]},
         UNCHANGED <<members, refs, leftover>>,
         vote_data'[u].last_vote = side,
         \A v \in Users \ {u} : vote_data'[v].last_vote = vote_data[v].last_vote
  PROVE  /\ BallotsAreMarked' /\ StartsEmpty' /\ OneBallotPerAddress'
         /\ AddressesCounted' /\ NobodyLockedOut'
         /\ \A s \in {"Yes", "No"} :
              Ballots(s)' = IF s = side THEN Ballots(s) \cup {u} ELSE Ballots(s)
         /\ u \notin Ballots(side)
<1>1. /\ u \in members /\ IpOf[u] \in Ips \ ip_voted /\ ~HasBallot(u)
      /\ \A v \in members : IpOf[v] = IpOf[u] => ~HasBallot(v)
      /\ members \in SUBSET Users
  BY VoterIsFresh DEF Inv, TypeOK
<1>2. BallotsAreMarked'
  BY <1>1 DEF Inv, BallotsAreMarked, HasBallot
<1>3. OneBallotPerAddress'
  BY <1>1 DEF Inv, OneBallotPerAddress, HasBallot
<1>4. AddressesCounted'
  <2>1. refs[IpOf[u]] > 0
    <3>1. u \in Behind(IpOf[u]) /\ Behind(IpOf[u]) \in SUBSET Users
      BY <1>1 DEF Behind
    <3>2. Cardinality(Behind(IpOf[u])) >= 1
      BY <3>1, OneMoreOrLess
    <3>3. Cardinality(Behind(IpOf[u])) \in Nat
      BY <3>1, Room
    <3>4. refs[IpOf[u]] >= Cardinality(Behind(IpOf[u])) /\ refs[IpOf[u]] \in Nat
      BY <1>1 DEF Inv, AddressesCounted, TypeOK
    <3> QED BY <3>2, <3>3, <3>4
  <2> QED BY <2>1 DEF Inv, AddressesCounted, Behind
<1>5. StartsEmpty' /\ NobodyLockedOut'
  BY DEF StartsEmpty, NobodyLockedOut
<1>6. ASSUME NEW s \in {"Yes", "No"}
      PROVE  Ballots(s)' = IF s = side THEN Ballots(s) \cup {u} ELSE Ballots(s)
  BY <1>1 DEF Ballots, HasBallot
<1>7. u \notin Ballots(side)
  BY <1>1 DEF Ballots, HasBallot
<1> QED BY <1>2, <1>3, <1>4, <1>5, <1>6, <1>7

\* A vote: it opens one, is counted in one, or is refused.
LEMMA VoteStep ==
  ASSUME Inv, NEW u \in Users, NEW voted_yes \in BOOLEAN, Vote(u, voted_yes)
  PROVE  Inv'
<1> DEFINE Data == [last_vote : {"Undecided", "Yes", "No"},
                    voted_amount : Nat, voted_limit : BOOLEAN]
<1>1. /\ MayVote(u) /\ UNCHANGED <<members, refs, active, config, leftover>>
      /\ StartVote(u, voted_yes) \/ CastVote(u, voted_yes)
  BY DEF Vote
<1>2. vote_data \in [Users -> Data] /\ vote_data[u] \in Data
      /\ \A s : Ballots(s) \in SUBSET Users
  BY DEF Inv, TypeOK, Ballots
<1>3. CASE StartVote(u, voted_yes)
  <2>1. /\ vote_state = "Idle" /\ vote_state' = "Voting"
        /\ vote_data' = [vote_data EXCEPT ![u].last_vote = "Yes"]
        /\ yes_vote_count' = 1 /\ no_vote_count' = 0 /\ result' = "None"
        /\ StartTimer("vote")
        /\ ip_voted' = ip_voted \cup {IpOf[u]} /\ BroadcastVoteStatus
    BY <1>3 DEF Vote, StartVote
  <2>2. wait' = "vote" /\ done' = <<>> /\ wait = "none" /\ done = <<>>
    BY <2>1 DEF Inv, TimerByState, StartTimer
  <2>3. 1 \in 0 .. Wrap - 1 /\ 0 \in 0 .. Wrap - 1
    <3>1. Users \in SUBSET Users
      OBVIOUS
    <3>2. Cardinality(Users) >= 1 /\ Cardinality(Users) \in Nat
      BY <3>1, OneMoreOrLess, Room
    <3> QED BY <3>2
  <2>4. /\ vote_data' \in [Users -> Data] /\ vote_data'[u].last_vote = "Yes"
        /\ \A v \in Users \ {u} : vote_data'[v] = vote_data[v]
    BY <1>2, <2>1
  <2>5. /\ ClientsSeeTally'
        /\ shown' \in [status : {"Disabled", "CoolingDown", "Idle", "InProgress"},
                       yes : 0 .. Wrap - 1, no : 0 .. Wrap - 1]
    BY <2>1, <2>3, Broadcast
  <2>6. TypeOK'
    BY <1>1, <2>1, <2>2, <2>3, <2>4, <2>5 DEF Inv, TypeOK
  <2>7. TimerByState'
    BY <2>1, <2>2 DEF TimerByState, OneWait
  <2>8. /\ BallotsAreMarked' /\ StartsEmpty' /\ OneBallotPerAddress'
        /\ AddressesCounted' /\ NobodyLockedOut'
        /\ Ballots("Yes")' = Ballots("Yes") \cup {u} /\ u \notin Ballots("Yes")
        /\ Ballots("No")' = Ballots("No")
    BY <1>1, <2>1, <2>4, CountedVote
  <2>9. TallyMatchesBallots'
    <3>1. ASSUME ~leftover
          PROVE  Cardinality(Ballots("Yes")') = 1 /\ Cardinality(Ballots("No")') = 0
      <4>1. Ballots("Yes") = {} /\ Ballots("No") = {}
        BY <2>1, <3>1 DEF Inv, StartsEmpty, HasBallot, Ballots
      <4>2. Ballots("Yes")' = {u} /\ Ballots("No")' = {}
        BY <2>8, <4>1
      <4> QED BY <4>2, FS_EmptySet, FS_Singleton
    <3> QED BY <1>1, <2>1, <3>1 DEF TallyMatchesBallots
  <2> QED BY <2>5, <2>6, <2>7, <2>8, <2>9 DEF Inv
<1>4. CASE CastVote(u, voted_yes) /\ Counts(u, voted_yes)
  <2> DEFINE side == Decision(voted_yes)
  <2>1. /\ vote_state = "Voting"
        /\ vote_data' = [vote_data EXCEPT ![u].last_vote = side,
                                          ![u].voted_amount = @ + 1]
        /\ UNCHANGED <<vote_state, wait, done, result>>
        /\ ip_voted' = ip_voted \cup {IpOf[u]} /\ BroadcastVoteStatus
    BY <1>4 DEF Vote, CastVote, timer
  <2>2. vote_data[u].last_vote = "Undecided" /\ side \in {"Yes", "No"}
    BY <1>1, VoterIsFresh DEF HasBallot, Decision
  <2>3. /\ yes_vote_count' =
             IF side = "Yes" THEN Increment(yes_vote_count) ELSE yes_vote_count
        /\ no_vote_count' =
             IF side = "No" THEN Increment(no_vote_count) ELSE no_vote_count
    BY <1>4, <2>2 DEF CastVote
  <2>4. yes_vote_count' \in 0 .. Wrap - 1 /\ no_vote_count' \in 0 .. Wrap - 1
    <3>1. /\ yes_vote_count \in 0 .. Wrap - 1 /\ no_vote_count \in 0 .. Wrap - 1
          /\ yes_vote_count + 1 \in Int /\ no_vote_count + 1 \in Int
      BY DEF Inv, TypeOK
    <3> QED BY <2>3, <3>1, Residues DEF Increment
  <2>5. /\ vote_data' \in [Users -> Data] /\ vote_data'[u].last_vote = side
        /\ \A v \in Users \ {u} : vote_data'[v] = vote_data[v]
    BY <1>2, <2>1, <2>2
  <2>6. /\ ClientsSeeTally'
        /\ shown' \in [status : {"Disabled", "CoolingDown", "Idle", "InProgress"},
                       yes : 0 .. Wrap - 1, no : 0 .. Wrap - 1]
    BY <2>1, <2>4, Broadcast
  <2> HIDE DEF side
  <2>7. TypeOK'
    <3>1. ip_voted' \subseteq Ips
      BY <1>1, <2>1, VoterIsFresh DEF Inv, TypeOK
    <3> QED BY <1>1, <2>1, <2>4, <2>5, <2>6, <3>1 DEF Inv, TypeOK
  <2>8. TimerByState'
    BY <2>1 DEF Inv, TimerByState, OneWait
  <2>9. /\ BallotsAreMarked' /\ StartsEmpty' /\ OneBallotPerAddress'
        /\ AddressesCounted' /\ NobodyLockedOut' /\ u \notin Ballots(side)
        /\ \A s \in {"Yes", "No"} :
             Ballots(s)' = IF s = side THEN Ballots(s) \cup {u} ELSE Ballots(s)
    BY <1>1, <2>1, <2>2, <2>5, CountedVote
  <2>10. TallyMatchesBallots'
    <3>1. ASSUME ~leftover, NEW s \in {"Yes", "No"}, NEW count,
                 count = Cardinality(Ballots(s))
          PROVE  Cardinality(Ballots(s)') =
                   IF s = side THEN Increment(count) ELSE count
      <4>1. CASE s = side
        <5>1. Cardinality(Ballots(s)') = count + 1 /\ Ballots(s)' \in SUBSET Users
          BY <1>2, <2>9, <3>1, <4>1, OneMoreOrLess
        <5>2. count + 1 \in 0 .. Wrap - 1
          BY <5>1, Room
        <5> QED BY <4>1, <5>1, <5>2, Residues DEF Increment
      <4>2. CASE s # side
        BY <2>9, <3>1, <4>2
      <4> QED BY <4>1, <4>2
    <3> QED BY <1>1, <2>1, <2>2, <2>3, <3>1 DEF Inv, TallyMatchesBallots
  <2> QED BY <2>6, <2>7, <2>8, <2>9, <2>10 DEF Inv
<1>5. CASE CastVote(u, voted_yes) /\ ~Counts(u, voted_yes)
  <2>1. /\ vote_data' = [vote_data EXCEPT
                ![u].voted_amount = IF vote_data[u].voted_limit THEN @ ELSE @ + 1,
                ![u].voted_limit = ReachesLimit(vote_data[u])]
        /\ vote_state = "Voting"
        /\ UNCHANGED <<vote_state, yes_vote_count, no_vote_count, wait, done,
                       result, ip_voted, shown>>
    BY <1>5 DEF Vote, CastVote, counts, timer
  <2>2. ReachesLimit(vote_data[u]) \in BOOLEAN
    BY <1>2 DEF ReachesLimit
  <2>3. /\ vote_data' \in [Users -> Data]
        /\ \A v \in Users : vote_data'[v].last_vote = vote_data[v].last_vote
    <3>1. vote_data[u].voted_amount + 1 \in Nat
      BY <1>2
    <3>2. CASE vote_data[u].voted_limit
      BY <1>2, <2>1, <2>2, <3>2
    <3>3. CASE ~vote_data[u].voted_limit
      BY <1>2, <2>1, <2>2, <3>1, <3>3
    <3> QED BY <3>2, <3>3
  <2>4. TypeOK' /\ ClientsSeeTally'
    BY <1>1, <2>1, <2>3 DEF Inv, TypeOK, ClientsSeeTally
  <2>5. TimerByState' /\ AddressesCounted' /\ NobodyLockedOut' /\ StartsEmpty'
    BY <1>1, <2>1 DEF Inv, TimerByState, OneWait, AddressesCounted, Behind,
                      NobodyLockedOut, StartsEmpty
  <2>6. members \in SUBSET Users
    BY DEF Inv, TypeOK
  <2>7. BallotsAreMarked' /\ OneBallotPerAddress'
    BY <1>1, <2>1, <2>3, <2>6
    DEF Inv, BallotsAreMarked, OneBallotPerAddress, HasBallot
  <2>8. TallyMatchesBallots'
    <3>1. \A s : Ballots(s)' = Ballots(s)
      BY <1>1, <2>3, <2>6 DEF Ballots
    <3> QED BY <1>1, <2>1, <3>1 DEF Inv, TallyMatchesBallots
  <2> QED BY <2>4, <2>5, <2>7, <2>8 DEF Inv
<1> QED BY <1>1, <1>3, <1>4, <1>5

\* A wait becomes a completion: nothing is lost, nothing doubled.
LEMMA WaitCompletes ==
  ASSUME Inv, NEW aborted \in BOOLEAN, wait # "none", wait' = "none",
         done' = Append(done, [what |-> wait, aborted |-> aborted]),
         vote_state' = vote_state
  PROVE  /\ TimerByState'
         /\ done' \in Seq([what : {"vote", "cooldown"}, aborted : BOOLEAN])
<1>1. done = <<>> /\ wait \in {"vote", "cooldown"}
  BY DEF Inv, TypeOK, TimerByState, OneWait
<1>2. done' = <<[what |-> wait, aborted |-> aborted]>>
  BY <1>1
<1>3. Len(done') = 1 /\ done'[1].what = wait
  <2> DEFINE r == [what |-> wait, aborted |-> aborted]
  <2>1. r.what = wait
    OBVIOUS
  <2> HIDE DEF r
  <2>2. Len(<<r>>) = 1 /\ <<r>>[1] = r
    OBVIOUS
  <2>3. done' = <<r>>
    BY <1>2 DEF r
  <2> QED BY <2>1, <2>2, <2>3
<1>4. done' \in Seq([what : {"vote", "cooldown"}, aborted : BOOLEAN])
  BY <1>1, <1>2
<1>5. TimerByState'
  BY <1>1, <1>3 DEF Inv, TypeOK, TimerByState, OneWait
<1> QED BY <1>4, <1>5

\* StopVote() keeps the timer with the state.
LEMMA StopVoteTimer ==
  ASSUME Inv, StopVote, vote_state' = vote_state
  PROVE  /\ TimerByState' /\ wait' \in {"none", "vote", "cooldown"}
         /\ done' \in Seq([what : {"vote", "cooldown"}, aborted : BOOLEAN])
<1>1. CASE wait = "none"
  BY <1>1 DEF StopVote, timer, Inv, TypeOK, TimerByState, OneWait
<1>2. CASE wait # "none"
  BY <1>2, WaitCompletes DEF StopVote
<1> QED BY <1>1, <1>2

\* The vote is cancelled, or a wait expires.
LEMMA TimerStep ==
  ASSUME Inv, CancelVote \/ TimerExpires
  PROVE  Inv'
<1>1. UNCHANGED <<vote_state, counts, channel, active, config, result, shown,
                  leftover>>
  BY DEF CancelVote, TimerExpires
<1>2. /\ TimerByState' /\ wait' \in {"none", "vote", "cooldown"}
      /\ done' \in Seq([what : {"vote", "cooldown"}, aborted : BOOLEAN])
  <2>1. CASE CancelVote
    BY <1>1, <2>1, StopVoteTimer DEF CancelVote
  <2>2. CASE TimerExpires
    BY <1>1, <2>2, WaitCompletes DEF TimerExpires
  <2> QED BY <2>1, <2>2
<1>3. TypeOK' /\ ClientsSeeTally'
  BY <1>1, <1>2 DEF Inv, TypeOK, ClientsSeeTally, counts, channel, ballots
<1> QED BY <1>1, <1>2, <1>3, QuietStep

\* An admin changes the settings.
LEMMA ApplySettingsStep ==
  ASSUME Inv, NEW new \in Settings, ApplySettings(new)
  PROVE  Inv'
<1>1. /\ config' = new
      /\ UNCHANGED <<vote_state, counts, channel, active, result, leftover>>
  BY DEF ApplySettings
<1>2. /\ TimerByState' /\ wait' \in {"none", "vote", "cooldown"}
      /\ done' \in Seq([what : {"vote", "cooldown"}, aborted : BOOLEAN])
  <2>1. CASE StopVote
    BY <1>1, <2>1, StopVoteTimer
  <2>2. CASE UNCHANGED timer
    BY <1>1, <2>2 DEF timer, Inv, TypeOK, TimerByState, OneWait
  <2> QED BY <2>1, <2>2 DEF ApplySettings
<1>3. /\ ClientsSeeTally'
      /\ shown' \in [status : {"Disabled", "CoolingDown", "Idle", "InProgress"},
                     yes : 0 .. Wrap - 1, no : 0 .. Wrap - 1]
  <2>1. CASE BroadcastVoteStatus
    BY <1>1, <2>1, Broadcast DEF Inv, TypeOK, counts
  <2>2. CASE UNCHANGED shown
    BY <1>1, <2>2 DEF Inv, TypeOK, ClientsSeeTally, counts
  <2> QED BY <2>1, <2>2 DEF ApplySettings
<1>4. TypeOK'
  BY <1>1, <1>2, <1>3 DEF Inv, TypeOK, counts, channel, ballots
<1> QED BY <1>1, <1>2, <1>3, <1>4, QuietStep

\* The VM starts or stops.
LEMMA SetActiveStep ==
  ASSUME Inv, NEW value \in BOOLEAN, SetActive(value)
  PROVE  Inv'
<1>1. /\ active' = value
      /\ UNCHANGED <<vote_state, counts, timer, channel, config, result, shown,
                     leftover>>
  BY DEF SetActive
<1>2. TypeOK' /\ TimerByState' /\ ClientsSeeTally'
  BY <1>1 DEF Inv, TypeOK, TimerByState, OneWait, ClientsSeeTally, counts,
              timer, channel, ballots
<1> QED BY <1>1, <1>2, QuietStep

\* Types of no completion at all.
LEMMA NoCompletion ==
  <<>> \in Seq([what : {"vote", "cooldown"}, aborted : BOOLEAN])
OBVIOUS

\* The one completion: the state it belongs to, and nothing behind it.
LEMMA CompletionFacts ==
  ASSUME Inv, NEW what \in {"vote", "cooldown"}, Completion(what)
  PROVE  /\ vote_state = (IF what = "vote" THEN "Voting" ELSE "Coolingdown")
         /\ wait = "none" /\ Tail(done) = <<>>
<1>1. done # <<>> /\ Head(done).what = what
      /\ done \in Seq([what : {"vote", "cooldown"}, aborted : BOOLEAN])
  BY DEF Completion, Inv, TypeOK
<1>2. Len(done) \in Nat \ {0} /\ Head(done) = done[1]
  BY <1>1, EmptySeq
<1>3. vote_state = (IF what = "vote" THEN "Voting" ELSE "Coolingdown")
      /\ wait = "none" /\ Len(done) = 1
  BY <1>1, <1>2 DEF Inv, TypeOK, TimerByState, OneWait
<1>4. Tail(done) = <<>>
  <2>1. Tail(done) \in Seq([what : {"vote", "cooldown"}, aborted : BOOLEAN])
        /\ Len(Tail(done)) = 0
    BY <1>1, <1>3, HeadTailProperties
  <2> QED BY <2>1, EmptySeq
<1> QED BY <1>3, <1>4

\* A vote ends: its ballots are cleared, or, if somebody's address stays
\* marked, remembered as left over.
LEMMA RunVoteHandlerStep ==
  ASSUME Inv, RunVoteHandler
  PROVE  Inv'
<1>1. /\ Completion("vote")
      /\ UNCHANGED <<yes_vote_count, no_vote_count, members, refs, active, config>>
  BY DEF RunVoteHandler, Completion, counts
<1>2. vote_state = "Voting" /\ wait = "none" /\ Tail(done) = <<>>
  BY <1>1, CompletionFacts
<1>3. /\ TimerByState' /\ wait' \in {"none", "cooldown"} /\ done' = <<>>
      /\ vote_state' \in {"Idle", "Coolingdown"}
  BY <1>2 DEF RunVoteHandler, TimerByState, OneWait
<1>4. /\ ClientsSeeTally'
      /\ shown' \in [status : {"Disabled", "CoolingDown", "Idle", "InProgress"},
                     yes : 0 .. Wrap - 1, no : 0 .. Wrap - 1]
  <2>1. CASE BroadcastVoteStatus
    BY <1>1, <2>1, Broadcast DEF Inv, TypeOK
  <2>2. CASE UNCHANGED shown
    BY <1>3, <2>2 DEF Inv, TypeOK, ClientsSeeTally
  <2> QED BY <2>1, <2>2 DEF RunVoteHandler, OnVoteIdle
<1>5. PICK passed \in BOOLEAN : OnVoteEnd(passed)
  BY DEF RunVoteHandler
<1>6. members \in SUBSET Users /\ ip_voted \in SUBSET Ips
  BY DEF Inv, TypeOK
<1>7. CASE ~active \/ ~GetVotesEnabled
  <2>1. /\ leftover' = \E u \in members : IpOf[u] \in ip_voted
        /\ UNCHANGED <<vote_data, ip_voted, result>>
    BY <1>5, <1>7 DEF OnVoteEnd, ballots
  <2>2. TypeOK'
    BY <1>1, <1>3, <1>4, <2>1 DEF Inv, TypeOK
  <2>3. BallotsAreMarked' /\ OneBallotPerAddress'
    BY <1>1, <2>1 DEF Inv, BallotsAreMarked, OneBallotPerAddress, HasBallot
  <2>4. AddressesCounted'
    BY <1>1, <2>1 DEF Inv, AddressesCounted, Behind
  <2>5. StartsEmpty' /\ TallyMatchesBallots'
    BY <1>1, <1>3, <2>1 DEF Inv, StartsEmpty, BallotsAreMarked, HasBallot,
                            TallyMatchesBallots
  <2>6. NobodyLockedOut'
    <3>1. ASSUME ~leftover', NEW ip \in ip_voted
          PROVE  refs[ip] > Cardinality(Behind(ip))
      <4>1. Behind(ip) = {}
        BY <2>1, <3>1 DEF Behind
      <4> QED BY <4>1, FS_EmptySet DEF Inv, AddressesCounted
    <3> QED BY <1>1, <2>1, <3>1 DEF NobodyLockedOut, Behind
  <2> QED BY <1>3, <1>4, <2>2, <2>3, <2>4, <2>5, <2>6 DEF Inv
<1>8. CASE active /\ GetVotesEnabled
  <2>1. /\ result' \in {"Passed", "Failed"} /\ leftover' = FALSE
        /\ vote_data' = [u \in Users |-> FreshData]
        /\ ip_voted' = ip_voted \ {IpOf[u] : u \in members}
    BY <1>5, <1>8 DEF OnVoteEnd
  <2>2. TypeOK'
    <3>1. vote_data' \in [Users -> [last_vote : {"Undecided", "Yes", "No"},
                                    voted_amount : Nat, voted_limit : BOOLEAN]]
      BY <2>1 DEF FreshData
    <3> QED BY <1>1, <1>3, <1>4, <2>1, <3>1, NoCompletion DEF Inv, TypeOK
  <2>3. \A u \in Users : ~HasBallot(u)'
    BY <2>1 DEF HasBallot, FreshData
  <2>4. BallotsAreMarked' /\ OneBallotPerAddress' /\ StartsEmpty'
        /\ TallyMatchesBallots'
    BY <1>1, <1>3, <1>6, <2>3 DEF BallotsAreMarked, OneBallotPerAddress,
         StartsEmpty, TallyMatchesBallots, HasBallot
  <2>5. AddressesCounted'
    BY <1>1, <2>1 DEF Inv, AddressesCounted, Behind
  <2>6. NobodyLockedOut'
    <3>1. ASSUME NEW ip \in ip_voted' PROVE refs[ip] > Cardinality(Behind(ip))
      <4>1. Behind(ip) = {} /\ ip \in ip_voted
        BY <2>1, <3>1 DEF Behind
      <4> QED BY <4>1, FS_EmptySet DEF Inv, AddressesCounted
    <3> QED BY <1>1, <3>1 DEF NobodyLockedOut, Behind
  <2> QED BY <1>3, <1>4, <2>2, <2>4, <2>5, <2>6 DEF Inv
<1> QED BY <1>7, <1>8

\* A cooldown ends.
LEMMA RunCooldownHandlerStep ==
  ASSUME Inv, RunCooldownHandler
  PROVE  Inv'
<1>1. /\ Completion("cooldown") /\ vote_state' = "Idle" /\ done' = Tail(done)
      /\ UNCHANGED <<yes_vote_count, no_vote_count, members, refs, active,
                     config, wait, vote_data, ip_voted, result, leftover>>
  BY DEF RunCooldownHandler, Completion, counts, ballots
<1>2. vote_state = "Coolingdown" /\ wait = "none" /\ Tail(done) = <<>>
  BY <1>1, CompletionFacts
<1>3. /\ ClientsSeeTally'
      /\ shown' \in [status : {"Disabled", "CoolingDown", "Idle", "InProgress"},
                     yes : 0 .. Wrap - 1, no : 0 .. Wrap - 1]
  <2>1. CASE BroadcastVoteStatus
    BY <1>1, <2>1, Broadcast DEF Inv, TypeOK
  <2>2. CASE UNCHANGED shown
    BY <1>1, <2>2 DEF Inv, TypeOK, ClientsSeeTally
  <2> QED BY <2>1, <2>2 DEF RunCooldownHandler, OnVoteIdle
<1>4. TypeOK' /\ TimerByState'
  BY <1>1, <1>2, <1>3, NoCompletion DEF Inv, TypeOK, TimerByState
<1>5. BallotsAreMarked' /\ OneBallotPerAddress' /\ StartsEmpty'
      /\ TallyMatchesBallots'
  BY <1>1, <1>2 DEF Inv, BallotsAreMarked, OneBallotPerAddress, StartsEmpty,
                    TallyMatchesBallots, HasBallot
<1>6. AddressesCounted' /\ NobodyLockedOut'
  BY <1>1, <1>2 DEF Inv, AddressesCounted, NobodyLockedOut, Behind
<1> QED BY <1>3, <1>4, <1>5, <1>6 DEF Inv

-----------------------------------------------------------------------------
(* The theorems. *)

\* Nothing has happened yet.
LEMMA InitInv == Init => Inv
<1> SUFFICES ASSUME Init PROVE Inv
  OBVIOUS
<1>1. /\ vote_state = "Idle" /\ yes_vote_count = 0 /\ no_vote_count = 0
      /\ wait = "none" /\ done = <<>> /\ members = {} /\ ip_voted = {}
      /\ vote_data = [u \in Users |-> FreshData] /\ refs = [ip \in Ips |-> 0]
      /\ active = FALSE /\ config \in Settings /\ result = "None"
      /\ leftover = FALSE
      /\ shown = GetVoteStatus
  BY DEF Init
<1>2. 0 \in 0 .. Wrap - 1 /\ 0 \in 0 .. MaxRefs
  OBVIOUS
<1>3. TypeOK /\ ClientsSeeTally
  <2>1. shown \in [status : {"Disabled", "CoolingDown", "Idle", "InProgress"},
                   yes : 0 .. Wrap - 1, no : 0 .. Wrap - 1]
    BY <1>1, <1>2 DEF GetVoteStatus
  <2>2. vote_data \in [Users -> [last_vote : {"Undecided", "Yes", "No"},
                                 voted_amount : Nat, voted_limit : BOOLEAN]]
    BY <1>1 DEF FreshData
  <2>3. refs \in [Ips -> 0 .. MaxRefs]
    BY <1>1, <1>2
  <2>4. TypeOK
    BY <1>1, <1>2, <2>1, <2>2, <2>3, NoCompletion DEF TypeOK
  <2> QED BY <1>1, <2>4 DEF ClientsSeeTally
<1>4. TimerByState
  BY <1>1 DEF TimerByState
<1>5. BallotsAreMarked /\ OneBallotPerAddress /\ StartsEmpty
      /\ TallyMatchesBallots /\ NobodyLockedOut
  BY <1>1 DEF BallotsAreMarked, OneBallotPerAddress, StartsEmpty,
              TallyMatchesBallots, NobodyLockedOut, HasBallot, FreshData
<1>6. AddressesCounted
  <2>1. \A ip \in Ips : Behind(ip) = {}
    BY <1>1 DEF Behind
  <2>2. \A ip \in Ips : refs[ip] = 0 /\ Cardinality(Behind(ip)) = 0
    BY <1>1, <2>1, FS_EmptySet
  <2> QED BY <1>1, <2>2 DEF AddressesCounted
<1> QED BY <1>3, <1>4, <1>5, <1>6 DEF Inv

\* Every step keeps the invariant.
LEMMA NextInv == Inv /\ [Next]_vars => Inv'
<1> SUFFICES ASSUME Inv, [Next]_vars PROVE Inv'
  OBVIOUS
<1>1. CASE UNCHANGED vars
  <2>1. TypeOK' /\ TimerByState' /\ ClientsSeeTally'
    BY <1>1 DEF vars, Inv, TypeOK, TimerByState, OneWait, ClientsSeeTally
  <2> QED
    BY <1>1, <2>1, QuietStep DEF vars, counts, channel, ballots
<1>2. CASE Next
  BY <1>2, AddUserStep, RemoveUserStep, VoteStep, TimerStep, ApplySettingsStep,
     SetActiveStep, RunVoteHandlerStep, RunCooldownHandlerStep DEF Next
<1> QED BY <1>1, <1>2

\* The invariant holds for ever.
LEMMA InvAlways == Spec => []Inv
BY InitInv, NextInv, PTL DEF Spec

\* The two ways to say that the timer belongs to the state.
LEMMA TimerBelongs ==
  ASSUME TypeOK, TimerByState
  PROVE  TimerMatchesState
<1> DEFINE waiting == IF wait = "none" THEN <<>>
                      ELSE <<[what |-> wait, aborted |-> FALSE]>>
<1>1. waiting \in Seq([what : {"vote", "cooldown"}, aborted : BOOLEAN])
  <2>1. CASE wait = "none"
    BY <2>1, NoCompletion
  <2>2. CASE wait # "none"
    BY <2>2 DEF TypeOK
  <2> QED BY <2>1, <2>2
<1>2. done \in Seq([what : {"vote", "cooldown"}, aborted : BOOLEAN])
  BY DEF TypeOK
<1>3. done = <<>> => done \o waiting = waiting
  BY <1>1, ConcatEmptySeq
<1>4. waiting = <<>> => done \o waiting = done
  BY <1>2, ConcatEmptySeq
<1>5. wait # "none" => Len(waiting) = 1 /\ waiting[1].what = wait
  <2> DEFINE r == [what |-> wait, aborted |-> FALSE]
  <2>1. r.what = wait
    OBVIOUS
  <2> HIDE DEF r
  <2>2. Len(<<r>>) = 1 /\ <<r>>[1] = r
    OBVIOUS
  <2>3. wait # "none" => waiting = <<r>>
    BY DEF r
  <2> QED BY <2>1, <2>2, <2>3
<1>6. wait = "none" => waiting = <<>>
  OBVIOUS
<1> HIDE DEF waiting
<1> DEFINE outstanding == done \o waiting
<1>7. vote_state = "Idle" => outstanding = <<>>
  BY <1>3, <1>6 DEF TimerByState
<1>8. ASSUME NEW what \in {"vote", "cooldown"}, OneWait(what)
      PROVE  Len(outstanding) = 1 /\ outstanding[1].what = what
  BY <1>3, <1>4, <1>5, <1>6, <1>8 DEF OneWait
<1> HIDE DEF outstanding
<1>9. CASE vote_state = "Idle"
  BY <1>7, <1>9 DEF TimerMatchesState, outstanding, waiting
<1>10. CASE vote_state = "Voting"
  BY <1>8, <1>10 DEF TimerMatchesState, TimerByState, outstanding, waiting
<1>11. CASE vote_state = "Coolingdown"
  BY <1>8, <1>11 DEF TimerMatchesState, TimerByState, outstanding, waiting
<1> QED BY <1>9, <1>10, <1>11 DEF TypeOK

\* The timer, the counts and what the clients see of a vote stay together, for
\* every number of users, addresses and settings.
THEOREM VotesAreSound == Spec => []VotesSound
<1>1. Inv => VotesSound
  BY TimerBelongs DEF Inv, VotesSound
<1> QED BY <1>1, InvAlways, PTL

\* At most one of the members behind an address has voted.
THEOREM OneBallot == Spec => []OneBallotPerAddress
<1>1. Inv => OneBallotPerAddress
  BY DEF Inv
<1> QED BY <1>1, InvAlways, PTL

\* Between votes an address is marked only if it is counted too often.
THEOREM NoLockout == Spec => []NobodyLockedOut
<1>1. Inv => NobodyLockedOut
  BY DEF Inv
<1> QED BY <1>1, InvAlways, PTL

\* A vote that passes had as many yes as no among the members' ballots.
THEOREM MajorityNeeded == Spec => MajorityRestarts
<1>1. ASSUME Inv, [Next]_vars, result = "None", result' = "Passed", ~leftover
      PROVE  Cardinality(Ballots("Yes")) >= Cardinality(Ballots("No"))
  <2>1. RunVoteHandler
    BY <1>1 DEF Next, vars, AddUser, RemoveUser, Vote, StartVote, CastVote,
         CancelVote, ApplySettings, SetActive, TimerExpires, RunCooldownHandler
  <2>2. vote_state = "Voting"
    BY <1>1, <2>1, CompletionFacts DEF RunVoteHandler
  <2>3. yes_vote_count >= no_vote_count
    BY <1>1, <2>1 DEF RunVoteHandler, OnVoteEnd, ballots
  <2> QED BY <1>1, <2>2, <2>3 DEF Inv, TallyMatchesBallots
<1>2. Inv /\ [Next]_vars =>
        [result = "None" /\ result' = "Passed" /\ ~leftover =>
           Cardinality(Ballots("Yes")) >= Cardinality(Ballots("No"))]_vars
  BY <1>1
<1> QED BY <1>2, InvAlways, PTL DEF Spec, MajorityRestarts

=============================================================================
