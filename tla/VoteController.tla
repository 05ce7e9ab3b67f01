--------------------------- MODULE VoteController ---------------------------
(***************************************************************************)
(* Votes to restart a virtual machine: class VoteController, the hooks the *)
(* VM gives it (Vote, OnVoteEnd, OnVoteIdle, OnRemoveUser), and the part   *)
(* of UserChannel they rely on: who is a member, and the per-address data  *)
(* that lives as long as a member with that address.                       *)
(*                                                                         *)
(* Everything runs on the VM's strand; a vote and its cooldown share one   *)
(* timer whose handlers are tasks of the strand.  cancel() aborts a        *)
(* pending wait, whose handler still runs; it cannot recall a handler that *)
(* is already queued.                                                      *)
(***************************************************************************)
EXTENDS Integers, SequencesExt

CONSTANTS
  Users,       \* the sockets that may join the VM's channel
  Ips,         \* their addresses
  IpOf,        \* the address of each user
  Registered,  \* the users with an account
  Settings,    \* the combinations of vote settings an admin may choose
  VoteLimit,   \* Common::vote_limit
  Wrap,        \* the modulus of the vote counters, 2^32 in the code
  MaxRefs      \* bound on the joins counted for one address

ASSUME UsersAssumption == IpOf \in [Users -> Ips] /\ Registered \subseteq Users
\* A counter has room for a ballot of every socket: fewer than 2^32 are open.
ASSUME RoomAssumption == IsFiniteSet(Users) /\ Cardinality(Users) < Wrap
ASSUME SettingsAssumption ==
  Settings \subseteq [votes_enabled : BOOLEAN, cooldown : BOOLEAN,
                      disallow_guest_votes : BOOLEAN]
ASSUME LimitAssumption == VoteLimit \in Nat /\ Wrap \in Nat \ {0}
ASSUME BoundAssumption == MaxRefs \in Nat

VARIABLES
  vote_state,        \* vote_state_
  yes_vote_count,    \* yes_vote_count_
  no_vote_count,     \* no_vote_count_
  wait,              \* the pending wait of vote_timer_
  done,              \* its completions whose handler has not run
  members,           \* the keys of the channel's users_
  vote_data,         \* the members' UserVoteData
  refs,              \* reference_count_ of each address's ip_data, 0 if none
  ip_voted,          \* the addresses whose ip_data has voted set
  active,            \* the VM's active_
  config,            \* the vote settings in force
  result,            \* the last VoteResult, or None while a vote is open
  shown,             \* the last VoteStatus broadcast
  leftover           \* history: a vote ended without clearing its ballots

vars == <<vote_state, yes_vote_count, no_vote_count, wait, done, members,
          vote_data, refs, ip_voted, active, config, result, shown, leftover>>

counts == <<yes_vote_count, no_vote_count>>
timer == <<wait, done>>
ballots == <<vote_data, ip_voted>>
channel == <<members, refs, ballots>>

FreshData == [last_vote |-> "Undecided", voted_amount |-> 0,
              voted_limit |-> FALSE]

GetVotesEnabled == config.votes_enabled

\* GetTimeRemaining() > 0: a vote is open and its wait has not run out.  A
\* cancelled wait keeps its expiry.
TimeRemains ==
  /\ vote_state = "Voting"
  /\ [what |-> "vote", aborted |-> FALSE] \notin ToSet(done)

\* The message GetVoteStatus() builds, without times.
GetVoteStatus ==
  IF GetVotesEnabled /\ vote_state # "Coolingdown" /\ TimeRemains
    THEN [status |-> "InProgress", yes |-> yes_vote_count, no |-> no_vote_count]
    ELSE [status |-> IF ~GetVotesEnabled THEN "Disabled"
                     ELSE IF vote_state = "Coolingdown" THEN "CoolingDown"
                     ELSE "Idle",
          yes |-> 0, no |-> 0]

BroadcastVoteStatus == shown' = GetVoteStatus'

Init ==
  /\ vote_state = "Idle"
  /\ yes_vote_count = 0 /\ no_vote_count = 0
  /\ wait = "none" /\ done = <<>>
  /\ members = {}
  /\ vote_data = [u \in Users |-> FreshData]
  /\ refs = [ip \in Ips |-> 0]
  /\ ip_voted = {}
  /\ active = FALSE
  /\ config \in Settings
  /\ result = "None"
  /\ shown = GetVoteStatus
  /\ leftover = FALSE

-----------------------------------------------------------------------------
(* The channel. *)

\* A socket may join again before the leave of its first join has run: its
\* entry in users_ stays as it is, but its address is counted once more.
AddUser(u) ==
  /\ refs[IpOf[u]] < MaxRefs
  /\ refs' = [refs EXCEPT ![IpOf[u]] = @ + 1]
  /\ members' = members \cup {u}
  /\ UNCHANGED <<vote_state, counts, timer, ballots, active, config, result,
                 shown, leftover>>

Decrement(count) == (count - 1) % Wrap
Increment(count) == (count + 1) % Wrap

\* Faulty variant: the ballot is forgotten but stays in the count.
RemoveVote_KeepsCount(u) == UNCHANGED counts

\* RemoveVote(): takes the ballot out of the count, whatever the vote's state.
RemoveVote(u) ==
  /\ yes_vote_count' = IF vote_data[u].last_vote = "Yes"
                         THEN Decrement(yes_vote_count) ELSE yes_vote_count
  /\ no_vote_count' = IF vote_data[u].last_vote = "No"
                        THEN Decrement(no_vote_count) ELSE no_vote_count

\* What RemoveVote() returns: whether there was a ballot to take out.
RemovesBallot(u) == vote_data[u].last_vote # "Undecided"

\* The address's data is erased when no join of it is counted any more.
DropIp(u) ==
  /\ refs' = [refs EXCEPT ![IpOf[u]] = @ - 1]
  /\ ip_voted' = IF refs'[IpOf[u]] = 0 THEN ip_voted \ {IpOf[u]} ELSE ip_voted

RemoveUser(u) ==
  /\ u \in members
  /\ DropIp(u)
  /\ RemoveVote(u)
  /\ vote_data' = [vote_data EXCEPT ![u] = FreshData]
  /\ members' = members \ {u}
  /\ UNCHANGED <<vote_state, timer, active, config, result, leftover>>
  /\ IF RemovesBallot(u) THEN BroadcastVoteStatus ELSE UNCHANGED shown

-----------------------------------------------------------------------------
(* Voting. *)

\* expires_after() aborts a wait that is still pending; its handler runs.
StartTimer(what) ==
  /\ wait' = what
  /\ done' = IF wait = "none" THEN done
             ELSE Append(done, [what |-> wait, aborted |-> TRUE])

\* AddVote() while no vote is open: the first vote must be a yes.
StartVote(u, voted_yes) ==
  /\ vote_state = "Idle"
  /\ voted_yes
  /\ vote_state' = "Voting"
  /\ vote_data' = [vote_data EXCEPT ![u].last_vote = "Yes"]
  /\ yes_vote_count' = 1 /\ no_vote_count' = 0
  /\ StartTimer("vote")
  /\ result' = "None"

\* AddVote() while a vote is open.  A refused attempt still counts towards
\* the limit.
Decision(voted_yes) == IF voted_yes THEN "Yes" ELSE "No"

ReachesLimit(data) ==
  data.voted_limit \/ data.voted_amount + 1 >= VoteLimit

Counts(u, voted_yes) ==
  /\ ~ReachesLimit(vote_data[u])
  /\ vote_data[u].last_vote # Decision(voted_yes)

CastVote(u, voted_yes) ==
  LET data == vote_data[u]
      moved == data.last_vote # "Undecided"   \* taken from the other side
      add(count, side) ==
        IF Decision(voted_yes) = side THEN Increment(count)
        ELSE IF moved THEN Decrement(count) ELSE count
  IN /\ vote_state = "Voting"
     /\ IF Counts(u, voted_yes)
          THEN /\ vote_data' = [vote_data EXCEPT
                    ![u].last_vote = Decision(voted_yes),
                    ![u].voted_amount = @ + 1]
               /\ yes_vote_count' = add(yes_vote_count, "Yes")
               /\ no_vote_count' = add(no_vote_count, "No")
          ELSE /\ vote_data' = [vote_data EXCEPT
                    ![u].voted_amount = IF data.voted_limit THEN @ ELSE @ + 1,
                    ![u].voted_limit = ReachesLimit(data)]
               /\ UNCHANGED counts
     /\ UNCHANGED <<vote_state, timer, result>>

\* Faulty variant: the address is not checked.
MayVote_AnyAddress(u) ==
  /\ u \in members
  /\ config.disallow_guest_votes => u \in Registered
  /\ GetVotesEnabled

\* The conditions Vote() and AddVote() put on the voter.
MayVote(u) ==
  /\ u \in members
  /\ config.disallow_guest_votes => u \in Registered
  /\ IpOf[u] \notin ip_voted
  /\ GetVotesEnabled

\* A counted vote marks the voter's address and is broadcast.
Vote(u, voted_yes) ==
  LET counted == vote_state = "Idle" \/ Counts(u, voted_yes)
  IN /\ MayVote(u)
     /\ StartVote(u, voted_yes) \/ CastVote(u, voted_yes)
     /\ UNCHANGED <<members, refs, active, config, leftover>>
     /\ IF counted
          THEN ip_voted' = ip_voted \cup {IpOf[u]} /\ BroadcastVoteStatus
          ELSE UNCHANGED <<ip_voted, shown>>

\* StopVote(): cancel() aborts the pending wait, of a vote or of a cooldown.
StopVote ==
  IF wait = "none" THEN UNCHANGED timer
  ELSE /\ done' = Append(done, [what |-> wait, aborted |-> TRUE])
       /\ wait' = "none"

CancelVote ==
  /\ StopVote
  /\ UNCHANGED <<vote_state, counts, channel, active, config, result, shown,
                 leftover>>

\* UpdateSettings(): turning votes off stops the vote; both ways are told.
ApplySettings(new) ==
  /\ config' = new
  /\ UNCHANGED <<vote_state, counts, channel, active, result, leftover>>
  /\ IF GetVotesEnabled /\ ~new.votes_enabled
       THEN StopVote ELSE UNCHANGED timer
  /\ IF GetVotesEnabled # new.votes_enabled
       THEN BroadcastVoteStatus ELSE UNCHANGED shown

\* Start() and Stop() of the VM, as far as votes look at them.
SetActive(value) ==
  /\ active # value
  /\ active' = value
  /\ UNCHANGED <<vote_state, counts, timer, channel, config, result, shown,
                 leftover>>

-----------------------------------------------------------------------------
(* The timer and its handlers. *)

TimerExpires ==
  /\ wait # "none"
  /\ wait' = "none"
  /\ done' = Append(done, [what |-> wait, aborted |-> FALSE])
  /\ UNCHANGED <<vote_state, counts, channel, active, config, result, shown,
                 leftover>>

\* OnVoteIdle()
OnVoteIdle ==
  IF active /\ GetVotesEnabled THEN BroadcastVoteStatus ELSE UNCHANGED shown

\* Faulty variant: the addresses keep their mark.
OnVoteEnd_KeepsMarks(passed) ==
  IF ~active \/ ~GetVotesEnabled
    THEN /\ leftover' = \E u \in members : IpOf[u] \in ip_voted
         /\ UNCHANGED <<ballots, result>>
    ELSE /\ result' = IF passed THEN "Passed" ELSE "Failed"
         /\ vote_data' = [u \in Users |-> FreshData]
         /\ leftover' = FALSE
         /\ UNCHANGED ip_voted

\* OnVoteEnd(): tells the result (a passed vote also restarts the VM) and
\* clears the ballots, unless the VM was stopped or votes were turned off.
OnVoteEnd(passed) ==
  IF ~active \/ ~GetVotesEnabled
    THEN /\ leftover' = \E u \in members : IpOf[u] \in ip_voted
         /\ UNCHANGED <<ballots, result>>
    ELSE /\ result' = IF passed THEN "Passed" ELSE "Failed"
         /\ vote_data' = [u \in Users |-> FreshData]
         /\ ip_voted' = ip_voted \ {IpOf[u] : u \in members}
         /\ leftover' = FALSE

Completion(what) ==
  /\ done # <<>>
  /\ Head(done).what = what
  /\ UNCHANGED <<counts, members, refs, active, config>>

\* The handler of a vote's wait.
RunVoteHandler ==
  LET failed == Head(done).aborted \/ ~GetVotesEnabled
  IN /\ Completion("vote")
     /\ IF ~failed /\ config.cooldown
          THEN /\ vote_state' = "Coolingdown"
               /\ wait' = "cooldown" /\ done' = Tail(done)
               /\ UNCHANGED shown
          ELSE /\ vote_state' = "Idle"
               /\ wait' = wait /\ done' = Tail(done)
               /\ OnVoteIdle
     /\ OnVoteEnd(~failed /\ yes_vote_count >= no_vote_count)

\* Faulty variant: a cooldown that was cancelled does not end.
RunCooldownHandler_ChecksError ==
  /\ Completion("cooldown")
  /\ done' = Tail(done)
  /\ IF Head(done).aborted
       THEN UNCHANGED <<vote_state, shown>>
       ELSE vote_state' = "Idle" /\ OnVoteIdle
  /\ UNCHANGED <<wait, ballots, result, leftover>>

\* The handler of a cooldown's wait, which ends the cooldown either way.
RunCooldownHandler ==
  /\ Completion("cooldown")
  /\ done' = Tail(done)
  /\ vote_state' = "Idle"
  /\ OnVoteIdle
  /\ UNCHANGED <<wait, ballots, result, leftover>>

Next ==
  \/ \E u \in Users : AddUser(u) \/ RemoveUser(u)
  \/ \E u \in Users, voted_yes \in BOOLEAN : Vote(u, voted_yes)
  \/ CancelVote
  \/ \E new \in Settings : ApplySettings(new)
  \/ \E value \in BOOLEAN : SetActive(value)
  \/ TimerExpires
  \/ RunVoteHandler
  \/ RunCooldownHandler

\* Waits expire, and the io_context's threads run the handlers.
Fairness ==
  WF_vars(TimerExpires) /\ WF_vars(RunVoteHandler) /\ WF_vars(RunCooldownHandler)

Spec == Init /\ [][Next]_vars /\ Fairness

-----------------------------------------------------------------------------
(* Properties *)

\* Types of the variables: the counters are unsigned.
TypeOK ==
  /\ vote_state \in {"Idle", "Voting", "Coolingdown"}
  /\ yes_vote_count \in 0 .. Wrap - 1 /\ no_vote_count \in 0 .. Wrap - 1
  /\ wait \in {"none", "vote", "cooldown"}
  /\ done \in Seq([what : {"vote", "cooldown"}, aborted : BOOLEAN])
  /\ members \subseteq Users
  /\ vote_data \in [Users -> [last_vote : {"Undecided", "Yes", "No"},
                              voted_amount : Nat, voted_limit : BOOLEAN]]
  /\ refs \in [Ips -> 0 .. MaxRefs]
  /\ ip_voted \subseteq Ips
  /\ active \in BOOLEAN
  /\ config \in Settings
  /\ result \in {"None", "Passed", "Failed"}
  /\ shown \in [status : {"Disabled", "CoolingDown", "Idle", "InProgress"},
                yes : 0 .. Wrap - 1, no : 0 .. Wrap - 1]
  /\ leftover \in BOOLEAN

\* vote_state_ and the timer never part: an open vote has exactly one wait or
\* handler of a vote, a cooldown one of a cooldown, and otherwise there is
\* none that could end a later vote early.
TimerMatchesState ==
  LET outstanding == done \o (IF wait = "none" THEN <<>>
                              ELSE <<[what |-> wait, aborted |-> FALSE]>>)
  IN CASE vote_state = "Idle" -> outstanding = <<>>
       [] vote_state = "Voting" ->
            Len(outstanding) = 1 /\ outstanding[1].what = "vote"
       [] vote_state = "Coolingdown" ->
            Len(outstanding) = 1 /\ outstanding[1].what = "cooldown"

Ballots(side) == {u \in members : vote_data[u].last_vote = side}

\* The two counts are the ballots of the members that are still there, also
\* when voters left, came back or voted from a shared address; only ballots
\* left over from a vote that ended while the VM was stopped or votes were
\* off can falsify a later tally.
TallyMatchesBallots ==
  vote_state = "Voting" /\ ~leftover =>
    /\ yes_vote_count = Cardinality(Ballots("Yes"))
    /\ no_vote_count = Cardinality(Ballots("No"))

\* One ballot per address: of the members behind an address at most one has
\* voted, whoever of them leaves and joins again.
OneBallotPerAddress ==
  \A u, v \in members :
    /\ IpOf[u] = IpOf[v]
    /\ vote_data[u].last_vote # "Undecided"
    /\ vote_data[v].last_vote # "Undecided"
    => u = v

\* Nobody is locked out of the next vote: between votes no address is marked,
\* unless the last one ended while the VM was stopped or votes were off, or
\* the address is counted more often than it has members, which a socket that
\* joined twice and left once makes last for ever.
NobodyLockedOut ==
  vote_state # "Voting" /\ ~leftover =>
    \A ip \in ip_voted : refs[ip] > Cardinality({u \in members : IpOf[u] = ip})

\* The tally the clients were shown last is the tally, until the vote ends.
ClientsSeeTally ==
  vote_state = "Voting" /\ shown.status = "InProgress" =>
    shown.yes = yes_vote_count /\ shown.no = no_vote_count

\* What a vote is made of stays together: the timer belongs to the state, the
\* counts to the ballots that are there, and the clients see these counts.
VotesSound ==
  TypeOK /\ TimerMatchesState /\ TallyMatchesBallots /\ ClientsSeeTally

\* The VM is restarted by a vote only if, of the members that are still there,
\* as many voted yes as voted no.
MajorityRestarts ==
  [][result = "None" /\ result' = "Passed" /\ ~leftover =>
       Cardinality(Ballots("Yes")) >= Cardinality(Ballots("No"))]_vars

\* A vote, cancelled or not, and its cooldown come to an end, so that another
\* vote can be started.
VotesEnd == (vote_state # "Idle") ~> (vote_state = "Idle")

=============================================================================
