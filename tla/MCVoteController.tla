-------------------------- MODULE MCVoteController --------------------------
(* VoteController with three users behind two addresses, one of them without *)
(* an account; the counters wrap at 4 and an address is counted up to three  *)
(* times, once more than it has sockets.                                     *)
EXTENDS VoteController

CONSTANTS u1, u2, u3, ip1, ip2

MCUsers == {u1, u2, u3}
MCIps == {ip1, ip2}
MCIpOf == [u \in MCUsers |-> IF u = u3 THEN ip2 ELSE ip1]
MCRegistered == {u1, u3}

MCSettings ==
  {[votes_enabled |-> TRUE, cooldown |-> TRUE, disallow_guest_votes |-> FALSE],
   [votes_enabled |-> TRUE, cooldown |-> FALSE, disallow_guest_votes |-> TRUE],
   [votes_enabled |-> FALSE, cooldown |-> TRUE, disallow_guest_votes |-> FALSE]}

=============================================================================
