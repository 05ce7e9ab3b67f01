-------------------------- MODULE MCTurnController --------------------------
(* TurnController with three users, one of them an administrator, and the   *)
(* turn times 0 (accepted while turns are disabled), 1 and 2.               *)
EXTENDS TurnController

CONSTANTS u1, u2, u3

MCUsers == {u1, u2, u3}
MCAdmins == {u3}
MCTurnTimes == 0..2

=============================================================================
