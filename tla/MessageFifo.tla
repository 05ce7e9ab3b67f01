----------------------------- MODULE MessageFifo -----------------------------
(***************************************************************************)
(* What a client connection promises to the code that queues messages on   *)
(* it: the messages reach the client in the order they were accepted, each *)
(* once and none skipped, until the connection breaks.  Whatever was not   *)
(* delivered by then may be lost.                                          *)
(***************************************************************************)
EXTENDS Integers, SequencesExt

VARIABLES
  delivered,  \* messages the client has received
  pending,    \* messages accepted and not delivered
  open        \* the connection can carry data

vars == <<delivered, pending, open>>

Init == delivered = <<>> /\ pending = <<>> /\ open = TRUE

\* More messages are accepted, behind the ones that are pending.
Accept ==
  /\ IsPrefix(pending, pending')
  /\ UNCHANGED <<delivered, open>>

\* Some of the pending messages arrive, first to last.
Deliver ==
  /\ open
  /\ IsPrefix(delivered, delivered')
  /\ delivered' \o pending' = delivered \o pending
  /\ UNCHANGED open

\* The connection is gone, and the oldest pending messages with it.
Lose ==
  /\ open' = FALSE
  /\ \E k \in 1 .. Len(pending) + 1 :
       pending' = SubSeq(pending, k, Len(pending))
  /\ UNCHANGED delivered

Next == Accept \/ Deliver \/ Lose

Spec == Init /\ [][Next]_vars

=============================================================================
