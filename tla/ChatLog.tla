------------------------------ MODULE ChatLog ------------------------------
(***************************************************************************)
(* What the history of a chat room promises: it is the sequence of the     *)
(* last Capacity messages, oldest first.                                   *)
(***************************************************************************)
EXTENDS Naturals, Sequences

CONSTANTS Messages, Capacity

VARIABLE log

Init == log = <<>>

\* A message is added; the oldest one is dropped from a full history.
Add(m) == log' = Append(IF Len(log) < Capacity THEN log ELSE Tail(log), m)

Next == \E m \in Messages : Add(m)

Spec == Init /\ [][Next]_log
=============================================================================
