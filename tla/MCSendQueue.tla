----------------------------- MODULE MCSendQueue -----------------------------
(* SendQueue with batches of none and of two messages. *)
EXTENDS SendQueue

MCBatches == {0, 2}

=============================================================================
