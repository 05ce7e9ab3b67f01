----------------------------- MODULE MCVmTurns -----------------------------
(* VmTurns with two sockets that move between two virtual machines. *)
EXTENDS VmTurns

CONSTANTS s1, s2, vm1, vm2

MCSockets == {s1, s2}
MCVms == {vm1, vm2}

=============================================================================
