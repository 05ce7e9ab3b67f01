----------------------------- MODULE Admission ------------------------------
(***************************************************************************)
(* The limit on the connections of an address: CollabVmSocket's            *)
(* OnPreConnect() and OnDisconnect(), and IPData.  OnPreConnect() finds    *)
(* the data of the address on one strand, reads the server's settings on a *)
(* second and counts the connection on a third, the address's own; the     *)
(* settings may change in between.                                         *)
(*                                                                         *)
(* All sockets are of one address: the data of two addresses have nothing  *)
(* in common but the map that finds them.                                  *)
(***************************************************************************)
EXTENDS Naturals, FiniteSets

CONSTANTS
  Sockets,
  Limits,       \* values of MAX_CONNECTIONS
  Wrap,         \* connections is a std::uint8_t: 2^8
  MayDisable    \* administrators switch the limit on and off

\* What the constants are.
AdmissionAssumption ==
  /\ IsFiniteSet(Sockets) /\ Limits \subseteq Nat
  /\ Wrap \in Nat \ {0} /\ MayDisable \in BOOLEAN

VARIABLES
  enabled, limit,  \* MAX_CONNECTIONS_ENABLED, MAX_CONNECTIONS
  connections,     \* IPData::connections
  phase,           \* where each socket is in OnPreConnect()
  seen,            \* the settings that each socket has read
  refused          \* sockets that were over the limit

vars == <<enabled, limit, connections, phase, seen, refused>>

Phases   == {"none", "looking", "reading", "counting", "connected", "closed"}
Settings == [enabled: BOOLEAN, limit: Limits]

Init ==
  /\ enabled \in (IF MayDisable THEN BOOLEAN ELSE {TRUE})
  /\ limit \in Limits
  /\ connections = 0
  /\ phase = [s \in Sockets |-> "none"]
  /\ seen = [s \in Sockets |-> [enabled |-> enabled, limit |-> limit]]
  /\ refused = {}

\* The handler of s goes from one strand to the next.
Goes(s, from, to) ==
  /\ phase[s] = from
  /\ phase' = [phase EXCEPT ![s] = to]

\* An upgrade is requested, and the address's data is looked up.
OnPreConnect(s) ==
  /\ Goes(s, "none", "looking")
  /\ UNCHANGED <<enabled, limit, connections, seen, refused>>

\* GetIPData() makes the data of an address that has none; from then on the
\* socket has ip_data_.
GetIPData(s) ==
  /\ Goes(s, "looking", "reading")
  /\ UNCHANGED <<enabled, limit, connections, seen, refused>>

ReadSettings(s) ==
  /\ Goes(s, "reading", "counting")
  /\ seen' = [seen EXCEPT ![s] = [enabled |-> enabled, limit |-> limit]]
  /\ UNCHANGED <<enabled, limit, connections, refused>>

Incremented == (connections + 1) % Wrap

\* Faulty variant: the connection is counted after it was compared.
Count_Late(s) ==
  /\ Goes(s, "counting", "connected")
  /\ connections' = IF seen[s].enabled THEN Incremented ELSE connections
  /\ refused' = IF seen[s].enabled /\ connections > seen[s].limit
                THEN refused \cup {s} ELSE refused
  /\ UNCHANGED <<enabled, limit, seen>>

\* The connection is counted only if the limit is on; a socket that is over
\* it is closed (by a task), the others are upgraded.
Count(s) ==
  /\ Goes(s, "counting", "connected")
  /\ connections' = IF seen[s].enabled THEN Incremented ELSE connections
  /\ refused' = IF seen[s].enabled /\ Incremented > seen[s].limit
                THEN refused \cup {s} ELSE refused
  /\ UNCHANGED <<enabled, limit, seen>>

\* The connection is counted off, whether or not it was counted.
OnDisconnect(s) ==
  /\ Goes(s, "connected", "closed")
  /\ connections' = IF connections > 0 THEN connections - 1 ELSE connections
  /\ UNCHANGED <<enabled, limit, seen, refused>>

\* A socket's model value stands for the address's next socket, too.
Reuse(s) ==
  /\ Goes(s, "closed", "none")
  /\ refused' = refused \ {s}
  /\ UNCHANGED <<enabled, limit, connections, seen>>

\* An administrator changes the settings.
SetSettings ==
  /\ limit' \in Limits
  /\ enabled' \in (IF MayDisable THEN BOOLEAN ELSE {enabled})
  /\ UNCHANGED <<connections, phase, seen, refused>>

Next ==
  \/ SetSettings
  \/ \E s \in Sockets :
       \/ OnPreConnect(s) \/ GetIPData(s) \/ ReadSettings(s) \/ Count(s)
       \/ OnDisconnect(s) \/ Reuse(s)

Spec == Init /\ [][Next]_vars

-----------------------------------------------------------------------------
(* Properties *)

\* The type of every variable; connections never goes below zero, where it
\* would wrap and refuse the address for good.
TypeOK ==
  /\ enabled \in BOOLEAN /\ limit \in Limits
  /\ connections \in 0 .. Wrap - 1
  /\ phase \in [Sockets -> Phases]
  /\ seen \in [Sockets -> Settings]
  /\ refused \subseteq Sockets

Active == {s \in Sockets : phase[s] = "connected"}

\* However the limit is switched on and off, no connection that has ended is
\* still counted, so that an address is never refused for what it had before.
NeverOverCounts == connections <= Cardinality(Active)

\* "The number of active connections from the IP": those that passed
\* OnPreConnect(), or were refused by it, and are not yet closed.
CountsConnections == connections = Cardinality(Active)

\* While the limit is on, an address has no more connections than the highest
\* limit that one of them was admitted under.
LimitHolds ==
  Active \ refused # {} =>
    \E s \in Active \ refused : Cardinality(Active \ refused) <= seen[s].limit
=============================================================================
