------------------------------ MODULE ChatRoom ------------------------------
(***************************************************************************)
(* The history of a chat room: a ring of Capacity entries that is          *)
(* allocated once, with the number of entries in use and the offset of the *)
(* entry to be overwritten next.  All calls run on the channel's strand.   *)
(***************************************************************************)
EXTENDS Integers, Sequences

CONSTANTS
  Texts, Senders, Types,  \* what a message consists of; types of users
  Capacity,               \* max_chat_message_history
  Blank                   \* an entry, or part of one, that was never written

ASSUME ChatRoomAssumption ==
  /\ Capacity \in Nat /\ 0 < Capacity /\ Capacity <= 256
  /\ Blank \notin Texts /\ Blank \notin Senders /\ Blank \notin Types

VARIABLES
  ring,   \* channel_messages_.getMessages()
  count,  \* channel_messages_.getCount()
  next    \* next_message_offset_

vars == <<ring, count, next>>

Offsets == 0 .. Capacity - 1
Message == [text: Texts, sender: Senders, type: Types]
Entry   == [text: Texts \cup {Blank}, sender: Senders \cup {Blank},
            type: {Blank}]

\* What is kept of a message; the type of its sender is not.
Stored(m) == [text |-> m.text, sender |-> m.sender, type |-> Blank]

Init ==
  /\ ring = [i \in Offsets |->
               [text |-> Blank, sender |-> Blank, type |-> Blank]]
  /\ count = 0
  /\ next = 0

\* next_message_offset_ is a std::uint8_t.
Following(i) == ((i + 1) % Capacity) % 256

AddUserMessage(m) ==
  /\ count' = IF count + 1 <= Capacity THEN count + 1 ELSE Capacity
  /\ ring' = [ring EXCEPT ![next] = Stored(m)]
  /\ next' = Following(next)

\* Faulty variant: off by one, the ring counts as full an entry too early.
First_Early == IF count >= Capacity - 1 THEN next ELSE 0

\* Where reading starts.
First == IF count = Capacity THEN next ELSE 0

GetChatHistory == [i \in 1 .. count |-> ring[(First + i - 1) % Capacity]]

Next == \E m \in Message : AddUserMessage(m)

Spec == Init /\ [][Next]_vars

-----------------------------------------------------------------------------
(* Properties *)

\* The type of every variable: the offset is one of the ring, and as long as
\* the ring is not full it is the number of messages.
TypeOK ==
  /\ ring \in [Offsets -> Entry]
  /\ count \in 0 .. Capacity
  /\ next \in Offsets
  /\ count < Capacity => next = count

\* Whoever joins gets the last messages, oldest first, whether the ring is
\* filling, just full or has wrapped.
Log == INSTANCE ChatLog WITH
  Messages <- {Stored(m) : m \in Message}, log <- GetChatHistory
ImplementsLog == Log!Spec
=============================================================================
