---------------------------- MODULE ByteChannel ----------------------------
(***************************************************************************)
(* What one direction of the serial sockets promises to the firmware tasks *)
(* (serialsock.h:26-34): per slot, a bounded buffer between an end that    *)
(* puts characters and an end that takes them away.  Characters are named  *)
(* by their position in the slot's stream, so that "in order, none lost,   *)
(* none doubled, none overwritten" is one fact about `delivered'.          *)
(***************************************************************************)
EXTENDS Naturals, Sequences

CONSTANTS
  Channels,         \* one per socket slot
  Capacity          \* characters that may be accepted and not yet delivered

VARIABLES
  accepted,         \* per channel: how many characters it has taken in
  delivered         \* per channel: the characters it has handed out, in order

Held(c) == accepted[c] - Len(delivered[c])

Init ==
  /\ accepted = [c \in Channels |-> 0]
  /\ delivered = [c \in Channels |-> <<>>]

Accept(c, n) ==
  /\ Held(c) + n <= Capacity
  /\ accepted' = [accepted EXCEPT ![c] = @ + n]
  /\ UNCHANGED delivered

Deliver(c, n) ==
  /\ n <= Held(c)
  /\ delivered' = [delivered EXCEPT ![c] = @ \o [i \in 1..n |-> Len(@) + i]]
  /\ UNCHANGED accepted

Next == \E c \in Channels, n \in 1..Capacity : Accept(c, n) \/ Deliver(c, n)

Spec == Init /\ [][Next]_<<accepted, delivered>>
=============================================================================
