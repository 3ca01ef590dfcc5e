-------------------------- MODULE OrderedChannel ---------------------------
(***************************************************************************)
(* What one direction of a TTP2 TCP session promises its users: packets    *)
(* are delivered in the order they were sent, each at most once, and, as   *)
(* long as no write has failed, without a gap and unchanged.  A failed     *)
(* write breaks the channel: from then on packets can be missing or        *)
(* arrive altered, and still never out of order or twice.                  *)
(*                                                                         *)
(* A packet is the number it was sent as; a delivery is a packet and       *)
(* whether its content is the one that was sent.                           *)
(***************************************************************************)
EXTENDS Naturals, Sequences

VARIABLES
  sent,    \* how many packets have been sent
  got,     \* the deliveries, in order
  broken   \* whether a write has failed

Init == sent = 0 /\ got = <<>> /\ broken = FALSE

Last == IF got = <<>> THEN 0 ELSE got[Len(got)][1]

Send == sent' = sent + 1 /\ UNCHANGED <<got, broken>>

Deliver ==
  /\ Len(got) < sent
  /\ ~broken
  /\ got' = Append(got, <<Len(got) + 1, TRUE>>)
  /\ UNCHANGED <<sent, broken>>

DeliverBroken ==
  /\ broken
  /\ \E k \in (Last + 1)..sent, whole \in BOOLEAN : got' = Append(got, <<k, whole>>)
  /\ UNCHANGED <<sent, broken>>

Break == broken' = TRUE /\ UNCHANGED <<sent, got>>

Next == Send \/ Deliver \/ DeliverBroken \/ Break

Spec == Init /\ [][Next]_<<sent, got, broken>>

=============================================================================
