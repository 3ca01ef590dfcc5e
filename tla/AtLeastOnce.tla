---------------------------- MODULE AtLeastOnce -----------------------------
(***************************************************************************)
(* What TTP2 over UDP promises a sender: its packets are started one at a  *)
(* time and in order, a packet is settled when it is confirmed or dropped  *)
(* and the next one is started only then, and what is confirmed has been   *)
(* received.  A packet may be received again, be dropped although it has   *)
(* been received, and be received late.                                    *)
(*                                                                         *)
(* A packet is a pair of its sender and a number.                          *)
(***************************************************************************)
EXTENDS Naturals

CONSTANT Packets

VARIABLES
  started,    \* the packets that have been sent
  received,   \* those that have been received
  confirmed,  \* those whose sender knows it
  dropped     \* those whose sender has given up

Init == started = {} /\ received = {} /\ confirmed = {} /\ dropped = {}

Unsettled == started \ (confirmed \cup dropped)

Start(p) ==
  /\ \A q \in Unsettled : q[1] # p[1]
  /\ \A q \in started : q[1] = p[1] => q[2] < p[2]
  /\ started' = started \cup {p}
  /\ UNCHANGED <<received, confirmed, dropped>>

Receive(p) ==
  /\ received' = received \cup {p}
  /\ UNCHANGED <<started, confirmed, dropped>>

Confirm(p) ==
  /\ p \in Unsettled \cap received
  /\ confirmed' = confirmed \cup {p}
  /\ UNCHANGED <<started, received, dropped>>

Drop(p) ==
  /\ p \in Unsettled
  /\ dropped' = dropped \cup {p}
  /\ UNCHANGED <<started, received, confirmed>>

Next ==
  \/ \E p \in Packets : Start(p)
  \/ \E p \in started : Receive(p) \/ Confirm(p) \/ Drop(p)

Spec == Init /\ [][Next]_<<started, received, confirmed, dropped>>

=============================================================================
