-------------------------- MODULE MCHostAddresses ---------------------------
(***************************************************************************)
(* An instance of HostAddresses: lists of up to three entries, and texts   *)
(* of up to five octets at the boundaries of the parser.                   *)
(***************************************************************************)
EXTENDS HostAddresses

CONSTANTS eth, wlan, a, b, c

Entries ==
  [name : {eth, wlan}, family : {"packet"}] \cup
  [name : {eth}, family : {"inet"}, ip : {a, b}, broadcast : {NoAddress, c}] \cup
  [name : {wlan}, family : {"inet"}, ip : {b}, broadcast : {NoAddress, a}] \cup
  {[name |-> eth, family |-> "none"]}

MCLists == UNION {[1..n -> Entries] : n \in 0..3}

Octets ==
  {<<>>, <<0>>, <<7>>, <<2, 5>>, <<2, 5, 5>>, <<2, 5, 6>>, <<0, 1>>, <<1, 0, 0, 0>>,
   <<Minus, 1, 0, 0, 0>>, <<1, Letter>>, <<Minus, 1>>, <<Space, 1>>, <<Other>>, <<1, Other>>}

MCTexts ==
  UNION {[1..n -> Octets] : n \in 1..3} \cup
  [1..4 -> {<<>>, <<0>>, <<7>>, <<2, 5, 5>>, <<2, 5, 6>>, <<0, 1>>, <<Minus, 1>>, <<1, Other>>}] \cup
  [1..5 -> {<<7>>, <<2, 5, 5>>, <<>>}]

=============================================================================
