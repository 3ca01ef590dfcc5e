--------------------------- MODULE MCEchoSession ----------------------------
(***************************************************************************)
(* An instance of EchoSession: an int of three bytes, and packets with the *)
(* values at the codec's boundaries.                                       *)
(***************************************************************************)
EXTENDS EchoSession

Numbers == {-8388608, -32769, -32768, -129, -128, -1, 0, 127, 128, 32768, 8388607}
Strings == {<<>>, <<65>>, <<65, 0, 66>>, <<0>>}

Payloads ==
  {[type |-> "standard", fields |-> [payload |-> s]] : s \in Strings} \cup
  {[type |-> "error", fields |-> [code |-> n, message |-> <<65>>]] : n \in Numbers} \cup
  {[type |-> "universal", fields |-> [type |-> 7, bytes |-> b]] :
     b \in {<<>>, <<0, 255>>}} \cup
  {[type |-> "lsSolution", fields |-> [directoryItems |-> v]] :
     v \in {<<>>, <<<<>>, <<65, 0, 66>>>>}} \cup
  {[type |-> "file",
    fields |-> [filePath |-> <<65>>, start |-> -1, end |-> 4, payload |-> <<0, 9>>]],
   [type |-> "viewport",
    fields |-> [xStart |-> 1, xEnd |-> 2, yStart |-> 3, yEnd |-> 4, payload |-> <<0, 9>>]],
   [type |-> "viewportRequest",
    fields |-> [xStart |-> 1, xEnd |-> 2, yStart |-> 3, yEnd |-> 4]],
   [type |-> "tqlQuery", fields |-> [query |-> <<65, 66>>]],
   [type |-> "ls", fields |-> [directory |-> <<65, 66>>]]}

\* Packets without an id, and some with an id of the application's.
MCPackets ==
  {payload @@ [id |-> AutoId] : payload \in Payloads} \cup
  {[type |-> "ls", fields |-> [directory |-> <<65>>]] @@ [id |-> n] : n \in {0, -2, 300}}

=============================================================================
