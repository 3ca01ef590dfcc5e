------------------------- MODULE MCSessionQueues --------------------------
(***************************************************************************)
(* The server instance of SessionQueues for TLC: two application threads   *)
(* that do the same things.                                                *)
(***************************************************************************)
EXTENDS SessionQueuesProof, TLC

\* The callers are interchangeable: no definition tells one from another.
CallerSymmetry == Permutations(Callers)

=============================================================================
