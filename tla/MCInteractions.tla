--------------------------- MODULE MCInteractions ---------------------------
(***************************************************************************)
(* Runs of Interactions: answer calls and decisions are interchangeable.   *)
(* Numbers of requests are not, they come in order.                        *)
(***************************************************************************)
EXTENDS Interactions, TLC

Symmetry == Permutations(Calls) \cup Permutations(Decisions)
=============================================================================
