------------------------------ MODULE MCGitSync ------------------------------
(* Values for the runs of GitSync: three conversations, all of one project  *)
(* or the third of another.                                                 *)
EXTENDS GitSync, TLC

CONSTANTS c1, c2, c3, p1, p2

Symmetric == Permutations(Ops) \cup Permutations(IdempotencyKeys)

OneProject  == [c \in Conversations |-> p1]
TwoProjects == [c \in Conversations |-> IF c = c3 THEN p2 ELSE p1]
=============================================================================
