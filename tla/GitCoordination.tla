--------------------------- MODULE GitCoordination ---------------------------
(***************************************************************************)
(* application/git-coordination.ts: the leases Git jobs and turns take on a *)
(* workspace, a project and the network.  A lease is a FIFO gate object; the *)
(* workspace and project gates live in a map only while somebody uses them.  *)
(*                                                                         *)
(* An actor runs inside one gate per level.  What it does there, and when   *)
(* it gives up waiting, is the business of the module that extends this one. *)
(***************************************************************************)
EXTENDS Integers, FiniteSets

CONSTANTS Actors,
          Keys,              \* lease keys
          Gates,             \* gate objects of the maps (enough to have a fresh one)
          Network,           \* the gate object of the network
          NetworkOperations, \* its capacity
          None

(* An object for every actor at every keyed level, and one that is new.    *)
ASSUME GatesAssumption ==
  /\ Network \notin Gates /\ None \notin Gates \cup {Network}
  /\ IsFiniteSet(Actors) /\ IsFiniteSet(Gates)
  /\ 2 * Cardinality(Actors) < Cardinality(Gates)
ASSUME NetworkAssumption == NetworkOperations \in Nat \ {0}

Keyed  == {"workspace", "project"}
Levels == Keyed \cup {"network"}

VARIABLES
  gate,    \* KeyedGate.gates of each keyed level: key -> gate object
  active,  \* gate object -> how many have it
  waiters, \* gate object -> those in line for it
  ahead,   \* actor in line -> those in line before it
  owned,   \* actor, level -> the gate object it waits for or has
  has      \* actor -> the levels it has the lease of

leaseVars == <<gate, active, waiters, ahead, owned, has>>

AllGates == Gates \cup {Network}
Capacity(g) == IF g = Network THEN NetworkOperations ELSE 1

LeaseInit ==
  /\ gate = [l \in Keyed |-> [k \in Keys |-> None]]
  /\ active = [g \in AllGates |-> 0]
  /\ waiters = [g \in AllGates |-> {}]
  /\ ahead = [a \in Actors |-> {}]
  /\ owned = [a \in Actors |-> [l \in Levels |-> None]]
  /\ has = [a \in Actors |-> {}]

Waits(a, l) == owned[a][l] # None /\ l \notin has[a]

(* The line of a gate: in at its end, out from anywhere.                    *)
Queue(a, g) ==
  /\ waiters' = [waiters EXCEPT ![g] = @ \cup {a}]
  /\ ahead' = [ahead EXCEPT ![a] = waiters[g]]
Dequeue(S) ==
  /\ waiters' = [g \in AllGates |-> waiters[g] \ S]
  /\ ahead' = [a \in Actors |-> IF a \in S THEN {} ELSE ahead[a] \ S]
First(g) == {a \in waiters[g] : ahead[a] = {}}

(* Mutant: one more than the capacity is let in.                            *)
AcquireOffByOne(a, l, g) ==
  /\ owned' = [owned EXCEPT ![a][l] = g]
  /\ \/ /\ active[g] <= Capacity(g)
        /\ active' = [active EXCEPT ![g] = @ + 1]
        /\ has' = [has EXCEPT ![a] = @ \cup {l}]
        /\ UNCHANGED <<waiters, ahead>>
     \/ /\ active[g] > Capacity(g)
        /\ Queue(a, g)
        /\ UNCHANGED <<active, has>>

(* Gate.acquire of an actor whose signal is not aborted.                    *)
Acquire(a, l, g) ==
  /\ owned' = [owned EXCEPT ![a][l] = g]
  /\ \/ /\ active[g] < Capacity(g)
        /\ active' = [active EXCEPT ![g] = @ + 1]
        /\ has' = [has EXCEPT ![a] = @ \cup {l}]
        /\ UNCHANGED <<waiters, ahead>>
     \/ /\ active[g] >= Capacity(g)
        /\ Queue(a, g)
        /\ UNCHANGED <<active, has>>

(* A new gate object: nothing refers to it.                                 *)
Fresh == {g \in Gates : /\ \A l \in Keyed, k \in Keys : gate[l][k] # g
                        /\ \A a \in Actors, l \in Levels : owned[a][l] # g}

(* KeyedGate.run up to its await.                                           *)
Run(a, l, k) ==
  LET g == IF gate[l][k] # None THEN gate[l][k] ELSE CHOOSE f \in Fresh : TRUE
  IN  gate' = [gate EXCEPT ![l][k] = g] /\ Acquire(a, l, g)

AcquireNetwork(a) == Acquire(a, "network", Network) /\ UNCHANGED gate

(* Who is let in when an actor gives a lease back, and what is left.        *)
Granted(a, l) == IF l \in has[a] THEN First(owned[a][l]) ELSE {}
Freed(a, l) == IF l \in has[a] /\ Granted(a, l) = {} THEN 1 ELSE 0
GivesBack(a, l) ==
  /\ owned' = [owned EXCEPT ![a][l] = None]
  /\ active' = [active EXCEPT ![owned[a][l]] = @ - Freed(a, l)]
  /\ Dequeue(Granted(a, l))
  /\ has' = [b \in Actors |-> IF b = a THEN has[b] \ {l}
                              ELSE IF b \in Granted(a, l) THEN has[b] \cup {l} ELSE has[b]]
Idle(g, freed) == active[g] = freed /\ waiters[g] = {}
Drop(g) == gate' = [l \in Keyed |-> [k \in Keys |-> IF gate[l][k] = g THEN None ELSE gate[l][k]]]

(* Mutant: a gate is dropped as soon as its lease is given back.            *)
LeaveForgets(a, l) == GivesBack(a, l) /\ Drop(owned[a][l])

(* Mutant: a lease given back is not handed to the one waiting for it.      *)
LeaveKeeps(a, l) ==
  LET g == owned[a][l]
      back == IF l \in has[a] THEN 1 ELSE 0
  IN /\ owned' = [owned EXCEPT ![a][l] = None]
     /\ active' = [active EXCEPT ![g] = @ - back]
     /\ has' = [has EXCEPT ![a] = @ \ {l}]
     /\ IF Idle(g, back) THEN Drop(g) ELSE UNCHANGED gate
     /\ UNCHANGED <<waiters, ahead>>

(* What follows the action, or the refusal to wait any longer: the lease    *)
(* goes to the oldest waiter, and a gate nobody uses leaves the map.        *)
Leave(a, l) ==
  /\ GivesBack(a, l)
  /\ IF Idle(owned[a][l], Freed(a, l)) THEN Drop(owned[a][l]) ELSE UNCHANGED gate

(* Mutant: an aborted wait is rejected and stays in line.                   *)
CancelInLine(S) == UNCHANGED <<gate, active, waiters, ahead, owned, has>>

(* The signals of the actors S abort: all of them leave the line at once.   *)
Cancel(S) == Dequeue(S) /\ UNCHANGED <<gate, active, owned, has>>

----------------------------------------------------------------------------

LeaseTypeOK ==
  /\ gate \in [Keyed -> [Keys -> Gates \cup {None}]]
  /\ active \in [AllGates -> Nat]
  /\ waiters \in [AllGates -> SUBSET Actors] /\ ahead \in [Actors -> SUBSET Actors]
  /\ owned \in [Actors -> [Levels -> AllGates \cup {None}]]
  /\ has \in [Actors -> SUBSET Levels]

(* No slot of a gate leaks and none is lost: it counts exactly those that   *)
(* have it, only those that wait are in line, and nobody waits for a gate   *)
(* with room.                                                               *)
SlotsOwned ==
  \A g \in AllGates :
    /\ active[g] = Cardinality({a \in Actors : \E l \in has[a] : owned[a][l] = g})
    /\ waiters[g] # {} => active[g] = Capacity(g)
    /\ \A a \in waiters[g] : \E l \in Levels : owned[a][l] = g /\ Waits(a, l)
=============================================================================
