------------------------------ MODULE GitProofs ------------------------------
(***************************************************************************)
(* What is proved of GitCoordination and GitSync, for every number of       *)
(* operations, turns, conversations and gates: the leases keep their slots  *)
(* and their keys apart, no Git job works under a running provider, and an  *)
(* idempotency key stands for one job.                                      *)
(***************************************************************************)
EXTENDS GitSync, FiniteSetTheorems, WellFoundedInduction, TLAPS

(* Any non-empty set of naturals has a least one.                           *)
LEMMA LeastNatural ==
  ASSUME NEW S \in SUBSET Nat, S # {}
  PROVE  \E n \in S : \A m \in S : n <= m
<1>1. \E n \in S : \A m \in S : ~ (<<m, n>> \in OpToRel(<, Nat))
  BY WFMin, NatLessThanWellFounded, Zenon
<1>2. \A n, m \in Nat : m < n => <<m, n>> \in OpToRel(<, Nat)
  BY DEF OpToRel
<1>3. \A n, m \in Nat : m < n \/ n <= m
  OBVIOUS
<1> QED
  BY <1>1, <1>2, <1>3

----------------------------------------------------------------------------
(* The retained operations.                                                *)

JobTypeOK ==
  /\ at \in [Actors -> Points]
  /\ kind \in [Ops -> Kinds \cup {None}] /\ key \in [Ops -> IdempotencyKeys \cup {None}]
  /\ keys \in [IdempotencyKeys -> Ops \cup {None}]
  /\ completed \subseteq operations /\ operations \subseteq Ops /\ IsFiniteSet(operations)

(* A retained operation has its key until it is forgotten, and a completed  *)
(* one is done.                                                            *)
OperationsInv ==
  /\ JobTypeOK
  /\ \A o \in Ops : at[o] # "none" => kind[o] \in Kinds
  /\ \A o \in Ops : at[o] # "none" /\ kind[o] # "commit" => key[o] \in IdempotencyKeys
  /\ \A o \in completed : at[o] = "done"
  /\ OperationsKept

(* A step that leaves the operations alone, and takes no job back to an     *)
(* earlier point, keeps it.                                                 *)
Onwards(o) ==
  \/ at'[o] = at[o]
  \/ /\ at[o] \notin {"none", "done"} /\ at'[o] # "none"
     /\ at[o] = "asking" /\ kind[o] # "commit" => at'[o] = "done"
LEMMA OthersKeepOperations ==
  ASSUME OperationsInv, UNCHANGED jobVars, at' \in [Actors -> Points], \A o \in Ops : Onwards(o)
  PROVE  OperationsInv'
<1>1. JobTypeOK'
  BY DEF OperationsInv, JobTypeOK, jobVars
<1>2. \A o \in Ops : at'[o] # "none" => kind'[o] \in Kinds
  BY DEF OperationsInv, jobVars, Onwards
<1>3. \A o \in Ops : at'[o] # "none" /\ kind'[o] # "commit" => key'[o] \in IdempotencyKeys
  BY DEF OperationsInv, jobVars, Onwards
<1>4. \A o \in completed' : at'[o] = "done"
  BY DEF OperationsInv, JobTypeOK, jobVars, Onwards
<1>5. Running' \subseteq Running
  BY ActorsAssumption DEF OperationsInv, JobTypeOK, Running, jobVars, Onwards
<1>6. OperationsKept'
  BY <1>5 DEF OperationsInv, OperationsKept, OneOperationPerKey, RetainsRunning, jobVars
<1> QED
  BY <1>1, <1>2, <1>3, <1>4, <1>6 DEF OperationsInv

LEMMA OperationsInvInit == Init => OperationsInv
<1> SUFFICES ASSUME Init PROVE OperationsInv
  OBVIOUS
<1>1. Running = {}
  BY ActorsAssumption DEF Init, Running
<1>2. IsFiniteSet({}) /\ Cardinality({}) = 0
  BY FS_EmptySet
<1>3. JobTypeOK
  BY <1>2 DEF Init, JobTypeOK, Points
<1>4. OperationsKept
  BY <1>1, <1>2, OperationsAssumption DEF Init, OperationsKept, OneOperationPerKey, RetainsRunning
<1>5. \A o \in Ops : at[o] = "none" /\ kind[o] = None
  BY ActorsAssumption DEF Init
<1>6. completed = {}
  BY DEF Init
<1> QED
  BY <1>3, <1>4, <1>5, <1>6 DEF OperationsInv

(* The request itself: its key is not looked at before it is admitted.      *)
LEMMA AskKeepsOperations ==
  ASSUME OperationsInv, NEW o \in Ops, NEW d \in Kinds, NEW c \in Conversations,
         NEW k \in IdempotencyKeys, Ask(o, d, c, k)
  PROVE  OperationsInv'
<1>1. at[o] = "none" /\ o \in Actors
  BY ActorsAssumption DEF Ask
<1>2. at' = [at EXCEPT ![o] = "asking"]
  BY DEF Ask, Moves
<1>3. JobTypeOK'
  BY <1>2 DEF OperationsInv, JobTypeOK, Ask, Points
<1>4. /\ \A p \in Ops : at'[p] # "none" => kind'[p] \in Kinds
      /\ \A p \in Ops : at'[p] # "none" /\ kind'[p] # "commit" => key'[p] \in IdempotencyKeys
  BY <1>2 DEF OperationsInv, JobTypeOK, Ask
<1>5. \A p \in completed' : at'[p] = "done"
  BY <1>1, <1>2 DEF OperationsInv, JobTypeOK, Ask
<1>6. Running' \subseteq Running \ {o}
  BY <1>1, <1>2 DEF Running, Ask, OperationsInv, JobTypeOK
<1>7. OperationsKept'
  <2>1. OneOperationPerKey'
    BY <1>6 DEF OperationsInv, JobTypeOK, OperationsKept, OneOperationPerKey, Ask, Running
  <2> QED
    BY <2>1, <1>6 DEF OperationsInv, OperationsKept, RetainsRunning, Ask
<1> QED
  BY <1>3, <1>4, <1>5, <1>7 DEF OperationsInv

(* Admission makes room among the completed, and the key was free.          *)
LEMMA AdmitKeepsOperations ==
  ASSUME OperationsInv, NEW o \in Ops, Admit(o)
  PROVE  OperationsInv'
<1>1. /\ at[o] = "asking" /\ kind[o] \in Kinds \ {"commit"} /\ key[o] \in IdempotencyKeys
      /\ keys[key[o]] = None
  BY DEF Admit, OperationsInv
<1>2. PICK S \in {{}} \cup {{e} : e \in completed} :
        /\ S = {} <=> Cardinality(operations) < RetainedOperations
        /\ operations' = (operations \ S) \cup {o} /\ completed' = completed \ S
        /\ keys' = [Forgetting(S) EXCEPT ![key[o]] = o]
  BY DEF Admit
<1>3. /\ \E p \in {"starting", "workspace"} : at' = [at EXCEPT ![o] = p]
      /\ kind' = kind /\ key' = key
  BY DEF Admit, Starts, Moves
<1>4. /\ S \subseteq completed /\ o \notin completed
      /\ keys' \in [IdempotencyKeys -> Ops \cup {None}]
      /\ keys'[key[o]] = o
      /\ \A k \in IdempotencyKeys \ {key[o]} : keys[k] \notin S => keys'[k] = keys[k]
  BY <1>1, <1>2 DEF OperationsInv, JobTypeOK, Forgetting
<1>5. /\ IsFiniteSet(operations \ S)
      /\ Cardinality(operations \ S) + 1 <= RetainedOperations
  <2>1. Cardinality(operations) \in Nat /\ Cardinality(operations) <= RetainedOperations
    BY FS_CardinalityType DEF OperationsInv, JobTypeOK, OperationsKept, RetainsRunning
  <2>2. CASE S = {}
    <3>1. operations \ S = operations
      BY <2>2
    <3> QED
      BY <3>1, <2>1, <2>2, <1>2, OperationsAssumption DEF OperationsInv, JobTypeOK
  <2>3. ASSUME NEW e \in completed, S = {e}
        PROVE  /\ IsFiniteSet(operations \ S)
               /\ Cardinality(operations \ S) + 1 <= RetainedOperations
    <3>1. e \in operations
      BY DEF OperationsInv, JobTypeOK
    <3>2. /\ IsFiniteSet(operations \ {e})
          /\ Cardinality(operations \ {e}) = Cardinality(operations) - 1
      BY <3>1, FS_RemoveElement DEF OperationsInv, JobTypeOK
    <3> QED
      BY <2>1, <2>3, <3>2, OperationsAssumption
  <2> QED
    BY <1>2, <2>2, <2>3
<1>6. /\ IsFiniteSet(operations')
      /\ Cardinality(operations') <= RetainedOperations
  <2>1. /\ IsFiniteSet((operations \ S) \cup {o})
        /\ Cardinality((operations \ S) \cup {o}) \in
             {Cardinality(operations \ S), Cardinality(operations \ S) + 1}
    BY <1>5, FS_AddElement
  <2>2. Cardinality(operations \ S) \in Nat
    BY <1>5, FS_CardinalityType
  <2> QED
    BY <1>2, <1>5, <2>1, <2>2, OperationsAssumption
<1>7. JobTypeOK'
  <2>1. at' \in [Actors -> Points]
    BY <1>3 DEF OperationsInv, JobTypeOK, Points
  <2> QED
    BY <2>1, <1>2, <1>3, <1>4, <1>6 DEF OperationsInv, JobTypeOK
<1>8. /\ \A p \in Ops : at'[p] # "none" => kind'[p] \in Kinds
      /\ \A p \in completed' : at'[p] = "done"
  BY <1>1, <1>2, <1>3, <1>4 DEF OperationsInv, JobTypeOK
<1>9. OperationsKept'
  <2>1. ASSUME NEW p \in Running' PROVE keys'[key'[p]] = p /\ p \in operations'
    <3>1. CASE p = o
      BY <3>1, <1>2, <1>3, <1>4
    <3>2. CASE p # o
      <4>1. p \in Running
        BY <3>2, <1>3 DEF Running, OperationsInv, JobTypeOK
      <4>2. keys[key[p]] = p /\ p \in operations /\ p \in Ops /\ key[p] \in IdempotencyKeys
        BY <4>1 DEF OperationsInv, OperationsKept, OneOperationPerKey, RetainsRunning, Running, Points
      <4>3. p \notin S
        BY <4>1, <1>4 DEF OperationsInv, Running
      <4>4. key[p] # key[o]
        BY <4>2, <1>1, OperationsAssumption
      <4> QED
        BY <4>2, <4>3, <4>4, <1>2, <1>3, <1>4
    <3> QED
      BY <3>1, <3>2
  <2> QED
    BY <2>1, <1>6 DEF OperationsKept, OneOperationPerKey, RetainsRunning
<1> QED
  BY <1>1, <1>3, <1>7, <1>8, <1>9 DEF OperationsInv, JobTypeOK

(* A completed operation is forgotten, or a job completes.                  *)
LEMMA ExpiresKeepsOperations ==
  ASSUME OperationsInv, NEW e \in Ops, Expires(e)
  PROVE  OperationsInv'
<1>1. /\ e \in completed /\ e \in operations /\ at[e] = "done"
      /\ operations' = operations \ {e} /\ completed' = completed \ {e}
      /\ keys' = Forgetting({e}) /\ at' = at /\ kind' = kind /\ key' = key
  BY DEF Expires, OperationsInv, JobTypeOK
<1>2. /\ IsFiniteSet(operations \ {e})
      /\ Cardinality(operations \ {e}) = Cardinality(operations) - 1
      /\ Cardinality(operations) \in Nat
  BY <1>1, FS_RemoveElement, FS_CardinalityType DEF OperationsInv, JobTypeOK
<1>3. JobTypeOK'
  BY <1>1, <1>2 DEF OperationsInv, JobTypeOK, Forgetting
<1>4. Running' = Running /\ e \notin Running
  BY <1>1 DEF Running
<1>5. ASSUME NEW p \in Running PROVE keys'[key[p]] = p /\ p \in operations'
  <2>1. keys[key[p]] = p /\ p \in operations /\ p # e /\ key[p] \in IdempotencyKeys
    BY <1>4 DEF OperationsInv, OperationsKept, OneOperationPerKey, RetainsRunning, Running, Points
  <2> QED
    BY <2>1, <1>1 DEF Forgetting
<1>6. Cardinality(operations') <= RetainedOperations
  BY <1>1, <1>2, OperationsAssumption DEF OperationsInv, OperationsKept, RetainsRunning
<1>7. OperationsKept'
  BY <1>1, <1>4, <1>5, <1>6 DEF OperationsKept, OneOperationPerKey, RetainsRunning
<1> QED
  BY <1>1, <1>3, <1>7 DEF OperationsInv

LEMMA CompletesKeepsOperations ==
  ASSUME OperationsInv, NEW o \in Ops, Completes(o)
  PROVE  OperationsInv'
<1>1. /\ at[o] = "unwinding" /\ at' = [at EXCEPT ![o] = "done"] /\ o \in Actors
      /\ completed' \subseteq completed \cup {o} /\ completed \subseteq completed'
      /\ completed' \subseteq operations
      /\ UNCHANGED <<kind, key, keys, operations>>
  BY ActorsAssumption DEF Completes, Moves, OperationsInv, JobTypeOK
<1>2. JobTypeOK'
  BY <1>1 DEF OperationsInv, JobTypeOK, Points
<1>3. Running' \subseteq Running
  BY <1>1 DEF Running, OperationsInv, JobTypeOK
<1>4. OperationsKept'
  BY <1>1, <1>3 DEF OperationsInv, OperationsKept, OneOperationPerKey, RetainsRunning
<1>5. /\ \A p \in Ops : at'[p] # "none" => kind'[p] \in Kinds
      /\ \A p \in completed' : at'[p] = "done"
  BY <1>1 DEF OperationsInv, JobTypeOK
<1> QED
  BY <1>1, <1>2, <1>4, <1>5 DEF OperationsInv

(* The steps of the jobs, of the leases and of the turns.                   *)
LEMMA JobsKeepOperations ==
  ASSUME OperationsInv, NEW o \in Ops, JobStep(o)
  PROVE  OperationsInv'
<1> USE ActorsAssumption DEF Moves, Onwards
<1> o \in Actors /\ at \in [Actors -> Points]
  BY DEF OperationsInv, JobTypeOK
<1>1. CASE Refused(o)
  BY <1>1, OthersKeepOperations DEF Refused, Points
<1>2. CASE Admit(o)
  BY <1>2, AdmitKeepsOperations
<1>3. CASE CommitSeeks(o)
  <2>1. at' = [at EXCEPT ![o] = "workspace"] /\ at[o] = "asking" /\ kind[o] = "commit"
    BY <1>3 DEF CommitSeeks, Starts
  <2> QED
    BY <2>1, <1>3, OthersKeepOperations DEF CommitSeeks, Points
<1>4. CASE ChecksThread(o) \/ SeeksProject(o)
  <2>1. /\ at[o] \in {"workspace", "starting"} /\ UNCHANGED jobVars
        /\ \E p \in {"unwinding", "writing", "project"} : at' = [at EXCEPT ![o] = p]
    BY <1>4 DEF ChecksThread, SeeksProject
  <2> QED
    BY <2>1, OthersKeepOperations DEF Points
<1>5. CASE SeeksNetwork(o) \/ Coalesces(o) \/ Rechecks(o)
  <2>1. /\ at[o] \in {"project", "rechecking"} /\ UNCHANGED jobVars
        /\ \E p \in {"network", "unwinding", "writing"} : at' = [at EXCEPT ![o] = p]
    BY <1>5 DEF SeeksNetwork, Coalesces, Rechecks
  <2> QED
    BY <2>1, OthersKeepOperations DEF Points
<1>6. CASE Finishes(o)
  <2>1. /\ at[o] \in {"starting", "rechecking", "writing", "workspace", "project"}
        /\ at' = [at EXCEPT ![o] = "unwinding"] /\ UNCHANGED jobVars
    BY <1>6 DEF Finishes, Keyed
  <2> QED
    BY <2>1, OthersKeepOperations DEF Points
<1>7. CASE Completes(o)
  BY <1>7, CompletesKeepsOperations
<1> QED
  BY <1>1, <1>2, <1>3, <1>4, <1>5, <1>6, <1>7 DEF JobStep

(* A step after which a job is where it was, or on its way out of a lease. *)
LEMMA WaitsKeepOperations ==
  ASSUME OperationsInv, NEW a \in Actors, UNCHANGED jobVars, at[a] \in Levels,
         NEW p \in {"fetched", "rechecking", "unwinding"}, at' = [at EXCEPT ![a] = p]
  PROVE  OperationsInv'
<1>1. at' \in [Actors -> Points]
  BY DEF OperationsInv, JobTypeOK, Points
<1>2. \A o \in Ops : Onwards(o)
  BY ActorsAssumption DEF OperationsInv, JobTypeOK, Onwards, Levels, Keyed
<1> QED
  BY <1>1, <1>2, OthersKeepOperations

LEMMA TurnsKeepOperations ==
  ASSUME OperationsInv, NEW t \in Turns, UNCHANGED jobVars,
         at' = at \/ \E p \in Points : at' = [at EXCEPT ![t] = p]
  PROVE  OperationsInv'
<1>1. at' \in [Actors -> Points] /\ \A o \in Ops : at'[o] = at[o]
  BY ActorsAssumption DEF OperationsInv, JobTypeOK
<1> QED
  BY <1>1, OthersKeepOperations DEF Onwards

LEMMA OperationsInvStep == OperationsInv /\ [Next]_vars => OperationsInv'
<1> SUFFICES ASSUME OperationsInv, [Next]_vars PROVE OperationsInv'
  OBVIOUS
<1>1. ASSUME NEW o \in Ops, JobStep(o) PROVE OperationsInv'
  BY <1>1, JobsKeepOperations
<1>2. ASSUME NEW o \in Ops, Expires(o) PROVE OperationsInv'
  BY <1>2, ExpiresKeepsOperations
<1>3. ASSUME NEW o \in Ops, NEW d \in Kinds, NEW c \in Conversations, NEW k \in IdempotencyKeys,
             Ask(o, d, c, k)
      PROVE OperationsInv'
  BY <1>3, AskKeepsOperations
<1>4. ASSUME NEW t \in Turns, TurnStep(t) PROVE OperationsInv'
  <2>1. UNCHANGED jobVars /\ \E p \in Points : at' = [at EXCEPT ![t] = p]
    BY <1>4 DEF TurnStep, TurnSeeks, TurnPasses, TurnPrepares, TurnFetches, TurnLaunches, TurnStops,
                TurnEnds, Moves, Points
  <2> QED
    BY <2>1, TurnsKeepOperations
<1>5. ASSUME NEW t \in Turns, \/ TurnClaimed(t) \/ TurnCancelled(t) \/ TurnAborts(t)
                              \/ \E c \in Conversations : TurnQueued(t, c)
      PROVE OperationsInv'
  <2>1. UNCHANGED jobVars /\ (at' = at \/ \E p \in Points : at' = [at EXCEPT ![t] = p])
    BY <1>5 DEF TurnClaimed, TurnCancelled, TurnAborts, TurnQueued, Moves, Points
  <2> QED
    BY <2>1, TurnsKeepOperations
<1>6. ASSUME NEW a \in Actors, TransferEnds(a) PROVE OperationsInv'
  <2>1. /\ at[a] \in Levels /\ UNCHANGED jobVars
        /\ \E p \in {"fetched", "rechecking", "unwinding"} : at' = [at EXCEPT ![a] = p]
    BY <1>6 DEF TransferEnds, Moves, Levels
  <2> QED
    BY <2>1, WaitsKeepOperations
<1>7. ASSUME NEW a \in Actors, WaitTimesOut(a) PROVE OperationsInv'
  <2>1. /\ at[a] \in Levels /\ UNCHANGED jobVars /\ at' = [at EXCEPT ![a] = "unwinding"]
    BY <1>7 DEF WaitTimesOut, Moves, Levels, Keyed
  <2> QED
    BY <2>1, WaitsKeepOperations
<1>8. CASE Close
  <2>1. /\ UNCHANGED jobVars
        /\ at' = [a \in Actors |-> IF a \in Waiting THEN "unwinding" ELSE at[a]]
        /\ \A o \in Waiting : at[o] \in Levels
    BY <1>8 DEF Close, Waiting
  <2>2. at' \in [Actors -> Points] /\ \A o \in Ops : Onwards(o)
    BY <2>1, ActorsAssumption DEF OperationsInv, JobTypeOK, Points, Onwards, Levels, Keyed
  <2> QED
    BY <2>1, <2>2, OthersKeepOperations
<1>9. CASE \/ \E a \in Actors : Unwinds(a)
           \/ \E p \in Keys : FetchAges(p)
           \/ UNCHANGED vars
  <2>1. UNCHANGED <<at, jobVars>>
    BY <1>9 DEF Unwinds, FetchAges, vars
  <2>2. at' \in [Actors -> Points] /\ \A o \in Ops : Onwards(o)
    BY <2>1 DEF OperationsInv, JobTypeOK, Onwards
  <2> QED
    BY <2>1, <2>2, OthersKeepOperations
<1> QED
  BY <1>1, <1>2, <1>3, <1>4, <1>5, <1>6, <1>7, <1>8, <1>9 DEF Next, LeaseStep

(* An idempotency key stands for one job at a time and the retained         *)
(* operations never outgrow their limit (git-sync-service.ts, admit).       *)
THEOREM OperationsStayKept == Spec => []OperationsKept
<1>1. OperationsInv => OperationsKept
  BY DEF OperationsInv
<1> QED
  BY <1>1, OperationsInvInit, OperationsInvStep, PTL DEF Spec

----------------------------------------------------------------------------
(* The leases.  Who has a gate is counted, and no room is left beside a     *)
(* line.                                                                   *)
Holders(g) == {a \in Actors : \E l \in has[a] : owned[a][l] = g}
SlotsCounted ==
  /\ \A g \in AllGates : /\ active[g] = Cardinality(Holders(g)) /\ active[g] <= Capacity(g)
                         /\ waiters[g] # {} => active[g] = Capacity(g)
  /\ \A a \in Actors : \A l \in has[a] : owned[a][l] # None

(* Who is in line waits for that gate at the level it has reached.         *)
InLine(a, g) == at[a] \in Levels /\ owned[a][at[a]] = g /\ at[a] \notin has[a]
Lines == \A g \in AllGates : \A a \in waiters[g] : InLine(a, g)

(* A line is a line.                                                       *)
Ordered ==
  \A g \in AllGates :
    /\ \A a \in waiters[g] : ahead[a] \subseteq waiters[g] \ {a}
    /\ \A a, b \in waiters[g] : a = b \/ a \in ahead[b] \/ b \in ahead[a]
    /\ \A a, b \in waiters[g] : a \in ahead[b] => ahead[a] \subseteq ahead[b]

(* A gate object belongs to one level and, while it is in the map, to one  *)
(* key.                                                                    *)
LevelsApart ==
  /\ \A a \in Actors : owned[a]["network"] \in {Network, None}
  /\ \A a \in Actors, l \in Keyed : owned[a][l] \in Gates \cup {None}
  /\ \A a, b \in Actors, l, m \in Keyed : owned[a][l] # None /\ owned[a][l] = owned[b][m] => l = m
  /\ \A a \in Actors, l, m \in Keyed, k \in Keys :
       owned[a][l] # None /\ owned[a][l] = gate[m][k] => l = m
  /\ \A l, m \in Keyed, j, k \in Keys :
       gate[l][j] # None /\ gate[l][j] = gate[m][k] => l = m /\ j = k

(* The map has the gate of everybody who has or waits for a lease, and no   *)
(* gate that nobody came for.                                              *)
LeaseKey(a, l) == IF l = "workspace" THEN GitLeaseKey(a) ELSE Project(a)
Uses(a, l) == l \in has[a] \/ a \in waiters[owned[a][l]]
Mapped ==
  /\ \A a \in Actors, l \in Keyed :
       owned[a][l] # None /\ Uses(a, l) =>
         LeaseKey(a, l) \in Keys /\ gate[l][LeaseKey(a, l)] = owned[a][l]
  /\ \A l \in Keyed, k \in Keys : gate[l][k] # None => \E a \in Actors : owned[a][l] = gate[l][k]

LeaseInv == LeaseTypeOK /\ SlotsCounted /\ Lines /\ Ordered /\ LevelsApart /\ Mapped

(* An object is owned at one level only.                                   *)
LEMMA OneLevel ==
  ASSUME LeaseTypeOK, LevelsApart, NEW a \in Actors, NEW b \in Actors,
         NEW l \in Levels, NEW m \in Levels, owned[a][l] # None, owned[a][l] = owned[b][m]
  PROVE  l = m
<1>1. l \in Keyed \/ l = "network"
  BY DEF Levels
<1>2. m \in Keyed \/ m = "network"
  BY DEF Levels
<1> QED
  BY <1>1, <1>2, GatesAssumption DEF LevelsApart

(* With an object for every actor at every keyed level, one is left over.   *)
LEMMA FreshExists ==
  ASSUME LeaseInv
  PROVE  Fresh # {}
<1> DEFINE OwnedAt(l) == {owned[a][l] : a \in Actors}
<1>1. ASSUME NEW l \in Levels
      PROVE  IsFiniteSet(OwnedAt(l)) /\ Cardinality(OwnedAt(l)) <= Cardinality(Actors)
  <2> DEFINE f == [a \in Actors |-> owned[a][l]]
  <2>1. f \in Surjection(Actors, OwnedAt(l))
    BY DEF Surjection
  <2> QED
    BY <2>1, FS_Surjection, GatesAssumption
<1> DEFINE W == OwnedAt("workspace")
           P == OwnedAt("project")
<1>2. /\ IsFiniteSet(W) /\ Cardinality(W) <= Cardinality(Actors)
      /\ IsFiniteSet(P) /\ Cardinality(P) <= Cardinality(Actors)
  BY <1>1 DEF Levels, Keyed
<1>3. \A g \in Gates \ Fresh : g \in W \cup P
  <2> SUFFICES ASSUME NEW g \in Gates, g \notin Fresh PROVE g \in W \cup P
    OBVIOUS
  <2>1. \/ \E l \in Keyed, k \in Keys : gate[l][k] = g
        \/ \E a \in Actors, l \in Levels : owned[a][l] = g
    BY DEF Fresh
  <2>2. g # None /\ g # Network
    BY GatesAssumption
  <2>3. \E a \in Actors, l \in Levels : owned[a][l] = g
    BY <2>1, <2>2 DEF LeaseInv, Mapped, Levels
  <2>4. \E a \in Actors, l \in Keyed : owned[a][l] = g
    BY <2>2, <2>3 DEF LeaseInv, LevelsApart, Levels
  <2> QED
    BY <2>4 DEF Keyed
<1> HIDE DEF W, P
<1>4. /\ IsFiniteSet(W \cup P)
      /\ Cardinality(W \cup P) <= Cardinality(W) + Cardinality(P)
  <2>1. /\ IsFiniteSet(W \cup P)
        /\ Cardinality(W \cup P) = Cardinality(W) + Cardinality(P) - Cardinality(W \cap P)
    BY <1>2, FS_Union
  <2>2. IsFiniteSet(W \cap P)
    BY <1>2, FS_Subset
  <2>3. /\ Cardinality(W \cap P) \in Nat /\ Cardinality(W) \in Nat /\ Cardinality(P) \in Nat
    BY <1>2, <2>2, FS_CardinalityType
  <2> QED
    BY <2>1, <2>3
<1>5. ASSUME Fresh = {} PROVE FALSE
  <2>1. Gates \subseteq W \cup P
    BY <1>3, <1>5
  <2>2. Cardinality(Gates) <= Cardinality(W \cup P)
    BY <2>1, <1>4, FS_Subset
  <2>3. /\ Cardinality(Gates) \in Nat /\ Cardinality(Actors) \in Nat
        /\ Cardinality(W) \in Nat /\ Cardinality(P) \in Nat /\ Cardinality(W \cup P) \in Nat
    BY <1>2, <1>4, GatesAssumption, FS_CardinalityType
  <2> QED
    BY <2>2, <2>3, <1>2, <1>4, GatesAssumption
<1> QED
  BY <1>5

(* A line that is not empty has exactly one first.                          *)
LEMMA FirstExists ==
  ASSUME LeaseTypeOK, Ordered, NEW g \in AllGates, waiters[g] # {}
  PROVE  \E a \in waiters[g] : First(g) = {a}
<1>1. waiters[g] \subseteq Actors /\ \A a \in waiters[g] : IsFiniteSet(ahead[a])
  <2>1. waiters[g] \subseteq Actors /\ \A a \in waiters[g] : ahead[a] \in SUBSET Actors
    BY DEF LeaseTypeOK
  <2> QED
    BY <2>1, FS_Subset, GatesAssumption
<1>2. \A a \in waiters[g] : Cardinality(ahead[a]) \in Nat
  BY <1>1, FS_CardinalityType
<1> DEFINE S == {n \in Nat : \E a \in waiters[g] : Cardinality(ahead[a]) = n}
<1>3. \E n \in S : \A m \in S : n <= m
  <2>1. S # {} /\ S \in SUBSET Nat
    BY <1>2
  <2> HIDE DEF S
  <2> QED
    BY <2>1, LeastNatural
<1>4. PICK a \in waiters[g] : \A b \in waiters[g] : Cardinality(ahead[a]) <= Cardinality(ahead[b])
  BY <1>2, <1>3
<1>5. ahead[a] = {}
  <2> SUFFICES ASSUME NEW b \in ahead[a] PROVE FALSE
    OBVIOUS
  <2>1. /\ b \in waiters[g] /\ ahead[b] \subseteq ahead[a] /\ b \notin ahead[b]
    BY DEF Ordered
  <2>2. /\ Cardinality(ahead[b]) <= Cardinality(ahead[a])
        /\ Cardinality(ahead[a]) = Cardinality(ahead[b]) => ahead[a] = ahead[b]
    BY <2>1, <1>1, FS_Subset
  <2>3. Cardinality(ahead[a]) = Cardinality(ahead[b])
    BY <2>1, <2>2, <1>2, <1>4
  <2> QED
    BY <2>1, <2>2, <2>3
<1>6. \A b \in waiters[g] : ahead[b] = {} => b = a
  BY <1>5 DEF Ordered
<1> QED
  BY <1>5, <1>6 DEF First

(* Those that have a gate are finitely many.                                *)
LEMMA HoldersFinite == \A g : IsFiniteSet(Holders(g)) /\ Cardinality(Holders(g)) \in Nat
<1> SUFFICES ASSUME NEW g PROVE IsFiniteSet(Holders(g)) /\ Cardinality(Holders(g)) \in Nat
  OBVIOUS
<1>1. Holders(g) \in SUBSET Actors
  BY DEF Holders
<1> QED
  BY <1>1, FS_Subset, FS_CardinalityType, GatesAssumption

(* The shapes of the steps.  An actor outside every line does something     *)
(* that is no business of the leases; its key changes only when it has none.*)
Outside(a) == \A g \in AllGates : a \notin waiters[g]
Typed == /\ LeaseTypeOK /\ at \in [Actors -> Points]
         /\ conv \in [Actors -> Conversations \cup {None}] /\ kind \in [Ops -> Kinds \cup {None}]
SameKey(a) == conv'[a] = conv[a] /\ (a \in Ops => kind'[a] = kind[a])

LEMMA SameLeaseKey ==
  ASSUME NEW a \in Actors, SameKey(a), NEW l
  PROVE  LeaseKey(a, l)' = LeaseKey(a, l)
BY DEF LeaseKey, GitLeaseKey, Project, SameKey

LEMMA QuietKeepsLeases ==
  ASSUME LeaseInv, UNCHANGED leaseVars,
         \A a \in Actors : /\ at'[a] = at[a] \/ Outside(a)
                           /\ SameKey(a) \/ \A l \in Levels : owned[a][l] = None
  PROVE  LeaseInv'
<1>1. UNCHANGED <<gate, active, waiters, ahead, owned, has>>
  BY DEF leaseVars
<1>2. LeaseTypeOK' /\ Ordered' /\ LevelsApart'
  BY <1>1 DEF LeaseInv, LeaseTypeOK, Ordered, LevelsApart
<1>3. SlotsCounted'
  BY <1>1 DEF LeaseInv, SlotsCounted, Holders
<1>4. Lines'
  <2> SUFFICES ASSUME NEW g \in AllGates, NEW a \in waiters[g] PROVE InLine(a, g)'
    BY <1>1 DEF Lines
  <2>1. a \in Actors /\ InLine(a, g)
    BY DEF LeaseInv, LeaseTypeOK, Lines
  <2> QED
    BY <1>1, <2>1 DEF InLine, Outside
<1>5. Mapped'
  <2>1. ASSUME NEW a \in Actors, NEW l \in Keyed, owned[a][l] # None, Uses(a, l)
        PROVE  LeaseKey(a, l)' \in Keys /\ gate[l][LeaseKey(a, l)'] = owned[a][l]
    <3>1. SameKey(a)
      BY <2>1 DEF Levels
    <3> QED
      BY <2>1, <3>1, SameLeaseKey DEF LeaseInv, Mapped
  <2>2. \A a \in Actors, l \in Keyed : Uses(a, l)' <=> Uses(a, l)
    BY <1>1 DEF Uses
  <2> QED
    BY <1>1, <2>1, <2>2 DEF LeaseInv, Mapped
<1> QED
  BY <1>2, <1>3, <1>4, <1>5 DEF LeaseInv

(* Some leave their line, and go anywhere.                                  *)
LEMMA CancelKeepsLeases ==
  ASSUME Typed, LeaseInv, NEW S, Cancel(S), UNCHANGED <<conv, kind>>,
         \A a \in Actors : at'[a] = at[a] \/ a \in S
  PROVE  LeaseInv'
<1>1. /\ UNCHANGED <<gate, active, owned, has>>
      /\ waiters' = [g \in AllGates |-> waiters[g] \ S]
      /\ ahead' = [a \in Actors |-> IF a \in S THEN {} ELSE ahead[a] \ S]
  BY DEF Cancel, Dequeue
<1>2. LeaseTypeOK'
  BY <1>1 DEF LeaseInv, LeaseTypeOK
<1>3. LevelsApart'
  BY <1>1 DEF LeaseInv, LevelsApart
<1>4. SlotsCounted'
  BY <1>1 DEF LeaseInv, SlotsCounted, Holders
<1>5. Lines'
  <2> SUFFICES ASSUME NEW g \in AllGates, NEW a \in waiters[g], a \notin S PROVE InLine(a, g)'
    BY <1>1 DEF Lines
  <2>1. a \in Actors /\ InLine(a, g) /\ at'[a] = at[a]
    BY DEF LeaseInv, LeaseTypeOK, Lines
  <2> QED
    BY <1>1, <2>1 DEF InLine
<1>6. Ordered'
  <2>1. \A g \in AllGates : waiters[g] \subseteq Actors
    BY DEF LeaseInv, LeaseTypeOK
  <2> QED
    BY <1>1, <2>1 DEF LeaseInv, Ordered
<1>7. Mapped'
  <2>1. \A a \in Actors, l \in Keyed : owned[a][l] # None /\ Uses(a, l)' => Uses(a, l)
    <3> SUFFICES ASSUME NEW a \in Actors, NEW l \in Keyed, owned[a][l] # None, Uses(a, l)'
                 PROVE  Uses(a, l)
      OBVIOUS
    <3>1. owned[a][l] \in AllGates
      BY DEF LeaseInv, LevelsApart, AllGates
    <3> QED
      BY <1>1, <3>1 DEF Uses
  <2>2. \A a \in Actors, l \in Keyed : LeaseKey(a, l)' = LeaseKey(a, l)
    BY SameLeaseKey DEF SameKey
  <2> QED
    BY <1>1, <2>1, <2>2 DEF LeaseInv, Mapped
<1> QED
  BY <1>2, <1>3, <1>4, <1>5, <1>6, <1>7 DEF LeaseInv

(* An actor in no line acquires a gate of the level it goes to: it gets     *)
(* room, or it is the last in line.                                         *)
OnlyAt(l, g) == \A b \in Actors, m \in Levels : owned[b][m] = g => m = l
Acquired(a, l, g) ==
  /\ SlotsCounted' /\ Lines' /\ Ordered'
  /\ active' \in [AllGates -> Nat]
  /\ waiters' \in [AllGates -> SUBSET Actors] /\ ahead' \in [Actors -> SUBSET Actors]
  /\ owned' \in [Actors -> [Levels -> AllGates \cup {None}]]
  /\ has' \in [Actors -> SUBSET Levels]
  /\ has'[a] \subseteq has[a] \cup {l} /\ \A b \in Actors \ {a} : has'[b] = has[b]
  /\ \A h \in AllGates : h # g => waiters'[h] = waiters[h]
  /\ waiters'[g] \subseteq waiters[g] \cup {a}
LEMMA AcquireKeeps ==
  ASSUME Typed, LeaseInv, NEW a \in Actors, NEW l \in Levels, NEW g \in AllGates,
         Acquire(a, l, g), at' = [at EXCEPT ![a] = l], owned[a][l] = None, Outside(a), OnlyAt(l, g)
  PROVE  Acquired(a, l, g)
<1> USE DEF LeaseInv, LeaseTypeOK, OnlyAt
<1>1. /\ owned' = [owned EXCEPT ![a][l] = g] /\ l \notin has[a] /\ g # None
      /\ g \in AllGates /\ active[g] \in Nat /\ Capacity(g) \in Nat
  BY GatesAssumption, NetworkAssumption DEF Acquire, SlotsCounted, AllGates, Capacity
<1>2. a \notin Holders(g)
  BY <1>1 DEF Holders
<1>4. CASE /\ active[g] < Capacity(g) /\ active' = [active EXCEPT ![g] = @ + 1]
           /\ has' = [has EXCEPT ![a] = @ \cup {l}] /\ UNCHANGED <<waiters, ahead>>
  <2>1. Holders(g)' = Holders(g) \cup {a}
    BY <1>1, <1>4 DEF Holders
  <2>2. active'[g] = Cardinality(Holders(g)')
    <3>1. Cardinality(Holders(g) \cup {a}) = Cardinality(Holders(g)) + 1
      BY <1>2, HoldersFinite, FS_AddElement
    <3> QED
      BY <1>4, <2>1, <3>1 DEF SlotsCounted
  <2>3. \A h \in AllGates : h # g => Holders(h)' = Holders(h)
    BY <1>1, <1>4 DEF Holders
  <2>4. waiters[g] = {} /\ active'[g] = active[g] + 1
    BY <1>1, <1>4 DEF SlotsCounted
  <2>5. \A h \in AllGates : /\ active'[h] = Cardinality(Holders(h)') /\ active'[h] <= Capacity(h)
                            /\ waiters'[h] # {} => active'[h] = Capacity(h)
    <3> SUFFICES ASSUME NEW h \in AllGates
                 PROVE  /\ active'[h] = Cardinality(Holders(h)') /\ active'[h] <= Capacity(h)
                        /\ waiters'[h] # {} => active'[h] = Capacity(h)
      OBVIOUS
    <3>1. CASE h = g
      BY <3>1, <2>2, <2>4, <1>1, <1>4
    <3>2. CASE h # g
      BY <3>2, <2>3, <1>4 DEF SlotsCounted
    <3> QED
      BY <3>1, <3>2
  <2>6. \A b \in Actors : \A m \in has'[b] : owned'[b][m] # None
    BY <1>1, <1>4 DEF SlotsCounted
  <2>7. SlotsCounted'
    BY <2>5, <2>6 DEF SlotsCounted, AllGates, Capacity
  <2>8. Ordered'
    BY <1>4 DEF Ordered
  <2>9. Lines'
    <3> SUFFICES ASSUME NEW h \in AllGates, NEW b \in waiters[h] PROVE InLine(b, h)'
      BY <1>4 DEF Lines
    <3>1. b \in Actors /\ b # a /\ InLine(b, h)
      BY DEF Lines, Outside
    <3> QED
      BY <3>1, <1>1, <1>4 DEF InLine, Typed
  <2> QED
    BY <2>7, <2>8, <2>9, <1>1, <1>4 DEF Acquired
<1>5. CASE active[g] >= Capacity(g) /\ Queue(a, g) /\ UNCHANGED <<active, has>>
  <2>1. /\ waiters' = [waiters EXCEPT ![g] = @ \cup {a}]
        /\ ahead' = [ahead EXCEPT ![a] = waiters[g]]
    BY <1>5 DEF Queue
  <2>2. \A h \in AllGates : Holders(h)' = Holders(h)
    BY <1>1, <1>5 DEF Holders
  <2>3. active[g] = Capacity(g)
    <3>1. active[g] <= Capacity(g)
      BY <1>1 DEF SlotsCounted
    <3>2. active[g] >= Capacity(g)
      BY <1>5
    <3>3. active[g] \in Nat /\ Capacity(g) \in Nat
      BY <1>1
    <3> HIDE DEF LeaseInv, LeaseTypeOK, OnlyAt
    <3> QED
      BY <3>1, <3>2, <3>3
  <2>4. SlotsCounted'
    <3>1. \A h \in AllGates : /\ active'[h] = Cardinality(Holders(h)') /\ active'[h] <= Capacity(h)
                              /\ waiters'[h] # {} => active'[h] = Capacity(h)
      BY <1>5, <2>1, <2>2, <2>3 DEF SlotsCounted
    <3>2. \A b \in Actors : \A m \in has'[b] : owned'[b][m] # None
      BY <1>1, <1>5 DEF SlotsCounted
    <3> QED
      BY <3>1, <3>2 DEF SlotsCounted, AllGates, Capacity
  <2>5. Lines'
    <3> SUFFICES ASSUME NEW h \in AllGates, NEW b \in waiters'[h] PROVE InLine(b, h)'
      BY DEF Lines, AllGates
    <3>1. CASE b = a
      <4>1. h = g
        BY <3>1, <2>1 DEF Outside
      <4> QED
        BY <3>1, <4>1, <1>1, <1>5 DEF InLine, Typed
    <3>2. CASE b # a
      <4>1. b \in waiters[h] /\ b \in Actors /\ InLine(b, h)
        BY <3>2, <2>1 DEF Lines
      <4> QED
        BY <3>2, <4>1, <1>1, <1>5 DEF InLine, Typed
    <3> QED
      BY <3>1, <3>2
  <2>6. Ordered'
    <3> SUFFICES ASSUME NEW h \in AllGates
                 PROVE /\ \A b \in waiters'[h] : ahead'[b] \subseteq waiters'[h] \ {b}
                       /\ \A b, c \in waiters'[h] : b = c \/ b \in ahead'[c] \/ c \in ahead'[b]
                       /\ \A b, c \in waiters'[h] : b \in ahead'[c] => ahead'[b] \subseteq ahead'[c]
      BY DEF Ordered, AllGates
    <3>1. /\ \A b \in waiters[h] : b # a /\ ahead'[b] = ahead[b] /\ b \in Actors
          /\ ahead'[a] = waiters[g]
      BY <2>1 DEF Outside
    <3>2. /\ \A b \in waiters[h] : ahead[b] \subseteq waiters[h] \ {b}
          /\ \A b, c \in waiters[h] : b = c \/ b \in ahead[c] \/ c \in ahead[b]
          /\ \A b, c \in waiters[h] : b \in ahead[c] => ahead[b] \subseteq ahead[c]
      BY DEF Ordered
    <3>3. CASE h = g
      <4>1. waiters'[h] = waiters[h] \cup {a} /\ ahead'[a] = waiters[h] /\ a \notin waiters[h]
        BY <3>1, <3>3, <2>1
      <4> QED
        BY <4>1, <3>1, <3>2
    <3>4. CASE h # g
      <4>1. waiters'[h] = waiters[h]
        BY <3>4, <2>1
      <4> QED
        BY <4>1, <3>1, <3>2
    <3> QED
      BY <3>3, <3>4
  <2> QED
    BY <2>1, <2>4, <2>5, <2>6, <1>1, <1>5 DEF Acquired
<1> QED
  BY <1>4, <1>5 DEF Acquire

(* The gate of its key, found in the map or new, and the network.          *)
Entered(a, l) ==
  /\ owned'[a][l] # None
  /\ \A b \in Actors, m \in Levels : ~(b = a /\ m = l) => owned'[b][m] = owned[b][m]
  /\ \A b \in Actors : has[b] \subseteq has'[b]
LEMMA RunKeepsLeases ==
  ASSUME Typed, LeaseInv, NEW a \in Actors, NEW l \in Keyed, Run(a, l, LeaseKey(a, l)),
         LeaseKey(a, l) \in Keys, at' = [at EXCEPT ![a] = l], owned[a][l] = None, Outside(a),
         UNCHANGED <<conv, kind>>
  PROVE  LeaseInv' /\ Entered(a, l)
<1> DEFINE K == LeaseKey(a, l)
<1> DEFINE g == IF gate[l][K] # None THEN gate[l][K] ELSE CHOOSE f \in Fresh : TRUE
<1>1. gate' = [gate EXCEPT ![l][K] = g] /\ Acquire(a, l, g)
  BY DEF Run
<1>2. (CHOOSE f \in Fresh : TRUE) \in Fresh
  BY FreshExists
<1>3. /\ g \in Gates /\ g # None /\ g # Network
      /\ \A m \in Keyed, k \in Keys : gate[m][k] = g => m = l /\ k = K
      /\ \A b \in Actors, m \in Keyed : owned[b][m] = g => m = l
      /\ gate[l][K] # None => gate[l][K] = g
  <2>1. CASE gate[l][K] # None
    <3>1. g = gate[l][K] /\ g \in Gates /\ g # None /\ g # Network
      BY <2>1, GatesAssumption DEF LeaseInv, LeaseTypeOK
    <3> HIDE DEF g, K
    <3>2. \A m \in Keyed, k \in Keys : gate[m][k] = g => m = l /\ k = K
      BY <3>1 DEF LeaseInv, LevelsApart, K
    <3>3. \A b \in Actors, m \in Keyed : owned[b][m] = g => m = l
      BY <3>1 DEF LeaseInv, LevelsApart, K
    <3> QED
      BY <3>1, <3>2, <3>3
  <2>2. CASE gate[l][K] = None
    <3>1. g \in Fresh
      BY <2>2, <1>2
    <3> HIDE DEF g
    <3> QED
      BY <2>2, <3>1, GatesAssumption DEF Fresh, Levels
  <2> QED
    BY <2>1, <2>2
<1> HIDE DEF g
<1>4. OnlyAt(l, g)
  BY <1>3 DEF LeaseInv, LevelsApart, Levels, OnlyAt
<1>5. l \in Levels /\ g \in AllGates
  BY <1>3 DEF Levels, AllGates
<1>6. Acquired(a, l, g)
  BY <1>1, <1>4, <1>5, AcquireKeeps
<1>7. /\ owned' = [owned EXCEPT ![a][l] = g]
      /\ gate' \in [Keyed -> [Keys -> Gates \cup {None}]] /\ gate'[l][K] = g
      /\ \A m \in Keyed, k \in Keys : gate'[m][k] = IF m = l /\ k = K THEN g ELSE gate[m][k]
  BY <1>1, <1>3 DEF LeaseInv, LeaseTypeOK, Acquire
<1> HIDE DEF K
<1>8. \A b \in Actors, m \in Levels : owned'[b][m] = IF b = a /\ m = l THEN g ELSE owned[b][m]
  BY <1>7 DEF LeaseInv, LeaseTypeOK
<1>9. LeaseTypeOK'
  BY <1>6, <1>7 DEF Acquired, LeaseTypeOK, AllGates
<1>10. LevelsApart'
  <2>1. /\ \A b \in Actors : owned'[b]["network"] \in {Network, None}
        /\ \A b \in Actors, m \in Keyed : owned'[b][m] \in Gates \cup {None}
    BY <1>3, <1>8 DEF LeaseInv, LevelsApart, Levels, Keyed
  <2>2. \A b, c \in Actors, m, n \in Keyed : owned'[b][m] # None /\ owned'[b][m] = owned'[c][n] => m = n
    BY <1>3, <1>8 DEF LeaseInv, LevelsApart, Levels
  <2>3. \A b \in Actors, m, n \in Keyed, k \in Keys :
          owned'[b][m] # None /\ owned'[b][m] = gate'[n][k] => m = n
    BY <1>3, <1>7, <1>8 DEF LeaseInv, LevelsApart, Levels
  <2>4. \A m, n \in Keyed, j, k \in Keys :
          gate'[m][j] # None /\ gate'[m][j] = gate'[n][k] => m = n /\ j = k
    BY <1>3, <1>7 DEF LeaseInv, LevelsApart
  <2> QED
    BY <2>1, <2>2, <2>3, <2>4 DEF LevelsApart
<1>11. \A b \in Actors, m \in Keyed : LeaseKey(b, m)' = LeaseKey(b, m)
  BY SameLeaseKey DEF SameKey
<1>12. ASSUME NEW b \in Actors, NEW m \in Keyed, owned'[b][m] # None, Uses(b, m)'
       PROVE  LeaseKey(b, m) \in Keys /\ gate'[m][LeaseKey(b, m)] = owned'[b][m]
  <2>1. CASE b = a /\ m = l
    BY <2>1, <1>5, <1>7, <1>8 DEF K
  <2>2. CASE ~(b = a /\ m = l)
    <3>1. owned'[b][m] = owned[b][m] /\ owned[b][m] \in AllGates /\ owned[b][m] # None
      BY <2>2, <1>8, <1>12 DEF LeaseInv, LevelsApart, AllGates, Levels
    <3>2. Uses(b, m)
      <4>1. CASE m \in has'[b]
        BY <4>1, <2>2, <1>6 DEF Acquired, Uses
      <4>2. CASE b \in waiters'[owned[b][m]]
        <5>1. owned[b][m] = g => m = l
          BY <1>3
        <5> QED
          BY <5>1, <4>2, <3>1, <2>2, <1>6 DEF Acquired, Uses
      <4> QED
        BY <4>1, <4>2, <1>12, <3>1 DEF Uses
    <3>3. LeaseKey(b, m) \in Keys /\ gate[m][LeaseKey(b, m)] = owned[b][m]
      BY <3>1, <3>2 DEF LeaseInv, Mapped
    <3>4. CASE m = l /\ LeaseKey(b, m) = K
      BY <3>1, <3>3, <3>4, <1>3, <1>7
    <3>5. CASE ~(m = l /\ LeaseKey(b, m) = K)
      BY <3>1, <3>3, <3>5, <1>1 DEF LeaseInv, LeaseTypeOK
    <3> QED
      BY <3>4, <3>5
  <2> QED
    BY <2>1, <2>2
<1>13. ASSUME NEW m \in Keyed, NEW k \in Keys, gate'[m][k] # None
       PROVE  \E b \in Actors : owned'[b][m] = gate'[m][k]
  <2>1. CASE m = l /\ k = K
    BY <2>1, <1>5, <1>7, <1>8
  <2>2. CASE ~(m = l /\ k = K)
    <3>1. gate'[m][k] = gate[m][k]
      BY <2>2, <1>7
    <3>2. PICK b \in Actors : owned[b][m] = gate[m][k]
      BY <3>1, <1>13 DEF LeaseInv, Mapped
    <3> QED
      BY <3>1, <3>2, <1>8, <1>13 DEF Levels
  <2> QED
    BY <2>1, <2>2
<1>14. Mapped'
  BY <1>11, <1>12, <1>13 DEF Mapped
<1>15. \A b \in Actors : has[b] \subseteq has'[b]
  BY <1>1 DEF Acquire, LeaseInv, LeaseTypeOK
<1>16. Entered(a, l)
  BY <1>3, <1>5, <1>8, <1>15 DEF Entered
<1> QED
  BY <1>6, <1>9, <1>10, <1>14, <1>16 DEF Acquired, LeaseInv

LEMMA NetworkKeepsLeases ==
  ASSUME Typed, LeaseInv, NEW a \in Actors, AcquireNetwork(a), at' = [at EXCEPT ![a] = "network"],
         owned[a]["network"] = None, Outside(a), UNCHANGED <<conv, kind>>
  PROVE  LeaseInv' /\ Entered(a, "network")
<1>1. Acquire(a, "network", Network) /\ gate' = gate
  BY DEF AcquireNetwork
<1>2. OnlyAt("network", Network)
  BY GatesAssumption DEF LeaseInv, LevelsApart, Levels, OnlyAt
<1>3. "network" \in Levels /\ Network \in AllGates
  BY DEF Levels, AllGates
<1>4. Acquired(a, "network", Network)
  BY <1>1, <1>2, <1>3, AcquireKeeps
<1>5. /\ owned'[a]["network"] = Network
      /\ \A b \in Actors, m \in Keyed : owned'[b][m] = owned[b][m]
      /\ \A b \in Actors \ {a} : owned'[b] = owned[b]
  BY <1>1, <1>3 DEF Acquire, LeaseInv, LeaseTypeOK, Levels, Keyed
<1>6. LeaseTypeOK'
  BY <1>1, <1>4 DEF Acquired, LeaseInv, LeaseTypeOK, AllGates
<1>7. LevelsApart'
  BY <1>1, <1>5 DEF LeaseInv, LevelsApart
<1>8. ASSUME NEW b \in Actors, NEW m \in Keyed, owned[b][m] # None, Uses(b, m)' PROVE Uses(b, m)
  <2>1. m # "network" /\ owned[b][m] \in Gates
    BY <1>8 DEF Keyed, LeaseInv, LevelsApart
  <2>2. owned[b][m] \in AllGates /\ owned[b][m] # Network
    BY <2>1, GatesAssumption DEF AllGates
  <2> QED
    BY <1>4, <1>5, <1>8, <2>1, <2>2 DEF Acquired, Uses
<1>9. \A b \in Actors, m \in Keyed : LeaseKey(b, m)' = LeaseKey(b, m)
  BY SameLeaseKey DEF SameKey
<1>10. Mapped'
  BY <1>1, <1>5, <1>8, <1>9 DEF LeaseInv, Mapped
<1>11. \A b \in Actors : has[b] \subseteq has'[b]
  BY <1>1 DEF Acquire, LeaseInv, LeaseTypeOK
<1>12. Entered(a, "network")
  BY <1>5, <1>11, GatesAssumption DEF Entered, Levels
<1> QED
  BY <1>4, <1>6, <1>7, <1>10, <1>12 DEF Acquired, LeaseInv

(* An actor gives up what it owns at a level: a lease it has goes to the    *)
(* first in line, who waits for it at that level.                           *)
LEMMA GrantedInLine ==
  ASSUME Typed, LeaseInv, NEW a \in Actors, NEW l \in Levels, owned[a][l] # None, Outside(a),
         NEW b \in waiters[owned[a][l]]
  PROVE  b \in Actors /\ b # a /\ owned[b][l] = owned[a][l] /\ l \notin has[b] /\ at[b] = l
<1>1. owned[a][l] \in AllGates
  BY DEF LeaseInv, LeaseTypeOK
<1>2. b \in Actors /\ b # a /\ InLine(b, owned[a][l])
  BY <1>1 DEF LeaseInv, LeaseTypeOK, Lines, Outside
<1>3. at[b] = l
  BY <1>2, OneLevel DEF LeaseInv, InLine
<1> QED
  BY <1>2, <1>3 DEF InLine

LEMMA GrantedCases ==
  ASSUME Typed, LeaseInv, NEW a \in Actors, NEW l \in Levels, owned[a][l] # None
  PROVE  \/ l \notin has[a] /\ Granted(a, l) = {} /\ Freed(a, l) = 0
         \/ /\ l \in has[a] /\ waiters[owned[a][l]] = {}
            /\ Granted(a, l) = {} /\ Freed(a, l) = 1
         \/ /\ l \in has[a] /\ Freed(a, l) = 0
            /\ \E b \in waiters[owned[a][l]] : Granted(a, l) = {b}
<1>1. owned[a][l] \in AllGates
  BY DEF LeaseInv, LeaseTypeOK
<1>2. CASE l \notin has[a]
  BY <1>2 DEF Granted, Freed
<1>3. CASE l \in has[a] /\ waiters[owned[a][l]] = {}
  BY <1>3 DEF Granted, Freed, First
<1>4. CASE l \in has[a] /\ waiters[owned[a][l]] # {}
  <2>1. PICK b \in waiters[owned[a][l]] : First(owned[a][l]) = {b}
    BY <1>1, <1>4, FirstExists DEF LeaseInv
  <2>2. Granted(a, l) = {b} /\ Granted(a, l) # {}
    BY <2>1, <1>4 DEF Granted
  <2> QED
    BY <2>2, <1>4 DEF Freed
<1> QED
  BY <1>2, <1>3, <1>4

(* What is left of the leases of an actor, and what the others have.        *)
GivenBack(a, l) ==
  /\ \A b \in Actors, m \in Levels :
        owned'[b][m] = IF b = a /\ m = l THEN None ELSE owned[b][m]
  /\ has'[a] = has[a] \ {l}
  /\ \A b \in Actors \ {a} : b \in Granted(a, l) => has'[b] = has[b] \cup {l}
  /\ \A b \in Actors \ {a} : b \notin Granted(a, l) => has'[b] = has[b]
  /\ \A g \in AllGates : waiters'[g] = waiters[g] \ Granted(a, l)
  /\ \A b \in Actors : ahead'[b] = IF b \in Granted(a, l) THEN {} ELSE ahead[b] \ Granted(a, l)
  /\ \A g \in AllGates : active'[g] = IF g = owned[a][l] THEN active[g] - Freed(a, l) ELSE active[g]
  /\ owned' \in [Actors -> [Levels -> AllGates \cup {None}]]
  /\ has' \in [Actors -> SUBSET Levels]
  /\ waiters' \in [AllGates -> SUBSET Actors] /\ ahead' \in [Actors -> SUBSET Actors]
LEMMA GivesBackKeeps ==
  ASSUME Typed, LeaseInv, NEW a \in Actors, NEW l \in Levels, GivesBack(a, l)
  PROVE  GivenBack(a, l)
<1>1. /\ \A b \in Actors, m \in Levels :
           owned'[b][m] = IF b = a /\ m = l THEN None ELSE owned[b][m]
      /\ owned' \in [Actors -> [Levels -> AllGates \cup {None}]]
  BY DEF GivesBack, LeaseInv, LeaseTypeOK
<1>2. /\ has'[a] = has[a] \ {l}
      /\ \A b \in Actors \ {a} : b \in Granted(a, l) => has'[b] = has[b] \cup {l}
      /\ \A b \in Actors \ {a} : b \notin Granted(a, l) => has'[b] = has[b]
      /\ has' \in [Actors -> SUBSET Levels]
  BY DEF GivesBack, LeaseInv, LeaseTypeOK
<1>3. /\ \A g \in AllGates : waiters'[g] = waiters[g] \ Granted(a, l)
      /\ \A b \in Actors : ahead'[b] = IF b \in Granted(a, l) THEN {} ELSE ahead[b] \ Granted(a, l)
      /\ waiters' \in [AllGates -> SUBSET Actors] /\ ahead' \in [Actors -> SUBSET Actors]
  BY DEF GivesBack, Dequeue, LeaseInv, LeaseTypeOK
<1>4. \A g \in AllGates : active'[g] = IF g = owned[a][l] THEN active[g] - Freed(a, l) ELSE active[g]
  BY DEF GivesBack, LeaseInv, LeaseTypeOK
<1> QED
  BY <1>1, <1>2, <1>3, <1>4 DEF GivenBack

(* The gate counts its holders again, whoever got the lease.                *)
NextHolders(g) == {b \in Actors : \E m \in has'[b] : owned'[b][m] = g}
LEMMA GivesBackCounts ==
  ASSUME Typed, LeaseInv, NEW a \in Actors, NEW l \in Levels, owned[a][l] # None, Outside(a),
         GivesBack(a, l)
  PROVE  SlotsCounted' /\ \A h \in AllGates : active'[h] \in Nat
<1> DEFINE g == owned[a][l]
<1>1. g \in AllGates /\ g # None /\ \A h \in AllGates : h # None
  BY GatesAssumption DEF LeaseInv, LeaseTypeOK, AllGates
<1>2. /\ \A b \in Actors, m \in Levels :
           owned'[b][m] = IF b = a /\ m = l THEN None ELSE owned[b][m]
      /\ has'[a] = has[a] \ {l}
      /\ \A b \in Actors \ {a} : b \in Granted(a, l) => has'[b] = has[b] \cup {l}
      /\ \A b \in Actors \ {a} : b \notin Granted(a, l) => has'[b] = has[b]
      /\ \A h \in AllGates : waiters'[h] = waiters[h] \ Granted(a, l)
      /\ \A h \in AllGates : active'[h] = IF h = g THEN active[h] - Freed(a, l) ELSE active[h]
      /\ has' \in [Actors -> SUBSET Levels]
  BY GivesBackKeeps DEF GivenBack
<1>3. \A b \in Granted(a, l) : b \in Actors /\ b # a /\ owned[b][l] = g /\ l \notin has[b]
  BY GrantedInLine DEF Granted, First
<1>4. \A b \in Actors, m \in Levels : owned[b][m] = g => m = l
  BY OneLevel DEF LeaseInv
<1>5. \A b \in Actors : has[b] \subseteq Levels
  BY DEF LeaseInv, LeaseTypeOK
<1>6. NextHolders(g) = (Holders(g) \ {a}) \cup Granted(a, l)
  <2> HIDE DEF g
  <2>1. a \notin NextHolders(g)
    BY <1>1, <1>2, <1>4, <1>5 DEF Holders, NextHolders
  <2>2. \A b \in Granted(a, l) : b \in NextHolders(g)
    BY <1>2, <1>3 DEF Holders, NextHolders
  <2>3. ASSUME NEW b \in Actors \ {a}, b \notin Granted(a, l)
        PROVE  b \in NextHolders(g) <=> b \in Holders(g)
    BY <2>3, <1>2, <1>5 DEF Holders, NextHolders
  <2>4. Holders(g) \subseteq Actors /\ NextHolders(g) \subseteq Actors
    BY DEF Holders, NextHolders
  <2> QED
    BY <1>3, <2>1, <2>2, <2>3, <2>4
<1>7. ASSUME NEW h \in AllGates, h # g PROVE NextHolders(h) = Holders(h)
  <2> HIDE DEF g
  <2>1. a \in NextHolders(h) <=> a \in Holders(h)
    <3>1. owned[a][l] # h
      BY <1>7 DEF g
    <3> QED
      BY <3>1, <1>1, <1>2, <1>5 DEF Holders, NextHolders
  <2>2. ASSUME NEW b \in Granted(a, l) PROVE b \in NextHolders(h) <=> b \in Holders(h)
    BY <2>2, <1>2, <1>3, <1>5, <1>7 DEF Holders, NextHolders
  <2>3. ASSUME NEW b \in Actors \ {a}, b \notin Granted(a, l)
        PROVE  b \in NextHolders(h) <=> b \in Holders(h)
    BY <2>3, <1>2, <1>5 DEF Holders, NextHolders
  <2>4. Holders(h) \subseteq Actors /\ NextHolders(h) \subseteq Actors
    BY DEF Holders, NextHolders
  <2>5. \A b \in Actors : b \in NextHolders(h) <=> b \in Holders(h)
    BY <2>1, <2>2, <2>3
  <2> QED
    BY <2>4, <2>5
<1>8. (a \in Holders(g) <=> l \in has[a]) /\ \A b \in Granted(a, l) : b \notin Holders(g)
  BY <1>3, <1>4, <1>5 DEF Holders, NextHolders
<1>9. IsFiniteSet(Holders(g)) /\ Cardinality(Holders(g)) \in Nat /\ active[g] = Cardinality(Holders(g))
  BY <1>1, HoldersFinite DEF LeaseInv, SlotsCounted
<1>10. /\ Cardinality(NextHolders(g)) = active[g] - Freed(a, l)
       /\ Freed(a, l) = 0 \/ waiters[g] = {}
  <2>1. CASE l \notin has[a] /\ Granted(a, l) = {} /\ Freed(a, l) = 0
    <3>1. NextHolders(g) = Holders(g)
      BY <2>1, <1>6, <1>8
    <3> QED
      BY <3>1, <2>1, <1>9
  <2>2. CASE l \in has[a] /\ waiters[g] = {} /\ Granted(a, l) = {} /\ Freed(a, l) = 1
    <3>1. NextHolders(g) = Holders(g) \ {a}
      BY <2>2, <1>6
    <3>2. Cardinality(Holders(g) \ {a}) = Cardinality(Holders(g)) - 1
      BY <2>2, <1>8, <1>9, FS_RemoveElement
    <3> QED
      BY <3>1, <3>2, <2>2, <1>9
  <2>3. ASSUME l \in has[a], Freed(a, l) = 0, NEW b \in waiters[g], Granted(a, l) = {b}
        PROVE  Cardinality(NextHolders(g)) = active[g] - Freed(a, l)
    <3>1. /\ IsFiniteSet(Holders(g) \ {a})
          /\ Cardinality(Holders(g) \ {a}) = Cardinality(Holders(g)) - 1
      BY <2>3, <1>8, <1>9, FS_RemoveElement
    <3>2. b \notin Holders(g) \ {a}
      BY <2>3, <1>8
    <3>3. Cardinality((Holders(g) \ {a}) \cup {b}) = Cardinality(Holders(g) \ {a}) + 1
      BY <3>1, <3>2, FS_AddElement
    <3>4. NextHolders(g) = (Holders(g) \ {a}) \cup {b}
      BY <2>3, <1>6
    <3> QED
      BY <3>1, <3>3, <3>4, <2>3, <1>9
  <2>4. \/ l \notin has[a] /\ Granted(a, l) = {} /\ Freed(a, l) = 0
        \/ l \in has[a] /\ waiters[g] = {} /\ Granted(a, l) = {} /\ Freed(a, l) = 1
        \/ l \in has[a] /\ Freed(a, l) = 0 /\ \E b \in waiters[g] : Granted(a, l) = {b}
    BY GrantedCases
  <2> QED
    BY <2>1, <2>2, <2>3, <2>4
<1>11. Freed(a, l) \in {0, 1}
  BY DEF Freed
<1> HIDE DEF g
<1>12. ASSUME NEW h \in AllGates
       PROVE  /\ active'[h] = Cardinality(NextHolders(h)) /\ active'[h] \in Nat
              /\ active'[h] <= Capacity(h)
              /\ waiters'[h] # {} => active'[h] = Capacity(h)
  <2>1. /\ active[h] = Cardinality(Holders(h)) /\ active[h] <= Capacity(h) /\ active[h] \in Nat
        /\ waiters[h] # {} => active[h] = Capacity(h)
        /\ Capacity(h) \in Nat
    BY NetworkAssumption DEF LeaseInv, LeaseTypeOK, SlotsCounted, Capacity
  <2>2. CASE h = g
    <3>1. active'[g] = Cardinality(NextHolders(g)) /\ waiters'[g] \subseteq waiters[g]
      BY <1>1, <1>2, <1>10
    <3>2. Cardinality(NextHolders(g)) \in Nat
      <4>1. NextHolders(g) \in SUBSET Actors
        BY DEF Holders, NextHolders
      <4> QED
        BY <4>1, FS_Subset, FS_CardinalityType, GatesAssumption
    <3>3. active'[g] = active[g] - Freed(a, l)
      BY <1>1, <1>2
    <3>4. active'[g] <= active[g] /\ (waiters[g] # {} => active'[g] = active[g])
      BY <3>3, <2>1, <2>2, <1>10, <1>11
    <3>5. active'[h] = Cardinality(NextHolders(h)) /\ active'[h] \in Nat
      BY <3>1, <3>2, <2>2
    <3>6. active'[h] <= active[h] /\ (waiters'[h] # {} => active'[h] = active[h] /\ waiters[h] # {})
      BY <3>1, <3>4, <2>2
    <3> QED
      BY <3>5, <3>6, <2>1
  <2>3. CASE h # g
    <3>1. active'[h] = active[h] /\ waiters'[h] \subseteq waiters[h]
      BY <2>3, <1>2
    <3> QED
      BY <3>1, <2>1, <2>3, <1>7
  <2> QED
    BY <2>2, <2>3
<1>13. ASSUME NEW b \in Actors, NEW m \in has'[b] PROVE owned'[b][m] # None
  <2>1. m \in Levels /\ ~(b = a /\ m = l)
    BY <1>2, <1>5
  <2>2. owned'[b][m] = owned[b][m]
    BY <2>1, <1>2
  <2>3. CASE m \in has[b]
    BY <2>2, <2>3 DEF LeaseInv, SlotsCounted
  <2>4. CASE m \notin has[b]
    <3>1. b \in Granted(a, l) /\ m = l
      BY <2>4, <1>2
    <3> QED
      BY <3>1, <2>2, <1>1, <1>3
  <2> QED
    BY <2>3, <2>4
<1>14. /\ \A h \in AllGates : /\ active'[h] = Cardinality(NextHolders(h)) /\ active'[h] <= Capacity(h)
                              /\ waiters'[h] # {} => active'[h] = Capacity(h)
       /\ \A h \in AllGates : active'[h] \in Nat
  BY <1>12
<1>15. SlotsCounted'
  <2>2. ASSUME NEW h \in AllGates
        PROVE  /\ active'[h] = Cardinality(Holders(h)') /\ active'[h] <= Capacity(h)
               /\ waiters'[h] # {} => active'[h] = Capacity(h)
    <3>1. Holders(h)' = NextHolders(h)
      BY DEF Holders, NextHolders
    <3>2. /\ active'[h] = Cardinality(NextHolders(h)) /\ active'[h] <= Capacity(h)
          /\ waiters'[h] # {} => active'[h] = Capacity(h)
      BY <1>14
    <3> QED
      BY <3>1, <3>2, Zenon
  <2> QED
    BY <1>13, <2>2 DEF SlotsCounted, AllGates, Capacity
<1> QED
  BY <1>14, <1>15

(* The rest of the lease invariant, and the map that forgets an idle gate.  *)
LEMMA LeaveKeepsLeases ==
  ASSUME Typed, LeaseInv, NEW a \in Actors, NEW l \in Levels, owned[a][l] # None, Outside(a),
         Leave(a, l), UNCHANGED <<conv, kind>>, \A b \in Actors \ {a} : at'[b] = at[b]
  PROVE  LeaseInv' /\ GivenBack(a, l)
<1> DEFINE g == owned[a][l]
           G == Granted(a, l)
<1>1. g \in AllGates /\ g # None
  BY DEF LeaseInv, LeaseTypeOK
<1>2. GivesBack(a, l)
  BY DEF Leave
<1>3. GivenBack(a, l)
  BY <1>2, GivesBackKeeps
<1>4. SlotsCounted' /\ \A h \in AllGates : active'[h] \in Nat
  BY <1>2, GivesBackCounts
<1>5. /\ \A b \in Actors, m \in Levels :
           owned'[b][m] = IF b = a /\ m = l THEN None ELSE owned[b][m]
      /\ has'[a] = has[a] \ {l}
      /\ \A b \in Actors \ {a} : b \in G => has'[b] = has[b] \cup {l}
      /\ \A b \in Actors \ {a} : b \notin G => has'[b] = has[b]
      /\ \A h \in AllGates : waiters'[h] = waiters[h] \ G
      /\ \A b \in Actors : ahead'[b] = IF b \in G THEN {} ELSE ahead[b] \ G
  BY <1>3 DEF GivenBack
<1>6. \A b \in G : /\ b \in waiters[g] /\ b \in Actors /\ b # a /\ owned[b][l] = g
                   /\ l \notin has[b] /\ at[b] = l
  BY GrantedInLine DEF Granted, First
<1>8. ~Idle(g, Freed(a, l)) => gate' = gate
  BY DEF Leave
<1>9. /\ gate' \in [Keyed -> [Keys -> Gates \cup {None}]]
      /\ \A m \in Keyed, k \in Keys : \/ gate'[m][k] = gate[m][k]
                                      \/ gate'[m][k] = None /\ gate[m][k] = g /\ Idle(g, Freed(a, l))
      /\ \A m \in Keyed, k \in Keys : gate'[m][k] = g => ~Idle(g, Freed(a, l))
  <2>1. CASE ~Idle(g, Freed(a, l))
    BY <2>1, <1>8 DEF LeaseInv, LeaseTypeOK
  <2>2. CASE Idle(g, Freed(a, l))
    <3>1. Drop(g)
      BY <2>2 DEF Leave
    <3> HIDE DEF g
    <3> QED
      BY <2>2, <3>1, <1>1 DEF Drop, LeaseInv, LeaseTypeOK
  <2> QED
    BY <2>1, <2>2
<1>10. LeaseTypeOK'
  <2>1. active' \in [AllGates -> Nat]
    BY <1>2, <1>4 DEF GivesBack, LeaseInv, LeaseTypeOK
  <2> QED
    BY <2>1, <1>3, <1>9 DEF GivenBack, LeaseTypeOK, AllGates
<1>11. \A b \in Actors, m \in Levels : owned[b][m] = g => m = l
  BY <1>1, OneLevel DEF LeaseInv
<1> HIDE DEF g, G
<1>12. Lines'
  <2> SUFFICES ASSUME NEW h \in AllGates, NEW b \in waiters[h], b \notin G PROVE InLine(b, h)'
    BY <1>5 DEF Lines, AllGates
  <2>1. b \in Actors /\ InLine(b, h) /\ b # a
    BY DEF LeaseInv, LeaseTypeOK, Lines, Outside
  <2>2. at'[b] = at[b] /\ has'[b] = has[b] /\ at[b] \in Levels
    BY <2>1, <1>5 DEF InLine
  <2>3. owned'[b][at[b]] = owned[b][at[b]]
    BY <2>1, <2>2, <1>5
  <2> QED
    BY <2>1, <2>2, <2>3 DEF InLine
<1>13. Ordered'
  <2> SUFFICES ASSUME NEW h \in AllGates
               PROVE /\ \A b \in waiters'[h] : ahead'[b] \subseteq waiters'[h] \ {b}
                     /\ \A b, c \in waiters'[h] : b = c \/ b \in ahead'[c] \/ c \in ahead'[b]
                     /\ \A b, c \in waiters'[h] : b \in ahead'[c] => ahead'[b] \subseteq ahead'[c]
    BY DEF Ordered, AllGates
  <2>1. /\ \A b \in waiters[h] : ahead[b] \subseteq waiters[h] \ {b}
        /\ \A b, c \in waiters[h] : b = c \/ b \in ahead[c] \/ c \in ahead[b]
        /\ \A b, c \in waiters[h] : b \in ahead[c] => ahead[b] \subseteq ahead[c]
    BY DEF LeaseInv, Ordered
  <2>2. waiters'[h] = waiters[h] \ G /\ waiters[h] \subseteq Actors
    BY <1>5 DEF LeaseInv, LeaseTypeOK
  <2>3. \A b \in waiters'[h] : ahead'[b] = ahead[b] \ G
    BY <2>2, <1>5
  <2> QED
    BY <2>1, <2>2, <2>3
<1>14. LevelsApart'
  <2>1. /\ \A b \in Actors : owned'[b]["network"] \in {Network, None}
        /\ \A b \in Actors, m \in Keyed : owned'[b][m] \in Gates \cup {None}
    BY <1>5 DEF LeaseInv, LevelsApart, Levels
  <2>2. \A b \in Actors, m \in Levels : owned'[b][m] # None => owned'[b][m] = owned[b][m]
    BY <1>5
  <2>3. \A m \in Keyed, k \in Keys : gate'[m][k] # None => gate'[m][k] = gate[m][k]
    BY <1>9
  <2>4. \A b, c \in Actors, m, n \in Keyed : owned'[b][m] # None /\ owned'[b][m] = owned'[c][n] => m = n
    BY <2>2 DEF LeaseInv, LevelsApart, Levels
  <2>5. \A b \in Actors, m, n \in Keyed, k \in Keys :
          owned'[b][m] # None /\ owned'[b][m] = gate'[n][k] => m = n
    BY <2>2, <2>3 DEF LeaseInv, LevelsApart, Levels
  <2>6. \A m, n \in Keyed, j, k \in Keys :
          gate'[m][j] # None /\ gate'[m][j] = gate'[n][k] => m = n /\ j = k
    BY <2>3 DEF LeaseInv, LevelsApart
  <2> QED
    BY <2>1, <2>4, <2>5, <2>6 DEF LevelsApart
<1>15. \A b \in Actors, m \in Keyed : LeaseKey(b, m)' = LeaseKey(b, m)
  BY SameLeaseKey DEF SameKey
<1>16. /\ IsFiniteSet(Holders(g)) /\ active[g] = Cardinality(Holders(g))
       /\ a \in Holders(g) <=> l \in has[a]
       /\ \A b \in Actors \ {a} : b \in Holders(g) <=> l \in has[b] /\ owned[b][l] = g
       /\ Holders(g) \subseteq Actors
  <2>1. \A b \in Actors : has[b] \subseteq Levels
    BY DEF LeaseInv, LeaseTypeOK
  <2>2. owned[a][l] = g
    BY DEF g
  <2>3. IsFiniteSet(Holders(g)) /\ active[g] = Cardinality(Holders(g))
    BY <1>1, HoldersFinite DEF LeaseInv, SlotsCounted
  <2>4. \A b \in Actors : b \in Holders(g) <=> l \in has[b] /\ owned[b][l] = g
    BY <2>1, <1>11 DEF Holders
  <2>5. Holders(g) \subseteq Actors
    BY DEF Holders
  <2> QED
    BY <2>2, <2>3, <2>4, <2>5
<1>17. \/ l \notin has[a] /\ G = {} /\ Freed(a, l) = 0
       \/ l \in has[a] /\ waiters[g] = {} /\ G = {} /\ Freed(a, l) = 1
       \/ l \in has[a] /\ Freed(a, l) = 0 /\ waiters[g] # {}
  BY GrantedCases DEF g, G
<1>18. Idle(g, Freed(a, l)) => Holders(g) = IF l \in has[a] THEN {a} ELSE {}
  <2> SUFFICES ASSUME active[g] = Freed(a, l), waiters[g] = {}
               PROVE  Holders(g) = IF l \in has[a] THEN {a} ELSE {}
    BY DEF Idle
  <2>1. CASE l \notin has[a]
    BY <2>1, <1>16, <1>17, FS_EmptySet
  <2>2. CASE l \in has[a]
    <3>1. Cardinality(Holders(g)) = 1
      BY <2>2, <1>16, <1>17
    <3>2. \E x : Holders(g) = {x}
      BY <3>1, <1>16, FS_Singleton
    <3> QED
      BY <3>2, <2>2, <1>16
  <2> QED
    BY <2>1, <2>2
<1>19. ~Idle(g, Freed(a, l)) => waiters[g] # {} \/ \E b \in Actors \ {a} : b \in Holders(g)
  <2> SUFFICES ASSUME waiters[g] = {}, Holders(g) \subseteq {a} PROVE Cardinality(Holders(g)) = Freed(a, l)
    BY <1>16 DEF Idle
  <2>1. CASE l \in has[a]
    <3>1. Holders(g) = {a}
      BY <2>1, <1>16
    <3> QED
      BY <2>1, <3>1, <1>17, FS_Singleton
  <2>2. CASE l \notin has[a]
    <3>1. Holders(g) = {}
      BY <2>2, <1>16
    <3> QED
      BY <2>2, <3>1, <1>17, FS_EmptySet
  <2> QED
    BY <2>1, <2>2
<1>20. ASSUME NEW b \in Actors, NEW m \in Keyed, owned'[b][m] # None, Uses(b, m)'
       PROVE  LeaseKey(b, m) \in Keys /\ gate'[m][LeaseKey(b, m)] = owned'[b][m]
  <2>1. m \in Levels /\ ~(b = a /\ m = l) /\ owned'[b][m] = owned[b][m] /\ owned[b][m] # None
    BY <1>5, <1>20 DEF Levels
  <2>2. owned[b][m] \in AllGates
    BY <2>1 DEF LeaseInv, LeaseTypeOK, Levels
  <2>3. Uses(b, m) /\ (m \in has[b] \/ b \in waiters[owned[b][m]])
    <3>1. CASE m \in has'[b]
      <4>1. CASE b = a \/ b \notin G
        <5>1. m \in has[b]
          BY <3>1, <4>1, <1>5
        <5> QED
          BY <5>1 DEF Uses
      <4>2. CASE b # a /\ b \in G
        <5>1. m \in has[b] \/ m = l
          BY <3>1, <4>2, <1>5
        <5>2. m = l => b \in waiters[owned[b][m]]
          BY <4>2, <1>6
        <5> QED
          BY <5>1, <5>2 DEF Uses
      <4> QED
        BY <4>1, <4>2
    <3>2. CASE b \in waiters'[owned[b][m]]
      BY <3>2, <2>2, <1>5 DEF Uses
    <3> QED
      BY <3>1, <3>2, <1>20, <2>1 DEF Uses
  <2>4. LeaseKey(b, m) \in Keys /\ gate[m][LeaseKey(b, m)] = owned[b][m]
    BY <2>1, <2>3 DEF LeaseInv, Mapped
  <2>6. ASSUME owned[b][m] = g, Idle(g, Freed(a, l)) PROVE FALSE
    <3>1. m = l /\ b # a
      BY <2>1, <2>6, <1>11
    <3>2. waiters[g] = {} /\ G = {}
      BY <2>6, <1>6 DEF Idle
    <3>3. l \in has[b]
      BY <2>3, <2>6, <3>1, <3>2
    <3>4. b \in Holders(g)
      BY <2>6, <3>1, <3>3, <1>16
    <3> QED
      BY <3>1, <3>4, <2>6, <1>18
  <2> QED
    BY <2>1, <2>4, <2>6, <1>9
<1>21. ASSUME NEW m \in Keyed, NEW k \in Keys, gate'[m][k] # None
       PROVE  \E b \in Actors : owned'[b][m] = gate'[m][k]
  <2>1. gate'[m][k] = gate[m][k] /\ m \in Levels
    BY <1>9, <1>21 DEF Levels
  <2>2. PICK b \in Actors : owned[b][m] = gate[m][k]
    BY <2>1, <1>21 DEF LeaseInv, Mapped
  <2>3. CASE ~(b = a /\ m = l)
    BY <2>1, <2>2, <2>3, <1>5
  <2>4. CASE b = a /\ m = l
    <3>1. gate'[m][k] = g /\ ~Idle(g, Freed(a, l))
      BY <2>1, <2>2, <2>4, <1>9 DEF g
    <3>2. \E c \in Actors \ {a} : owned[c][l] = g
      <4>1. CASE waiters[g] # {}
        <5>1. PICK c \in waiters[g] : TRUE
          BY <4>1
        <5> QED
          BY <5>1, GrantedInLine DEF g
      <4>2. CASE \E c \in Actors \ {a} : c \in Holders(g)
        BY <4>2, <1>16
      <4> QED
        BY <4>1, <4>2, <3>1, <1>19
    <3> QED
      BY <3>1, <3>2, <2>4, <1>5
  <2> QED
    BY <2>3, <2>4
<1>22. Mapped'
  BY <1>15, <1>20, <1>21 DEF Mapped
<1> QED
  BY <1>3, <1>4, <1>10, <1>12, <1>13, <1>14, <1>22 DEF LeaseInv

----------------------------------------------------------------------------
(* The await points.  What an actor has at each of them, and what it is     *)
(* about.                                                                  *)
Away == {"none", "asking", "starting", "claimed", "preparing", "executing", "done"}
HoldsInOrder(a) ==
  /\ owned[a]["network"] # None => "project" \in has[a]
  /\ at[a] \in Away => \A l \in Levels : owned[a][l] = None
  /\ at[a] = "workspace" => owned[a]["project"] = None
  /\ at[a] \in {"workspace", "project", "rechecking", "writing", "fetched"} => owned[a]["network"] = None
  /\ at[a] \in {"project", "network", "fetched"} /\ a \in Turns => owned[a]["workspace"] = None
  /\ at[a] \in Levels => owned[a][at[a]] # None
  /\ at[a] = "fetched" => "project" \in has[a]
  /\ at[a] \in {"project", "network", "rechecking", "writing"} /\ a \in Ops /\ kind[a] # "fetch"
       => "workspace" \in has[a]
About(a) ==
  /\ a \in Turns => /\ row[a] \in {"none", "queued"} => at[a] = "none"
                    /\ row[a] = "ended" => at[a] = "done"
                    /\ at[a] \notin {"asking", "starting", "rechecking", "writing"}
                    /\ row[a] # "none" => conv[a] \in Conversations
  /\ a \in Ops => /\ at[a] \notin {"claimed", "preparing", "fetched", "executing"}
                  /\ at[a] # "none" => conv[a] \in Conversations /\ kind[a] \in Kinds
                  /\ at[a] = "starting" => kind[a] = "fetch"
Here(a) == HoldsInOrder(a) /\ About(a)
ActorInv == \A a \in Actors : Here(a)

(* Only who waits where it is may be in a line.                            *)
LEMMA OutsideLines ==
  ASSUME LeaseInv, NEW a \in Actors, at[a] \notin Levels \/ at[a] \in has[a]
  PROVE  Outside(a)
BY DEF LeaseInv, Lines, InLine, Outside

(* The others stay where they are, whatever they are granted.              *)
Stays(b) == at'[b] = at[b] /\ SameKey(b) /\ (b \in Turns => row'[b] = row[b])
LEMMA OthersStay ==
  ASSUME NEW b \in Actors, Here(b), Stays(b), \A m \in Levels : owned'[b][m] = owned[b][m],
         has[b] \subseteq has'[b]
  PROVE  Here(b)'
<1>1. HoldsInOrder(b)'
  BY DEF Here, HoldsInOrder, Stays, SameKey, Levels, Keyed
<1>2. About(b)'
  BY DEF Here, About, Stays, SameKey
<1> QED
  BY <1>1, <1>2 DEF Here

(* The steps by their shape: quiet, into a gate, out of one, out of a line. *)
LEMMA QuietStep ==
  ASSUME LeaseInv, ActorInv, NEW a \in Actors, UNCHANGED leaseVars,
         \A b \in Actors \ {a} : Stays(b),
         at'[a] = at[a] \/ at[a] \notin Levels \/ at[a] \in has[a],
         SameKey(a) \/ at[a] \in Away, Here(a)'
  PROVE  LeaseInv' /\ ActorInv'
<1>1. at'[a] = at[a] \/ Outside(a)
  BY OutsideLines
<1>2. SameKey(a) \/ \A l \in Levels : owned[a][l] = None
  BY DEF ActorInv, Here, HoldsInOrder
<1>3. LeaseInv'
  BY <1>1, <1>2, QuietKeepsLeases DEF Stays
<1>4. ASSUME NEW b \in Actors \ {a} PROVE Here(b)'
  BY OthersStay DEF ActorInv, leaseVars
<1> QED
  BY <1>3, <1>4 DEF ActorInv

LEMMA RunStep ==
  ASSUME Typed, LeaseInv, ActorInv, NEW a \in Actors, NEW l \in Keyed,
         Run(a, l, LeaseKey(a, l)), LeaseKey(a, l) \in Keys, at' = [at EXCEPT ![a] = l],
         owned[a][l] = None, at[a] \notin Levels \/ at[a] \in has[a], UNCHANGED <<conv, kind, row>>,
         Entered(a, l) => Here(a)'
  PROVE  LeaseInv' /\ ActorInv'
<1>1. Outside(a)
  BY OutsideLines
<1>2. LeaseInv' /\ Entered(a, l)
  BY <1>1, RunKeepsLeases
<1>3. ASSUME NEW b \in Actors \ {a} PROVE Here(b)'
  <2>1. Stays(b) /\ has[b] \subseteq has'[b] /\ \A m \in Levels : owned'[b][m] = owned[b][m]
    BY <1>2 DEF Entered, Stays, SameKey, Typed
  <2> QED
    BY <2>1, OthersStay DEF ActorInv
<1> QED
  BY <1>2, <1>3 DEF ActorInv

LEMMA NetworkStep ==
  ASSUME Typed, LeaseInv, ActorInv, NEW a \in Actors, AcquireNetwork(a),
         at' = [at EXCEPT ![a] = "network"], owned[a]["network"] = None,
         at[a] \notin Levels \/ at[a] \in has[a], UNCHANGED <<conv, kind, row>>,
         Entered(a, "network") => Here(a)'
  PROVE  LeaseInv' /\ ActorInv'
<1>1. Outside(a)
  BY OutsideLines
<1>2. LeaseInv' /\ Entered(a, "network")
  BY <1>1, NetworkKeepsLeases
<1>3. ASSUME NEW b \in Actors \ {a} PROVE Here(b)'
  <2>1. Stays(b) /\ has[b] \subseteq has'[b] /\ \A m \in Levels : owned'[b][m] = owned[b][m]
    BY <1>2 DEF Entered, Stays, SameKey, Typed
  <2> QED
    BY <2>1, OthersStay DEF ActorInv
<1> QED
  BY <1>2, <1>3 DEF ActorInv

LEMMA LeaveStep ==
  ASSUME Typed, LeaseInv, ActorInv, NEW a \in Actors, NEW l \in Levels, owned[a][l] # None,
         Leave(a, l), at[a] \notin Levels \/ at[a] \in has[a], UNCHANGED <<conv, kind, row>>,
         \A b \in Actors \ {a} : at'[b] = at[b], GivenBack(a, l) => Here(a)'
  PROVE  LeaseInv' /\ ActorInv'
<1>1. Outside(a)
  BY OutsideLines
<1>2. LeaseInv' /\ GivenBack(a, l)
  BY <1>1, LeaveKeepsLeases
<1>3. ASSUME NEW b \in Actors \ {a} PROVE Here(b)'
  <2>1. Stays(b) /\ has[b] \subseteq has'[b] /\ \A m \in Levels : owned'[b][m] = owned[b][m]
    BY <1>2 DEF GivenBack, Stays, SameKey
  <2> QED
    BY <2>1, OthersStay DEF ActorInv
<1> QED
  BY <1>2, <1>3 DEF ActorInv

LEMMA CancelStep ==
  ASSUME Typed, LeaseInv, ActorInv, NEW S \in SUBSET Actors, Cancel(S), UNCHANGED <<conv, kind, row>>,
         \A a \in S : at[a] \in Levels /\ at'[a] = "unwinding",
         \A a \in Actors \ S : at'[a] = at[a]
  PROVE  LeaseInv' /\ ActorInv'
<1>1. LeaseInv'
  BY CancelKeepsLeases
<1>2. UNCHANGED <<owned, has>>
  BY DEF Cancel
<1>3. ASSUME NEW b \in Actors \ S PROVE Here(b)'
  BY <1>2, OthersStay DEF ActorInv, Stays, SameKey
<1>4. ASSUME NEW b \in S PROVE Here(b)'
  <2>1. Here(b) /\ at[b] \in Levels /\ at'[b] = "unwinding"
    BY DEF ActorInv
  <2>2. HoldsInOrder(b)'
    BY <2>1, <1>2 DEF Here, HoldsInOrder, Away, Levels, Keyed
  <2>3. About(b)'
    BY <2>1 DEF Here, About, Levels, Keyed
  <2> QED
    BY <2>2, <2>3 DEF Here
<1> QED
  BY <1>1, <1>3, <1>4 DEF ActorInv

----------------------------------------------------------------------------
(* The inductive invariant of Git.                                         *)
TurnTypeOK ==
  /\ conv \in [Actors -> Conversations \cup {None}]
  /\ row \in [Turns -> {"none", "queued", "running", "cancelled", "ended"}]
  /\ aborted \subseteq Turns /\ closed \in BOOLEAN
GitInv == OperationsInv /\ TurnTypeOK /\ LeaseInv /\ ActorInv

LEMMA GitTyped == GitInv => Typed
BY DEF GitInv, OperationsInv, JobTypeOK, TurnTypeOK, LeaseInv, Typed

LEMMA KeysOfActors ==
  ASSUME NEW a \in Actors, conv[a] \in Conversations, NEW l
  PROVE  LeaseKey(a, l) \in Keys
BY KeysAssumption DEF LeaseKey, GitLeaseKey, Project

(* One that moves on and leaves the leases alone.                          *)
LEMMA MovesQuiet ==
  ASSUME GitInv, NEW a \in Actors, UNCHANGED <<leaseVars, conv, kind, row>>, NEW p,
         at' = [at EXCEPT ![a] = p], at[a] \notin Levels \/ at[a] \in has[a], Here(a)'
  PROVE  LeaseInv' /\ ActorInv'
<1>1. \A b \in Actors \ {a} : Stays(b)
  BY GitTyped DEF Typed, Stays, SameKey
<1>2. SameKey(a)
  BY DEF SameKey
<1> QED
  BY <1>1, <1>2, QuietStep DEF GitInv

(* The way out is open from everywhere but a line.                          *)
LEMMA MovesOut ==
  ASSUME GitInv, NEW a \in Actors, UNCHANGED <<leaseVars, conv, kind, row>>,
         at' = [at EXCEPT ![a] = "unwinding"], at[a] \notin {"none", "done"},
         at[a] \notin Levels \/ at[a] \in has[a]
  PROVE  LeaseInv' /\ ActorInv'
<1>1. Here(a) /\ at'[a] = "unwinding" /\ UNCHANGED <<owned, has, conv, kind, row>>
  BY GitTyped DEF GitInv, ActorInv, Typed, leaseVars
<1>2. HoldsInOrder(a)'
  BY <1>1 DEF Here, HoldsInOrder, Away, Levels, Keyed
<1>3. About(a)'
  BY <1>1 DEF Here, About
<1> QED
  BY <1>2, <1>3, MovesQuiet DEF Here

(* From a point without leases to the workspace.                           *)
LEMMA SeeksWorkspace ==
  ASSUME GitInv, NEW a \in Actors, at[a] \in {"asking", "claimed"},
         at' = [at EXCEPT ![a] = "workspace"], Run(a, "workspace", GitLeaseKey(a)),
         UNCHANGED <<conv, kind, row>>
  PROVE  LeaseInv' /\ ActorInv'
<1>1. /\ Here(a) /\ at'[a] = "workspace" /\ "workspace" \in Keyed
      /\ \A l \in Levels : owned[a][l] = None
      /\ at[a] \notin Levels
  BY GitTyped DEF GitInv, ActorInv, Here, HoldsInOrder, Away, Typed, Keyed, Levels
<1>2. conv[a] \in Conversations
  BY <1>1, ActorsAssumption DEF Here, About
<1>3. LeaseKey(a, "workspace") = GitLeaseKey(a) /\ LeaseKey(a, "workspace") \in Keys
  BY <1>2, KeysOfActors DEF LeaseKey
<1>4. ASSUME Entered(a, "workspace") PROVE Here(a)'
  <2>1. /\ owned'[a]["workspace"] # None /\ owned'[a]["project"] = None
        /\ owned'[a]["network"] = None
    BY <1>1, <1>4 DEF Entered, Levels, Keyed
  <2>2. HoldsInOrder(a)'
    BY <1>1, <2>1 DEF HoldsInOrder, Away
  <2>3. About(a)'
    BY <1>1, <1>2, ActorsAssumption DEF Here, About
  <2> QED
    BY <2>2, <2>3 DEF Here
<1> QED
  BY <1>1, <1>3, <1>4, GitTyped, RunStep DEF GitInv, Levels

(* From the workspace, or from a point without leases, to the project.     *)
LEMMA SeeksTheProject ==
  ASSUME GitInv, NEW a \in Actors,
         \/ at[a] \in {"starting", "preparing"}
         \/ at[a] = "workspace" /\ "workspace" \in has[a] /\ a \in Ops,
         at' = [at EXCEPT ![a] = "project"], Run(a, "project", Project(a)),
         UNCHANGED <<conv, kind, row>>
  PROVE  LeaseInv' /\ ActorInv'
<1>1. /\ Here(a) /\ at'[a] = "project" /\ "project" \in Keyed
      /\ owned[a]["project"] = None /\ owned[a]["network"] = None
      /\ a \in Turns => owned[a]["workspace"] = None
      /\ at[a] \notin Levels \/ at[a] \in has[a]
  BY GitTyped, ActorsAssumption
     DEF GitInv, ActorInv, Here, HoldsInOrder, Away, Typed, Keyed, Levels
<1>2. conv[a] \in Conversations
  BY <1>1, ActorsAssumption DEF Here, About
<1>3. LeaseKey(a, "project") = Project(a) /\ LeaseKey(a, "project") \in Keys
  BY <1>2, KeysOfActors DEF LeaseKey
<1>4. ASSUME Entered(a, "project") PROVE Here(a)'
  <2>1. /\ owned'[a]["project"] # None /\ owned'[a]["network"] = None
        /\ owned'[a]["workspace"] = owned[a]["workspace"] /\ has[a] \subseteq has'[a]
    BY <1>1, <1>4 DEF Entered, Levels, Keyed
  <2>2. a \in Ops /\ kind[a] # "fetch" => "workspace" \in has[a]
    BY <1>1, ActorsAssumption DEF Here, About
  <2>3. HoldsInOrder(a)'
    BY <1>1, <2>1, <2>2 DEF HoldsInOrder, Away
  <2>4. About(a)'
    BY <1>1, <1>2, ActorsAssumption DEF Here, About
  <2> QED
    BY <2>3, <2>4 DEF Here
<1> QED
  BY <1>1, <1>3, <1>4, GitTyped, RunStep DEF GitInv

(* From the project to the network.                                        *)
LEMMA SeeksTheNetwork ==
  ASSUME GitInv, NEW a \in Actors, at[a] = "project", "project" \in has[a],
         at' = [at EXCEPT ![a] = "network"], AcquireNetwork(a), UNCHANGED <<conv, kind, row>>
  PROVE  LeaseInv' /\ ActorInv'
<1>1. /\ Here(a) /\ at'[a] = "network" /\ owned[a]["network"] = None
  BY GitTyped DEF GitInv, ActorInv, Here, HoldsInOrder, Typed
<1>2. ASSUME Entered(a, "network") PROVE Here(a)'
  <2>1. /\ owned'[a]["network"] # None /\ has[a] \subseteq has'[a]
        /\ owned'[a]["workspace"] = owned[a]["workspace"]
    BY <1>1, <1>2 DEF Entered, Levels, Keyed
  <2>2. HoldsInOrder(a)'
    BY <1>1, <2>1 DEF Here, HoldsInOrder, Away
  <2>3. About(a)'
    BY <1>1 DEF Here, About
  <2> QED
    BY <2>2, <2>3 DEF Here
<1> QED
  BY <1>1, <1>2, GitTyped, NetworkStep DEF GitInv

(* Git jobs keep it.                                                       *)
LEMMA JobsKeepLeases ==
  ASSUME GitInv, NEW o \in Ops, JobStep(o)
  PROVE  LeaseInv' /\ ActorInv'
<1> USE ActorsAssumption
<1> o \in Actors /\ Here(o) /\ at \in [Actors -> Points]
  BY GitTyped DEF GitInv, ActorInv, Typed
<1> \A a \in Ops : a \notin Turns
  OBVIOUS
<1>1. CASE Refused(o)
  <2>1. /\ at[o] = "asking" /\ at' = [at EXCEPT ![o] = "done"]
        /\ UNCHANGED <<leaseVars, conv, kind, row>>
    BY <1>1 DEF Refused, Moves, jobVars, turnVars
  <2>2. Here(o)'
    <3>1. HoldsInOrder(o)'
      BY <2>1 DEF Here, HoldsInOrder, Away, leaseVars, Levels, Keyed
    <3>2. About(o)'
      BY <2>1 DEF Here, About
    <3> QED
      BY <3>1, <3>2 DEF Here
  <2> QED
    BY <2>1, <2>2, MovesQuiet DEF Levels, Keyed
<1>2. CASE Admit(o) \/ CommitSeeks(o)
  <2>1. at[o] = "asking" /\ Starts(o) /\ UNCHANGED <<conv, kind, row>>
    BY <1>2 DEF Admit, CommitSeeks, jobVars, turnVars
  <2>2. CASE kind[o] = "fetch"
    <3>1. at' = [at EXCEPT ![o] = "starting"] /\ UNCHANGED leaseVars
      BY <2>1, <2>2 DEF Starts, Moves
    <3>2. Here(o)'
      <4>1. HoldsInOrder(o)'
        BY <2>1, <3>1 DEF Here, HoldsInOrder, Away, leaseVars, Levels, Keyed
      <4>2. About(o)'
        BY <2>1, <2>2, <3>1 DEF Here, About
      <4> QED
        BY <4>1, <4>2 DEF Here
    <3> QED
      BY <2>1, <3>1, <3>2, MovesQuiet DEF Levels, Keyed
  <2>3. CASE kind[o] # "fetch"
    BY <2>1, <2>3, SeeksWorkspace DEF Starts, Moves
  <2> QED
    BY <2>2, <2>3
<1>3. CASE ChecksThread(o)
  <2>1. /\ at[o] = "workspace" /\ "workspace" \in has[o]
        /\ kind[o] \in {"push", "commit"} /\ UNCHANGED <<conv, kind, row>>
    BY <1>3 DEF ChecksThread, jobVars, turnVars
  <2>2. CASE Moves(o, "unwinding") /\ UNCHANGED leaseVars
    BY <2>1, <2>2, MovesOut DEF Moves, Levels, Keyed
  <2>3. CASE Moves(o, "writing") /\ UNCHANGED leaseVars
    <3>1. Here(o)'
      BY <2>1, <2>3 DEF Here, HoldsInOrder, About, Moves, Away, leaseVars, Levels, Keyed
    <3> QED
      BY <2>1, <2>3, <3>1, MovesQuiet DEF Moves
  <2>4. CASE Moves(o, "project") /\ Run(o, "project", Project(o))
    BY <2>1, <2>4, SeeksTheProject DEF Moves
  <2> QED
    BY <1>3, <2>2, <2>3, <2>4 DEF ChecksThread
<1>4. CASE SeeksProject(o)
  <2>1. /\ \/ at[o] = "workspace" /\ "workspace" \in has[o]
           \/ at[o] = "starting"
        /\ UNCHANGED <<conv, kind, row>>
    BY <1>4 DEF SeeksProject, jobVars, turnVars
  <2>2. CASE Moves(o, "unwinding") /\ UNCHANGED leaseVars
    BY <2>1, <2>2, MovesOut DEF Moves, Levels, Keyed
  <2>3. CASE Moves(o, "project") /\ Run(o, "project", Project(o))
    BY <2>1, <2>3, SeeksTheProject DEF Moves
  <2> QED
    BY <1>4, <2>2, <2>3 DEF SeeksProject
<1>5. CASE SeeksNetwork(o)
  BY <1>5, SeeksTheNetwork DEF SeeksNetwork, Moves, jobVars, turnVars
<1>6. CASE Coalesces(o) \/ Finishes(o)
  <2>1. /\ at' = [at EXCEPT ![o] = "unwinding"] /\ UNCHANGED <<leaseVars, conv, kind, row>>
        /\ \/ at[o] \in {"starting", "rechecking", "writing"}
           \/ at[o] \in Keyed /\ at[o] \in has[o]
    BY <1>6 DEF Coalesces, Finishes, Moves, jobVars, turnVars, Keyed
  <2> QED
    BY <2>1, MovesOut DEF Levels, Keyed
<1>7. CASE Rechecks(o)
  <2>1. /\ at[o] = "rechecking" /\ at' = [at EXCEPT ![o] = "writing"]
        /\ UNCHANGED <<leaseVars, conv, kind, row>>
    BY <1>7 DEF Rechecks, Moves, jobVars, turnVars
  <2>2. Here(o)'
    BY <2>1 DEF Here, HoldsInOrder, About, Away, leaseVars, Levels, Keyed
  <2> QED
    BY <2>1, <2>2, MovesQuiet DEF Levels, Keyed
<1>8. CASE Completes(o)
  <2>1. /\ at[o] = "unwinding" /\ at' = [at EXCEPT ![o] = "done"]
        /\ UNCHANGED <<leaseVars, conv, kind, row>> /\ owned[o][Inner(o)] = None
    BY <1>8 DEF Completes, Moves, turnVars
  <2>2. \A l \in Levels : owned[o][l] = None
    BY <2>1 DEF Inner, Levels, Keyed
  <2>3. Here(o)'
    BY <2>1, <2>2 DEF Here, HoldsInOrder, About, Away, leaseVars, Levels, Keyed
  <2> QED
    BY <2>1, <2>3, MovesQuiet DEF Levels, Keyed
<1> QED
  BY <1>1, <1>2, <1>3, <1>4, <1>5, <1>6, <1>7, <1>8 DEF JobStep

(* Turns keep it.                                                          *)
LEMMA TurnsKeepLeases ==
  ASSUME GitInv, NEW t \in Turns, TurnStep(t)
  PROVE  LeaseInv' /\ ActorInv'
<1> USE ActorsAssumption
<1> t \in Actors /\ Here(t) /\ at \in [Actors -> Points]
  BY GitTyped DEF GitInv, ActorInv, Typed
<1> t \notin Ops
  OBVIOUS
<1>1. CASE TurnSeeks(t)
  BY <1>1, SeeksWorkspace DEF TurnSeeks, Moves, jobVars, turnVars
<1>2. CASE TurnPasses(t)
  <2>1. /\ at[t] = "workspace" /\ "workspace" \in has[t] /\ owned[t]["workspace"] # None
        /\ owned[t]["project"] = None /\ owned[t]["network"] = None
        /\ at' = [at EXCEPT ![t] = "preparing"] /\ Leave(t, "workspace")
        /\ UNCHANGED <<conv, kind, row>>
    BY <1>2 DEF TurnPasses, Moves, jobVars, turnVars, Here, HoldsInOrder, Levels, Keyed
  <2>2. ASSUME GivenBack(t, "workspace") PROVE Here(t)'
    <3>1. \A l \in Levels : owned'[t][l] = None
      BY <2>1, <2>2 DEF GivenBack, Levels, Keyed
    <3>2. HoldsInOrder(t)'
      BY <2>1, <3>1 DEF HoldsInOrder, Levels, Keyed
    <3>3. About(t)'
      BY <2>1 DEF Here, About
    <3> QED
      BY <3>2, <3>3 DEF Here
  <2> QED
    BY <2>1, <2>2, GitTyped, LeaveStep DEF GitInv, Levels, Keyed
<1>3. CASE TurnPrepares(t)
  <2>1. at[t] = "preparing" /\ UNCHANGED <<conv, kind, row>>
    BY <1>3 DEF TurnPrepares, jobVars, turnVars
  <2>2. CASE Moves(t, "executing") /\ UNCHANGED leaseVars
    <3>1. HoldsInOrder(t)'
      BY <2>1, <2>2 DEF Here, HoldsInOrder, Away, Moves, leaseVars, Levels, Keyed
    <3>2. About(t)'
      BY <2>1, <2>2 DEF Here, About, Moves
    <3> QED
      BY <2>1, <2>2, <3>1, <3>2, MovesQuiet DEF Here, Moves, Levels, Keyed
  <2>3. CASE Moves(t, "project") /\ Run(t, "project", Project(t))
    BY <2>1, <2>3, SeeksTheProject DEF Moves
  <2> QED
    BY <1>3, <2>2, <2>3 DEF TurnPrepares
<1>4. CASE TurnFetches(t)
  <2>1. at[t] = "project" /\ "project" \in has[t] /\ UNCHANGED <<conv, kind, row>>
    BY <1>4 DEF TurnFetches, jobVars, turnVars
  <2>2. CASE Moves(t, "fetched") /\ UNCHANGED leaseVars
    <3>1. HoldsInOrder(t)'
      BY <2>1, <2>2 DEF Here, HoldsInOrder, Away, Moves, leaseVars, Levels, Keyed
    <3>2. About(t)'
      BY <2>1, <2>2 DEF Here, About, Moves
    <3> QED
      BY <2>1, <2>2, <3>1, <3>2, MovesQuiet DEF Here, Moves
  <2>3. CASE Moves(t, "network") /\ AcquireNetwork(t)
    BY <2>1, <2>3, SeeksTheNetwork DEF Moves
  <2> QED
    BY <1>4, <2>2, <2>3 DEF TurnFetches
<1>5. CASE TurnLaunches(t)
  <2>1. /\ at[t] = "fetched" /\ "project" \in has[t] /\ owned[t]["project"] # None
        /\ owned[t]["workspace"] = None /\ owned[t]["network"] = None
        /\ Leave(t, "project") /\ UNCHANGED <<conv, kind, row>>
    BY <1>5 DEF TurnLaunches, jobVars, turnVars, Here, HoldsInOrder, GitInv, LeaseInv, SlotsCounted
  <2>2. /\ at'[t] \in {"executing", "unwinding"}
        /\ \A b \in Actors \ {t} : at'[b] = at[b]
    BY <1>5 DEF TurnLaunches, Moves
  <2>3. ASSUME GivenBack(t, "project") PROVE Here(t)'
    <3>1. \A l \in Levels : owned'[t][l] = None
      BY <2>1, <2>3 DEF GivenBack, Levels, Keyed
    <3>2. HoldsInOrder(t)'
      BY <2>2, <3>1 DEF HoldsInOrder, Levels, Keyed
    <3>3. About(t)'
      BY <2>1, <2>2 DEF Here, About
    <3> QED
      BY <3>2, <3>3 DEF Here
  <2> QED
    BY <2>1, <2>2, <2>3, GitTyped, LeaveStep DEF GitInv, Levels, Keyed
<1>6. CASE TurnStops(t)
  <2>1. /\ at' = [at EXCEPT ![t] = "unwinding"] /\ UNCHANGED <<leaseVars, conv, kind, row>>
        /\ \/ at[t] \in {"claimed", "preparing", "executing"}
           \/ at[t] = "project" /\ "project" \in has[t]
    BY <1>6 DEF TurnStops, Moves, jobVars, turnVars
  <2> QED
    BY <2>1, MovesOut DEF Levels, Keyed
<1>7. CASE TurnEnds(t)
  <2>1. /\ at[t] = "unwinding" /\ at' = [at EXCEPT ![t] = "done"] /\ row[t] \notin {"none", "queued"}
        /\ UNCHANGED <<leaseVars, conv, kind>> /\ owned[t][Inner(t)] = None
        /\ \A b \in Actors \ {t} : b \in Turns => row'[b] = row[b]
    BY <1>7 DEF TurnEnds, Moves, jobVars, Here, About, GitInv, TurnTypeOK
  <2>2. \A l \in Levels : owned[t][l] = None
    BY <2>1 DEF Inner, Levels, Keyed
  <2>3. HoldsInOrder(t)'
    BY <2>1, <2>2 DEF HoldsInOrder, leaseVars, Levels, Keyed
  <2>4. About(t)'
    <3>1. row'[t] \notin {"none", "queued"}
      BY <1>7, <2>1 DEF TurnEnds, GitInv, TurnTypeOK
    <3> QED
      BY <2>1, <3>1 DEF Here, About
  <2>5. \A b \in Actors \ {t} : Stays(b)
    BY <2>1 DEF Stays, SameKey
  <2> QED
    BY <2>1, <2>3, <2>4, <2>5, QuietStep DEF Here, SameKey, GitInv, Levels, Keyed
<1> QED
  BY <1>1, <1>2, <1>3, <1>4, <1>5, <1>6, <1>7 DEF TurnStep

(* The store's side of a turn.                                             *)
LEMMA RowsKeepLeases ==
  ASSUME GitInv, NEW t \in Turns,
         \/ TurnClaimed(t) \/ TurnCancelled(t) \/ TurnAborts(t)
         \/ \E c \in Conversations : TurnQueued(t, c)
  PROVE  LeaseInv' /\ ActorInv'
<1> USE ActorsAssumption
<1> t \in Actors /\ t \notin Ops /\ Here(t) /\ at \in [Actors -> Points]
  BY GitTyped DEF GitInv, ActorInv, Typed
<1>1. ASSUME NEW c \in Conversations, TurnQueued(t, c) PROVE LeaseInv' /\ ActorInv'
  <2>1. /\ row[t] = "none" /\ at[t] = "none" /\ UNCHANGED <<leaseVars, at, kind>>
        /\ row'[t] = "queued" /\ conv'[t] = c
        /\ \A b \in Actors \ {t} : Stays(b)
    BY <1>1 DEF TurnQueued, jobVars, Here, About, GitInv, TurnTypeOK, Stays, SameKey
  <2>2. HoldsInOrder(t)'
    BY <2>1 DEF Here, HoldsInOrder, Away, leaseVars, Levels, Keyed
  <2>3. About(t)'
    BY <2>1 DEF Here, About
  <2> QED
    BY <2>1, <2>2, <2>3, QuietStep DEF Here, GitInv, Away
<1>2. CASE TurnClaimed(t)
  <2>1. /\ row[t] = "queued" /\ at[t] = "none" /\ UNCHANGED <<leaseVars, conv, kind>>
        /\ row'[t] = "running" /\ at'[t] = "claimed"
        /\ \A b \in Actors \ {t} : Stays(b)
    BY <1>2 DEF TurnClaimed, Moves, jobVars, Here, About, GitInv, TurnTypeOK, Stays, SameKey
  <2>2. HoldsInOrder(t)'
    BY <2>1 DEF Here, HoldsInOrder, Away, leaseVars, Levels, Keyed
  <2>3. About(t)'
    BY <2>1 DEF Here, About
  <2> QED
    BY <2>1, <2>2, <2>3, QuietStep DEF Here, GitInv, Away, Levels, Keyed
<1>3. CASE TurnCancelled(t)
  <2>1. /\ row[t] \in {"queued", "running"} /\ UNCHANGED <<leaseVars, at, conv, kind>>
        /\ row'[t] = "cancelled"
        /\ \A b \in Actors \ {t} : Stays(b)
    BY <1>3 DEF TurnCancelled, Live, jobVars, GitInv, TurnTypeOK, Stays, SameKey
  <2>2. HoldsInOrder(t)'
    BY <2>1 DEF Here, HoldsInOrder, leaseVars
  <2>3. About(t)'
    BY <2>1 DEF Here, About
  <2> QED
    BY <2>1, <2>2, <2>3, QuietStep DEF Here, GitInv, SameKey
<1>4. CASE TurnAborts(t)
  <2>1. UNCHANGED <<conv, kind, row>>
    BY <1>4 DEF TurnAborts, jobVars
  <2>2. CASE at[t] \in Levels /\ Waits(t, at[t])
    <3>1. /\ Cancel({t}) /\ at'[t] = "unwinding" /\ {t} \in SUBSET Actors
          /\ \A b \in Actors \ {t} : at'[b] = at[b]
      BY <1>4, <2>2 DEF TurnAborts, Moves
    <3> QED
      BY <2>1, <2>2, <3>1, GitTyped, CancelStep DEF GitInv
  <2>3. CASE ~(at[t] \in Levels /\ Waits(t, at[t]))
    <3>1. UNCHANGED <<leaseVars, at>>
      BY <1>4, <2>3 DEF TurnAborts
    <3>2. Here(t)'
      BY <2>1, <3>1, OthersStay DEF Stays, SameKey, leaseVars
    <3> QED
      BY <2>1, <3>1, <3>2, QuietStep DEF GitInv, SameKey, Stays
  <2> QED
    BY <2>2, <2>3
<1> QED
  BY <1>1, <1>2, <1>3, <1>4

(* Who gives a lease back, or gives up waiting for one.                     *)
LEMMA LeavesKeepLeases ==
  ASSUME GitInv, NEW a \in Actors, LeaseStep(a)
  PROVE  LeaseInv' /\ ActorInv'
<1> USE ActorsAssumption
<1> Here(a) /\ at \in [Actors -> Points] /\ ~(a \in Ops /\ a \in Turns)
  BY GitTyped DEF GitInv, ActorInv, Typed
<1>1. CASE TransferEnds(a)
  <2>1. /\ at[a] = "network" /\ "network" \in has[a] /\ owned[a]["network"] # None
        /\ "project" \in has[a] /\ Leave(a, "network") /\ UNCHANGED <<conv, kind, row>>
        /\ a \in Turns => owned[a]["workspace"] = None
    BY <1>1 DEF TransferEnds, jobVars, turnVars, Here, HoldsInOrder, Levels, Keyed
  <2>2. /\ at'[a] \in {"fetched", "rechecking", "unwinding"}
        /\ at'[a] = "fetched" => a \in Turns
        /\ at'[a] = "rechecking" => a \in Ops /\ kind[a] = "update"
        /\ \A b \in Actors \ {a} : at'[b] = at[b]
    BY <1>1 DEF TransferEnds, Moves
  <2>3. ASSUME GivenBack(a, "network") PROVE Here(a)'
    <3>1. /\ owned'[a]["network"] = None /\ owned'[a]["workspace"] = owned[a]["workspace"]
          /\ has'[a] = has[a] \ {"network"}
      BY <2>1, <2>3 DEF GivenBack, Levels, Keyed
    <3>2. a \in Ops /\ kind[a] # "fetch" => "workspace" \in has[a]
      BY <2>1 DEF Here, HoldsInOrder
    <3>3. "project" \in has'[a] /\ (a \in Ops /\ kind[a] # "fetch" => "workspace" \in has'[a])
      BY <2>1, <3>1, <3>2
    <3>4. HoldsInOrder(a)'
      BY <2>1, <2>2, <3>1, <3>3 DEF HoldsInOrder, Away, Levels, Keyed
    <3>5. About(a)'
      BY <2>1, <2>2 DEF Here, About
    <3> QED
      BY <3>4, <3>5 DEF Here
  <2> QED
    BY <2>1, <2>2, <2>3, GitTyped, LeaveStep DEF GitInv, Levels
<1>2. CASE Unwinds(a)
  <2>1. /\ at[a] = "unwinding" /\ owned[a][Inner(a)] # None /\ Leave(a, Inner(a))
        /\ UNCHANGED <<at, conv, kind, row>> /\ Inner(a) \in Levels
    BY <1>2 DEF Unwinds, jobVars, turnVars, Inner, Levels, Keyed
  <2>2. ASSUME GivenBack(a, Inner(a)) PROVE Here(a)'
    <3>1. owned'[a]["network"] = None
      BY <2>1, <2>2 DEF GivenBack, Inner, Levels, Keyed
    <3>2. HoldsInOrder(a)'
      BY <2>1, <3>1 DEF HoldsInOrder, Away, Levels, Keyed
    <3>3. About(a)'
      BY <2>1 DEF Here, About
    <3> QED
      BY <3>2, <3>3 DEF Here
  <2>3. at[a] \notin Levels
    BY <2>1 DEF Levels, Keyed
  <2> QED
    BY <2>1, <2>2, <2>3, GitTyped, LeaveStep DEF GitInv
<1> QED
  BY <1>1, <1>2 DEF LeaseStep

LEMMA TimeoutsKeepLeases ==
  ASSUME GitInv, NEW a \in Actors, WaitTimesOut(a)
  PROVE  LeaseInv' /\ ActorInv'
<1>1. /\ Cancel({a}) /\ at' = [at EXCEPT ![a] = "unwinding"] /\ UNCHANGED <<conv, kind, row>>
      /\ at[a] \in Levels
  BY DEF WaitTimesOut, Moves, jobVars, turnVars, Levels, Keyed
<1>2. /\ \A b \in {a} : at[b] \in Levels /\ at'[b] = "unwinding"
      /\ \A b \in Actors \ {a} : at'[b] = at[b]
      /\ {a} \in SUBSET Actors
  BY <1>1, GitTyped DEF Typed
<1> QED
  BY <1>1, <1>2, GitTyped, CancelStep DEF GitInv

LEMMA CloseKeepsLeases ==
  ASSUME GitInv, Close
  PROVE  LeaseInv' /\ ActorInv'
<1>1. /\ Cancel(Waiting) /\ UNCHANGED <<conv, kind, row>>
      /\ at' = [a \in Actors |-> IF a \in Waiting THEN "unwinding" ELSE at[a]]
      /\ Waiting \in SUBSET Actors /\ \A a \in Waiting : at[a] \in Levels
  BY ActorsAssumption DEF Close, jobVars, turnVars, Waiting
<1>2. /\ \A b \in Waiting : at[b] \in Levels /\ at'[b] = "unwinding"
      /\ \A b \in Actors \ Waiting : at'[b] = at[b]
  BY <1>1
<1> HIDE DEF Waiting
<1> QED
  BY <1>1, <1>2, GitTyped, CancelStep DEF GitInv

(* A request is no business of the leases yet.                             *)
LEMMA AskKeepsLeases ==
  ASSUME GitInv, NEW o \in Ops, NEW d \in Kinds, NEW c \in Conversations,
         NEW k \in IdempotencyKeys, Ask(o, d, c, k)
  PROVE  LeaseInv' /\ ActorInv'
<1> USE ActorsAssumption
<1> o \in Actors /\ o \notin Turns /\ Here(o) /\ at \in [Actors -> Points]
  BY GitTyped DEF GitInv, ActorInv, Typed
<1>1. /\ at[o] = "none" /\ at'[o] = "asking" /\ conv'[o] = c /\ kind'[o] = d
      /\ UNCHANGED <<leaseVars, row>>
      /\ \A b \in Actors \ {o} : Stays(b)
  BY GitTyped DEF Ask, Moves, turnVars, Stays, SameKey, Typed
<1>2. HoldsInOrder(o)'
  BY <1>1 DEF Here, HoldsInOrder, Away, leaseVars, Levels, Keyed
<1>3. About(o)'
  BY <1>1 DEF Here, About
<1> QED
  BY <1>1, <1>2, <1>3, QuietStep DEF Here, GitInv, Away, Levels, Keyed

(* A step of something else.                                               *)
LEMMA GitIdle ==
  ASSUME GitInv, UNCHANGED <<leaseVars, at, conv, kind, row>>
  PROVE  LeaseInv' /\ ActorInv'
<1>1. LeaseInv'
  BY QuietKeepsLeases DEF GitInv, SameKey
<1>2. ASSUME NEW b \in Actors PROVE Here(b)'
  BY OthersStay DEF GitInv, ActorInv, Stays, SameKey, leaseVars
<1> QED
  BY <1>1, <1>2 DEF ActorInv

LEMMA TurnTypeStep == GitInv /\ [Next]_vars => TurnTypeOK'
<1> SUFFICES ASSUME TurnTypeOK, [Next]_vars PROVE TurnTypeOK'
  BY DEF GitInv
<1> USE ActorsAssumption DEF TurnTypeOK
<1>1. ASSUME NEW o \in Ops, JobStep(o) \/ Expires(o) PROVE TurnTypeOK'
  BY <1>1 DEF JobStep, Refused, Admit, CommitSeeks, ChecksThread, SeeksProject, SeeksNetwork,
              Coalesces, Rechecks, Finishes, Completes, Expires, jobVars, turnVars
<1>2. ASSUME NEW o \in Ops, NEW d \in Kinds, NEW c \in Conversations, NEW k \in IdempotencyKeys,
             Ask(o, d, c, k)
      PROVE TurnTypeOK'
  BY <1>2 DEF Ask, turnVars
<1>3. ASSUME NEW t \in Turns, TurnStep(t) PROVE TurnTypeOK'
  BY <1>3 DEF TurnStep, TurnSeeks, TurnPasses, TurnPrepares, TurnFetches, TurnLaunches, TurnStops,
              TurnEnds, jobVars, turnVars
<1>4. ASSUME NEW t \in Turns, \/ TurnClaimed(t) \/ TurnCancelled(t) \/ TurnAborts(t)
                              \/ \E c \in Conversations : TurnQueued(t, c)
      PROVE TurnTypeOK'
  BY <1>4 DEF TurnClaimed, TurnCancelled, TurnAborts, TurnQueued, Live, jobVars
<1>5. ASSUME NEW a \in Actors, LeaseStep(a) \/ WaitTimesOut(a) PROVE TurnTypeOK'
  BY <1>5 DEF LeaseStep, TransferEnds, Unwinds, WaitTimesOut, jobVars, turnVars
<1>6. CASE (\E p \in Keys : FetchAges(p)) \/ Close \/ UNCHANGED vars
  BY <1>6 DEF FetchAges, Close, vars, jobVars, turnVars
<1> QED
  BY <1>1, <1>2, <1>3, <1>4, <1>5, <1>6 DEF Next

LEMMA GitInvStep == GitInv /\ [Next]_vars => GitInv'
<1> SUFFICES ASSUME GitInv, [Next]_vars PROVE GitInv'
  OBVIOUS
<1>1. OperationsInv'
  BY OperationsInvStep DEF GitInv
<1>2. LeaseInv' /\ ActorInv'
  <2>1. ASSUME NEW o \in Ops, Expires(o) PROVE LeaseInv' /\ ActorInv'
    <3>1. UNCHANGED <<leaseVars, at, conv, kind, row>>
      BY <2>1 DEF Expires, turnVars
    <3> QED
      BY <3>1, GitIdle
  <2>2. ASSUME NEW p \in Keys, FetchAges(p) PROVE LeaseInv' /\ ActorInv'
    <3>1. UNCHANGED <<leaseVars, at, conv, kind, row>>
      BY <2>2 DEF FetchAges, jobVars, turnVars
    <3> QED
      BY <3>1, GitIdle
  <2>3. CASE UNCHANGED vars
    <3>1. UNCHANGED <<leaseVars, at, conv, kind, row>>
      BY <2>3 DEF vars, jobVars, turnVars
    <3> QED
      BY <3>1, GitIdle
  <2>4. ASSUME NEW o \in Ops, JobStep(o) PROVE LeaseInv' /\ ActorInv'
    BY <2>4, JobsKeepLeases
  <2>5. ASSUME NEW o \in Ops, NEW d \in Kinds, NEW c \in Conversations, NEW k \in IdempotencyKeys,
               Ask(o, d, c, k)
        PROVE LeaseInv' /\ ActorInv'
    BY <2>5, AskKeepsLeases
  <2>6. ASSUME NEW t \in Turns, TurnStep(t) PROVE LeaseInv' /\ ActorInv'
    BY <2>6, TurnsKeepLeases
  <2>7. ASSUME NEW t \in Turns, \/ TurnClaimed(t) \/ TurnCancelled(t) \/ TurnAborts(t)
                                \/ \E c \in Conversations : TurnQueued(t, c)
        PROVE LeaseInv' /\ ActorInv'
    BY <2>7, RowsKeepLeases
  <2>8. ASSUME NEW a \in Actors, LeaseStep(a) \/ WaitTimesOut(a) PROVE LeaseInv' /\ ActorInv'
    BY <2>8, LeavesKeepLeases, TimeoutsKeepLeases
  <2>9. CASE Close
    BY <2>9, CloseKeepsLeases
  <2> QED
    BY <2>1, <2>2, <2>3, <2>4, <2>5, <2>6, <2>7, <2>8, <2>9 DEF Next
<1>3. TurnTypeOK'
  BY TurnTypeStep
<1> QED
  BY <1>1, <1>2, <1>3 DEF GitInv

LEMMA GitInvInit == Init => GitInv
<1> SUFFICES ASSUME Init PROVE GitInv
  OBVIOUS
<1> USE ActorsAssumption
<1>1. /\ gate = [l \in Keyed |-> [k \in Keys |-> None]] /\ active = [g \in AllGates |-> 0]
      /\ waiters = [g \in AllGates |-> {}] /\ ahead = [a \in Actors |-> {}]
      /\ owned = [a \in Actors |-> [l \in Levels |-> None]] /\ has = [a \in Actors |-> {}]
  BY DEF Init, LeaseInit
<1>2. LeaseTypeOK
  BY <1>1 DEF LeaseTypeOK
<1>3. SlotsCounted
  <2>1. \A g : Holders(g) = {}
    BY <1>1 DEF Holders
  <2>2. \A g \in AllGates : Capacity(g) \in Nat
    BY NetworkAssumption DEF Capacity
  <2> QED
    BY <1>1, <2>1, <2>2, FS_EmptySet DEF SlotsCounted
<1>4. Lines /\ Ordered
  BY <1>1 DEF Lines, Ordered
<1>5. LevelsApart
  BY <1>1 DEF LevelsApart, Levels
<1>6. Mapped
  BY <1>1 DEF Mapped, Levels
<1>7. ActorInv
  <2> SUFFICES ASSUME NEW a \in Actors PROVE Here(a)
    BY DEF ActorInv
  <2>1. at[a] = "none" /\ (a \in Turns => row[a] = "none") /\ \A l \in Levels : owned[a][l] = None
    BY <1>1 DEF Init
  <2>2. HoldsInOrder(a)
    BY <2>1 DEF HoldsInOrder, Levels, Keyed
  <2>3. About(a)
    BY <2>1 DEF About
  <2> QED
    BY <2>2, <2>3 DEF Here
<1>8. TurnTypeOK
  BY DEF Init, TurnTypeOK
<1> QED
  BY <1>2, <1>3, <1>4, <1>5, <1>6, <1>7, <1>8, OperationsInvInit DEF GitInv, LeaseInv

LEMMA GitInvariant == Spec => []GitInv
BY GitInvInit, GitInvStep, PTL DEF Spec

----------------------------------------------------------------------------
(* What follows for the leases.                                            *)

(* Two that have the lease of one key have one gate, which has one slot.    *)
LEMMA OneHolder ==
  ASSUME LeaseInv, NEW l \in Keyed, NEW a \in Actors, NEW b \in Actors,
         l \in has[a], l \in has[b], LeaseKey(a, l) = LeaseKey(b, l)
  PROVE  a = b
<1> DEFINE g == owned[a][l]
<1>1. owned[a][l] # None /\ owned[b][l] # None
  BY DEF LeaseInv, SlotsCounted
<1>2. owned[b][l] = g
  BY <1>1 DEF LeaseInv, Mapped, Uses
<1>3. g \in Gates /\ g # Network /\ g \in AllGates
  BY <1>1, GatesAssumption DEF LeaseInv, LevelsApart, AllGates
<1>4. {a, b} \in SUBSET Holders(g)
  BY <1>2 DEF Holders
<1> HIDE DEF g
<1>5. Cardinality(Holders(g)) <= 1
  BY <1>3 DEF LeaseInv, SlotsCounted, Capacity
<1>6. IsFiniteSet({a, b}) /\ Cardinality({a, b}) <= Cardinality(Holders(g))
  BY <1>4, HoldersFinite, FS_Subset
<1>7. ASSUME a # b PROVE FALSE
  <2>1. IsFiniteSet({a}) /\ Cardinality({a}) = 1
    BY FS_Singleton
  <2>2. Cardinality({a} \cup {b}) = 2
    BY <2>1, <1>7, FS_AddElement
  <2>3. {a} \cup {b} = {a, b}
    OBVIOUS
  <2>4. Cardinality({a, b}) = 2
    BY <2>2, <2>3
  <2>5. Cardinality(Holders(g)) \in Nat
    BY HoldersFinite
  <2> QED
    BY <2>4, <2>5, <1>5, <1>6
<1> QED
  BY <1>7

LEMMA GitInvExclusive == GitInv => LeasesExclusive
<1> SUFFICES ASSUME GitInv PROVE LeasesExclusive
  OBVIOUS
<1>1. ASSUME NEW a \in Actors, NEW b \in Actors, a # b, "workspace" \in has[a] \cap has[b]
      PROVE  GitLeaseKey(a) # GitLeaseKey(b)
  BY <1>1, OneHolder DEF GitInv, LeaseKey, Keyed
<1>2. ASSUME NEW a \in Actors, NEW b \in Actors, a # b, "project" \in has[a] \cap has[b]
      PROVE  Project(a) # Project(b)
  BY <1>2, OneHolder DEF GitInv, LeaseKey, Keyed
<1>3. Cardinality({a \in Actors : "network" \in has[a]}) <= NetworkOperations
  <2> DEFINE S == {a \in Actors : "network" \in has[a]}
  <2>1. S \in SUBSET Holders(Network)
    BY DEF GitInv, LeaseInv, SlotsCounted, LevelsApart, Holders
  <2>2. IsFiniteSet(S) /\ Cardinality(S) <= Cardinality(Holders(Network))
    BY <2>1, HoldersFinite, FS_Subset
  <2>3. Cardinality(Holders(Network)) <= NetworkOperations
    BY DEF GitInv, LeaseInv, SlotsCounted, Capacity, AllGates
  <2>4. Cardinality(S) \in Nat /\ Cardinality(Holders(Network)) \in Nat
    BY <2>2, HoldersFinite, FS_CardinalityType
  <2> QED
    BY <2>2, <2>3, <2>4, NetworkAssumption
<1>4. \A a \in Actors : "network" \in has[a] => "project" \in has[a]
  BY DEF GitInv, LeaseInv, SlotsCounted, ActorInv, Here, HoldsInOrder
<1> QED
  BY <1>1, <1>2, <1>3, <1>4 DEF LeasesExclusive

LEMMA GitInvSlots == GitInv => SlotsOwned
<1> SUFFICES ASSUME GitInv, NEW g \in AllGates
             PROVE  /\ active[g] = Cardinality({a \in Actors : \E l \in has[a] : owned[a][l] = g})
                    /\ waiters[g] # {} => active[g] = Capacity(g)
                    /\ \A a \in waiters[g] : \E l \in Levels : owned[a][l] = g /\ Waits(a, l)
  BY DEF SlotsOwned
<1>1. /\ active[g] = Cardinality({a \in Actors : \E l \in has[a] : owned[a][l] = g})
      /\ waiters[g] # {} => active[g] = Capacity(g)
  BY DEF GitInv, LeaseInv, SlotsCounted, Holders
<1>2. ASSUME NEW a \in waiters[g] PROVE owned[a][at[a]] = g /\ at[a] \in Levels /\ Waits(a, at[a])
  BY GatesAssumption DEF GitInv, LeaseInv, Lines, InLine, Waits, AllGates
<1> QED
  BY <1>1, <1>2

(* No slot of a gate leaks and none is lost, nobody waits beside room, and  *)
(* a workspace, a project and the network have no more holders than they    *)
(* may (git-coordination.ts, with every way git-sync-service.ts leaves it). *)
THEOREM LeasesStaySound == Spec => []LeasesSound
<1>1. GitInv => TypeOK
  BY DEF GitInv, OperationsInv, JobTypeOK, TurnTypeOK, LeaseInv, TypeOK
<1>2. GitInv => LeasesSound
  BY <1>1, GitInvSlots, GitInvExclusive DEF LeasesSound
<1> QED
  BY <1>2, GitInvariant, PTL

----------------------------------------------------------------------------
(* Git and the turns.  A job that has found no live turn keeps every later  *)
(* one out of its workspace, from the moment it looked.                     *)
Inside == {"preparing", "project", "network", "fetched", "executing"}
Alone(o, t) == Cleared(o) /\ at[t] \in Inside /\ GitLeaseKey(o) = GitLeaseKey(t) => ~Live(t)
ClearedAlone == \A o \in Ops, t \in Turns : Alone(o, t)

(* Lease keys tell workspaces apart: a live turn of the same key is one the *)
(* job looks for.                                                          *)
LEMMA BusyFinds ==
  ASSUME NEW o \in Ops, NEW t \in Turns, kind[o] \in {"push", "commit", "update"},
         conv[o] \in Conversations, conv[t] \in Conversations, GitLeaseKey(o) = GitLeaseKey(t), Live(t)
  PROVE  Busy(o)
<1>1. t \notin Ops
  BY ActorsAssumption
<1>2. CASE conv[t] \in InPlace
  <2>1. GitLeaseKey(t) = ProjectOf[conv[t]] /\ GitLeaseKey(t) \notin Conversations
    BY <1>2, KeysAssumption DEF GitLeaseKey, Project
  <2>2. conv[o] \in InPlace \/ kind[o] = "update"
    BY <2>1 DEF GitLeaseKey
  <2>3. ProjectOf[conv[o]] = ProjectOf[conv[t]]
    BY <2>1, <2>2 DEF GitLeaseKey, Project
  <2> QED
    BY <1>2, <2>2, <2>3 DEF Busy, ActiveFor, InPlaceActive, Project
<1>3. CASE conv[t] \notin InPlace
  <2>1. GitLeaseKey(t) = conv[t]
    BY <1>1, <1>3 DEF GitLeaseKey
  <2>2. ~(conv[o] \in InPlace \/ kind[o] = "update") /\ conv[o] = conv[t]
    BY <2>1, KeysAssumption DEF GitLeaseKey, Project
  <2> QED
    BY <2>2 DEF Busy, ActiveFor, ConversationActive
<1> QED
  BY <1>2, <1>3

LEMMA SameGitKey ==
  ASSUME NEW a \in Actors, SameKey(a)
  PROVE  GitLeaseKey(a)' = GitLeaseKey(a)
BY DEF GitLeaseKey, Project, SameKey

LEMMA AloneKept ==
  ASSUME NEW o \in Ops, NEW t \in Turns, Alone(o, t),
         Cleared(o)' => Cleared(o), at'[t] \in Inside => at[t] \in Inside,
         SameKey(o) \/ ~Cleared(o)', SameKey(t) \/ at'[t] \notin Inside,
         row'[t] = row[t] \/ ~Live(t)'
  PROVE  Alone(o, t)'
<1> SUFFICES ASSUME Cleared(o)', at'[t] \in Inside, GitLeaseKey(o)' = GitLeaseKey(t)', Live(t)'
             PROVE  FALSE
  BY DEF Alone, Inside
<1>1. GitLeaseKey(o) = GitLeaseKey(t)
  BY SameGitKey, ActorsAssumption
<1>2. Live(t)
  BY DEF Live
<1> QED
  BY <1>1, <1>2 DEF Alone

(* The jobs: the points where they look again.                             *)
LEMMA JobsStayAlone ==
  ASSUME GitInv, ClearedAlone, NEW p \in Ops, JobStep(p), NEW o \in Ops, NEW t \in Turns
  PROVE  Alone(o, t)'
<1> USE ActorsAssumption
<1>1. /\ at \in [Actors -> Points] /\ Alone(o, t) /\ UNCHANGED <<conv, kind, row>>
      /\ \A a \in Actors : SameKey(a)
  BY GitTyped DEF GitInv, ClearedAlone, Typed, SameKey, JobStep, Refused, Admit, CommitSeeks,
     ChecksThread, SeeksProject, SeeksNetwork, Coalesces, Rechecks, Finishes, Completes, jobVars, turnVars
<1>2. \E q : at' = [at EXCEPT ![p] = q]
  BY DEF JobStep, Refused, Admit, CommitSeeks, Starts, ChecksThread, SeeksProject, SeeksNetwork,
         Coalesces, Rechecks, Finishes, Completes, Moves
<1>3. at'[t] = at[t] /\ \A r \in Ops \ {p} : at'[r] = at[r]
  BY <1>1, <1>2
<1>4. CASE o # p \/ ~Cleared(o)' \/ Cleared(o)
  <2>1. Cleared(o)' => Cleared(o)
    BY <1>1, <1>3, <1>4 DEF Cleared
  <2> QED
    BY <1>1, <1>3, <2>1, AloneKept
<1>5. CASE o = p /\ Cleared(o)' /\ ~Cleared(o)
  <2>1. kind[o] \in {"push", "commit", "update"}
    BY <1>1, <1>5 DEF Cleared
  <2>2. at'[p] \in {"project", "network", "rechecking", "writing"}
    BY <1>1, <1>5 DEF Cleared
  <2>3. ~Busy(o)
    <3>1. CASE ChecksThread(p)
      BY <1>5, <2>2, <1>1, <3>1 DEF ChecksThread, Moves
    <3>2. CASE SeeksProject(p)
      <4>1. at'[p] = "project" /\ kind[p] \in {"update", "fetch"}
        BY <3>2, <1>1, <2>2, GitTyped DEF SeeksProject, Moves, GitInv, ActorInv, Here, About
      <4> QED
        BY <4>1, <1>1, <1>5 DEF Cleared
    <3>3. CASE SeeksNetwork(p)
      BY <3>3, <1>5, <1>1, <2>1 DEF SeeksNetwork, Moves, Cleared
    <3>4. CASE Rechecks(p)
      <4>1. at[p] = "rechecking" /\ at'[p] = "writing" /\ ~Busy(p)
        BY <3>4, <1>1 DEF Rechecks, Moves
      <4> QED
        BY <4>1, <1>5
    <3>5. CASE \/ Refused(p) \/ Admit(p) \/ CommitSeeks(p) \/ Coalesces(p) \/ Finishes(p)
               \/ Completes(p)
      BY <3>5, <1>1, <2>2 DEF Refused, Admit, CommitSeeks, Starts, Coalesces, Finishes, Completes, Moves
    <3> QED
      BY <3>1, <3>2, <3>3, <3>4, <3>5 DEF JobStep
  <2>4. conv[o] \in Conversations
    <3>1. at[p] # "none"
      BY DEF JobStep, Refused, Admit, CommitSeeks, ChecksThread, SeeksProject, SeeksNetwork,
             Coalesces, Rechecks, Finishes, Completes, Keyed
    <3> QED
      BY <3>1, <1>5 DEF GitInv, ActorInv, Here, About
  <2>5. ASSUME at'[t] \in Inside, GitLeaseKey(o)' = GitLeaseKey(t)', Live(t)' PROVE FALSE
    <3>1. Live(t) /\ GitLeaseKey(o) = GitLeaseKey(t) /\ at[t] \in Inside
      BY <2>5, <1>1, <1>3, SameGitKey DEF Live
    <3>2. conv[t] \in Conversations
      BY <3>1 DEF GitInv, ActorInv, Here, About, Inside
    <3> QED
      BY <3>1, <3>2, <2>1, <2>3, <2>4, BusyFinds
  <2> QED
    BY <2>5 DEF Alone, Inside
<1> QED
  BY <1>4, <1>5

(* The turns: they pass a workspace only when they have it.                 *)
LEMMA TurnsStayAlone ==
  ASSUME GitInv, ClearedAlone, NEW s \in Turns, TurnStep(s), NEW o \in Ops, NEW t \in Turns
  PROVE  Alone(o, t)'
<1> USE ActorsAssumption
<1>1. /\ at \in [Actors -> Points] /\ Alone(o, t) /\ UNCHANGED <<conv, kind>>
      /\ \A a \in Actors : SameKey(a)
  BY GitTyped DEF GitInv, ClearedAlone, Typed, SameKey, TurnStep, TurnSeeks, TurnPasses, TurnPrepares,
     TurnFetches, TurnLaunches, TurnStops, TurnEnds, jobVars, turnVars
<1>2. \E q : at' = [at EXCEPT ![s] = q]
  BY DEF TurnStep, TurnSeeks, TurnPasses, TurnPrepares, TurnFetches, TurnLaunches, TurnStops,
         TurnEnds, Moves
<1>3. at'[o] = at[o] /\ \A r \in Turns \ {s} : at'[r] = at[r]
  BY <1>1, <1>2
<1>4. Cleared(o)' => Cleared(o)
  BY <1>1, <1>3 DEF Cleared
<1>5. row'[t] = row[t] \/ ~Live(t)'
  BY DEF GitInv, TurnTypeOK, TurnStep, TurnSeeks, TurnPasses, TurnPrepares, TurnFetches, TurnLaunches,
         TurnStops, TurnEnds, Live, turnVars
<1>6. CASE at'[t] \in Inside => at[t] \in Inside
  BY <1>1, <1>4, <1>5, <1>6, AloneKept
<1>7. CASE at'[t] \in Inside /\ at[t] \notin Inside
  <2>1. t = s /\ TurnPasses(t)
    <3>1. t = s
      BY <1>3, <1>7
    <3> QED
      BY <3>1, <1>1, <1>7 DEF TurnStep, TurnSeeks, TurnPrepares, TurnFetches, TurnLaunches, TurnStops,
                              TurnEnds, Moves, Inside
  <2>2. "workspace" \in has[t]
    BY <2>1 DEF TurnPasses
  <2>3. Cleared(o) => "workspace" \in has[o]
    BY DEF Cleared, GitInv, ActorInv, Here, HoldsInOrder
  <2>4. Cleared(o) => GitLeaseKey(o) # GitLeaseKey(t)
    BY <2>2, <2>3, GitInvExclusive DEF LeasesExclusive
  <2> QED
    BY <2>4, <1>1, <1>4, SameGitKey DEF Alone, Inside
<1> QED
  BY <1>6, <1>7

(* A turn becomes live outside every workspace.                             *)
LEMMA RowsStayAlone ==
  ASSUME GitInv, ClearedAlone, NEW s \in Turns,
         \/ TurnClaimed(s) \/ TurnCancelled(s) \/ TurnAborts(s)
         \/ \E c \in Conversations : TurnQueued(s, c),
         NEW o \in Ops, NEW t \in Turns
  PROVE  Alone(o, t)'
<1> USE ActorsAssumption
<1>1. /\ at \in [Actors -> Points] /\ Alone(o, t) /\ UNCHANGED kind
      /\ \A a \in Actors \ {s} : SameKey(a)
  BY GitTyped DEF GitInv, ClearedAlone, Typed, SameKey, TurnClaimed, TurnCancelled, TurnAborts,
     TurnQueued, jobVars
<1>2. at'[o] = at[o] /\ SameKey(o) /\ \A r \in Turns \ {s} : at'[r] = at[r] /\ row'[r] = row[r]
  BY <1>1 DEF TurnClaimed, TurnCancelled, TurnAborts, TurnQueued, Moves, GitInv, TurnTypeOK
<1>3. Cleared(o)' => Cleared(o)
  BY <1>1, <1>2 DEF Cleared
<1>4. at'[t] \in Inside => at[t] \in Inside
  <2>1. CASE t # s
    BY <2>1, <1>2
  <2>2. CASE t = s
    BY <2>2, <1>1 DEF TurnClaimed, TurnCancelled, TurnAborts, TurnQueued, Moves, Inside
  <2> QED
    BY <2>1, <2>2
<1>5. (SameKey(t) \/ at'[t] \notin Inside) /\ (row'[t] = row[t] \/ at'[t] \notin Inside \/ ~Live(t)')
  <2>1. CASE t # s
    BY <2>1, <1>1, <1>2
  <2>2. ASSUME t = s, NEW c \in Conversations, TurnQueued(s, c) PROVE at'[t] \notin Inside
    <3>1. at[s] = "none" /\ at' = at
      BY <2>2 DEF TurnQueued, GitInv, ActorInv, Here, About
    <3> QED
      BY <3>1, <2>2 DEF Inside
  <2>3. CASE t = s /\ TurnClaimed(s)
    BY <2>3, <1>1 DEF TurnClaimed, Moves, Inside
  <2>4. CASE t = s /\ TurnCancelled(s)
    BY <2>4 DEF TurnCancelled, SameKey, Live, GitInv, TurnTypeOK, jobVars
  <2>5. CASE t = s /\ TurnAborts(s)
    BY <2>5 DEF TurnAborts, SameKey, jobVars
  <2> QED
    BY <2>1, <2>2, <2>3, <2>4, <2>5
<1>6. CASE at'[t] \notin Inside
  BY <1>6 DEF Alone, Inside
<1>7. CASE at'[t] \in Inside
  BY <1>1, <1>2, <1>3, <1>4, <1>5, <1>7, AloneKept
<1> QED
  BY <1>6, <1>7

(* Everybody else goes on or out.                                          *)
LEMMA OthersStayAlone ==
  ASSUME GitInv, ClearedAlone, UNCHANGED <<conv, kind, row>>,
         \A a \in Actors : \/ at'[a] = at[a] \/ at'[a] = "unwinding"
                           \/ at[a] = "network" /\ at'[a] = "fetched" /\ a \in Turns
                           \/ at[a] = "network" /\ at'[a] = "rechecking" /\ a \in Ops /\ kind[a] = "update",
         NEW o \in Ops, NEW t \in Turns
  PROVE  Alone(o, t)'
<1> USE ActorsAssumption
<1>1. o \in Actors /\ t \in Actors /\ t \notin Ops /\ Alone(o, t) /\ SameKey(o) /\ SameKey(t)
  BY DEF ClearedAlone, SameKey
<1>2. Cleared(o)' => Cleared(o)
  BY <1>1 DEF Cleared
<1>3. at'[t] \in Inside => at[t] \in Inside
  BY <1>1 DEF Inside
<1> QED
  BY <1>1, <1>2, <1>3, AloneKept

LEMMA ClearedAloneStep == GitInv /\ ClearedAlone /\ [Next]_vars => ClearedAlone'
<1> SUFFICES ASSUME GitInv, ClearedAlone, [Next]_vars, NEW o \in Ops, NEW t \in Turns
             PROVE  Alone(o, t)'
  BY DEF ClearedAlone
<1> USE ActorsAssumption
<1> at \in [Actors -> Points]
  BY GitTyped DEF Typed
<1>1. ASSUME NEW p \in Ops, JobStep(p) PROVE Alone(o, t)'
  BY <1>1, JobsStayAlone
<1>2. ASSUME NEW p \in Ops, NEW d \in Kinds, NEW c \in Conversations, NEW k \in IdempotencyKeys,
             Ask(p, d, c, k)
      PROVE Alone(o, t)'
  <2>1. /\ at' = [at EXCEPT ![p] = "asking"] /\ UNCHANGED row
        /\ \A a \in Actors \ {p} : SameKey(a)
    BY <1>2, GitTyped DEF Ask, Moves, turnVars, SameKey, Typed
  <2>2. Cleared(o)' => o # p
    BY <2>1 DEF Cleared
  <2>3. Cleared(o)' => Cleared(o)
    BY <2>1, <2>2 DEF Cleared, SameKey
  <2>4. at'[t] = at[t] /\ SameKey(t) /\ (SameKey(o) \/ ~Cleared(o)')
    BY <2>1, <2>2
  <2> QED
    BY <2>1, <2>3, <2>4, AloneKept DEF ClearedAlone
<1>3. ASSUME NEW s \in Turns, TurnStep(s) PROVE Alone(o, t)'
  BY <1>3, TurnsStayAlone
<1>4. ASSUME NEW s \in Turns, \/ TurnClaimed(s) \/ TurnCancelled(s) \/ TurnAborts(s)
                              \/ \E c \in Conversations : TurnQueued(s, c)
      PROVE Alone(o, t)'
  BY <1>4, RowsStayAlone
<1>5. ASSUME NEW a \in Actors, TransferEnds(a) \/ WaitTimesOut(a) PROVE Alone(o, t)'
  BY <1>5, OthersStayAlone DEF TransferEnds, WaitTimesOut, Moves, jobVars, turnVars
<1>6. CASE \/ \E a \in Actors : Unwinds(a)
           \/ \E p \in Keys : FetchAges(p)
           \/ \E e \in Ops : Expires(e)
           \/ UNCHANGED vars
  <2>1. UNCHANGED <<at, conv, kind, row>>
    BY <1>6 DEF Unwinds, FetchAges, Expires, vars, jobVars, turnVars
  <2> QED
    BY <2>1, OthersStayAlone
<1>7. CASE Close
  <2>1. UNCHANGED <<conv, kind, row>> /\ \A a \in Actors : at'[a] \in {at[a], "unwinding"}
    BY <1>7 DEF Close, jobVars, turnVars
  <2> QED
    BY <2>1, OthersStayAlone
<1> QED
  BY <1>1, <1>2, <1>3, <1>4, <1>5, <1>6, <1>7 DEF Next, LeaseStep

(* Git never works in a workspace under a running provider, whichever of    *)
(* the two came first (git-sync-service.ts, active; git-coordination.ts,     *)
(* awaitWorkspace).                                                        *)
THEOREM GitStaysApart == Spec => []TurnsAndGitApart
<1>1. Init => ClearedAlone
  <2> SUFFICES ASSUME Init, NEW o \in Ops, NEW t \in Turns PROVE ~(at[t] \in Inside)
    BY DEF ClearedAlone, Alone
  <2> QED
    BY ActorsAssumption DEF Init, Inside
<1>2. GitInv /\ ClearedAlone => TurnsAndGitApart
  <2> SUFFICES ASSUME GitInv, ClearedAlone, NEW o \in Ops, NEW t \in Turns,
                      Cleared(o), at[t] = "executing", GitLeaseKey(o) = GitLeaseKey(t)
               PROVE  row[t] = "cancelled"
    BY DEF TurnsAndGitApart
  <2>1. ~Live(t)
    BY DEF ClearedAlone, Alone, Inside
  <2>2. row[t] \notin {"none", "ended"}
    BY ActorsAssumption DEF GitInv, ActorInv, Here, About
  <2> QED
    BY <2>1, <2>2 DEF Live, GitInv, TurnTypeOK
<1> QED
  BY <1>1, <1>2, GitInvariant, ClearedAloneStep, PTL DEF Spec
=============================================================================
