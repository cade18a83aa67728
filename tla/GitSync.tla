------------------------------- MODULE GitSync -------------------------------
(***************************************************************************)
(* application/git-sync-service.ts: fetch, update, push and commit, the     *)
(* retained operations with their idempotency keys, and the turns they      *)
(* share workspaces with (ExecutionService.run from the claim to the        *)
(* provider, with the origin fetch of a worktree's first turn).             *)
(* Every Git command may fail; a step is what runs between two awaits.      *)
(***************************************************************************)
EXTENDS GitCoordination

CONSTANTS Ops,                \* requests to fetch, update, push or commit
          Turns,
          Conversations,
          InPlace,            \* conversations working in the project's checkout
          ProjectOf,          \* conversation -> project
          IdempotencyKeys,
          RetainedOperations,
          MayClose            \* whether the runner may be stopped (bound)

ASSUME ActorsAssumption == Actors = Ops \cup Turns /\ Ops \cap Turns = {}
ASSUME KeysAssumption == /\ ProjectOf \in [Conversations -> Keys]
                         /\ Conversations \subseteq Keys /\ InPlace \subseteq Conversations
                         /\ \A c \in Conversations : ProjectOf[c] \notin Conversations
ASSUME OperationsAssumption == None \notin Ops /\ RetainedOperations \in Nat \ {0}

VARIABLES
  at,         \* actor -> its await point
  kind,       \* op -> "fetch", "update", "push" or "commit"
  conv,       \* actor -> conversation it is about (its project, for fetch and update)
  key,        \* op -> its idempotency key
  keys,       \* idempotency key -> retained operation
  operations, \* retained operations
  completed,  \* those that have ended
  row,        \* turn -> status of its row
  aborted,    \* turns whose signal is aborted
  fetched,    \* projects fetched within the coalescing time
  closed

jobVars  == <<kind, key, keys, operations, completed>>
turnVars == <<row, aborted>>
vars == <<leaseVars, at, conv, jobVars, turnVars, fetched, closed>>

Kinds == {"fetch", "update", "push", "commit"}
Points == {"none", "asking", "starting", "claimed", "preparing", "workspace", "project", "network",
           "rechecking", "writing", "fetched", "executing", "unwinding", "done"}

Init ==
  /\ LeaseInit
  /\ at = [a \in Actors |-> "none"] /\ conv = [a \in Actors |-> None]
  /\ kind = [o \in Ops |-> None] /\ key = [o \in Ops |-> None]
  /\ keys = [k \in IdempotencyKeys |-> None] /\ operations = {} /\ completed = {}
  /\ row = [t \in Turns |-> "none"] /\ aborted = {}
  /\ fetched = {} /\ closed = FALSE

Project(a) == ProjectOf[conv[a]]
Moves(a, p) == at' = [at EXCEPT ![a] = p]
Stopped(a) == IF a \in Ops THEN closed ELSE a \in aborted

(* gitLeaseKey: one key for all that work in the checkout of a project.     *)
GitLeaseKey(a) ==
  IF conv[a] \in InPlace \/ (a \in Ops /\ kind[a] = "update") THEN Project(a) ELSE conv[a]

----------------------------------------------------------------------------
(* Git jobs.                                                               *)

Live(t) == row[t] \in {"queued", "running"}
InPlaceActive(p) == \E t \in Turns : Live(t) /\ conv[t] \in InPlace /\ Project(t) = p
ConversationActive(c) == \E t \in Turns : Live(t) /\ conv[t] = c

(* active() of a thread, and the turns that make a checkout not updatable.  *)
ActiveFor(d, c) == \/ d # "update" /\ ConversationActive(c)
                   \/ (d = "update" \/ c \in InPlace) /\ InPlaceActive(ProjectOf[c])
Busy(o) == ActiveFor(kind[o], conv[o])

(* The request's own checks.  A commit goes straight for its lease and is   *)
(* no operation; the others are replayed by their key, and a push or an     *)
(* update is refused at once when a turn is live.                           *)
Ask(o, d, c, k) ==
  /\ at[o] = "none" /\ ~closed
  /\ d # "commit" => keys[k] = None
  /\ d \in {"push", "update"} => ~ActiveFor(d, c)
  /\ kind' = [kind EXCEPT ![o] = d] /\ conv' = [conv EXCEPT ![o] = c]
  /\ key' = [key EXCEPT ![o] = IF d = "commit" THEN None ELSE k]
  /\ Moves(o, "asking")
  /\ UNCHANGED <<leaseVars, keys, operations, completed, turnVars, fetched, closed>>

Refused(o) ==
  /\ at[o] = "asking" /\ Moves(o, "done")
  /\ UNCHANGED <<leaseVars, conv, jobVars, turnVars, fetched, closed>>

Forgetting(S) == [k \in IdempotencyKeys |-> IF keys[k] \in S THEN None ELSE keys[k]]

(* admit(): replays the key again, makes room, and runs the job up to its   *)
(* first await; a fetch looks at the checkout first, the others take their  *)
(* workspace.                                                               *)
Starts(o) ==
  IF kind[o] = "fetch" THEN Moves(o, "starting") /\ UNCHANGED leaseVars
  ELSE Moves(o, "workspace") /\ Run(o, "workspace", GitLeaseKey(o))

(* Mutant: the key is looked up before the request's checks only.           *)
AdmitUnseen(o) ==
  /\ at[o] = "asking" /\ ~closed /\ kind[o] # "commit"
  /\ \E S \in {{}} \cup {{e} : e \in completed} :
       /\ S = {} <=> Cardinality(operations) < RetainedOperations
       /\ operations' = (operations \ S) \cup {o} /\ completed' = completed \ S
       /\ keys' = [Forgetting(S) EXCEPT ![key[o]] = o]
  /\ Starts(o)
  /\ UNCHANGED <<conv, kind, key, turnVars, fetched, closed>>

(* Mutant: the oldest operation makes room, ended or not.                   *)
AdmitEvicting(o) ==
  /\ at[o] = "asking" /\ ~closed /\ kind[o] # "commit" /\ keys[key[o]] = None
  /\ \E S \in {{}} \cup {{e} : e \in operations} :
       /\ S = {} <=> Cardinality(operations) < RetainedOperations
       /\ operations' = (operations \ S) \cup {o} /\ completed' = completed \ S
       /\ keys' = [Forgetting(S) EXCEPT ![key[o]] = o]
  /\ Starts(o)
  /\ UNCHANGED <<conv, kind, key, turnVars, fetched, closed>>

Admit(o) ==
  /\ at[o] = "asking" /\ ~closed /\ kind[o] # "commit" /\ keys[key[o]] = None
  /\ \E S \in {{}} \cup {{e} : e \in completed} :
       /\ S = {} <=> Cardinality(operations) < RetainedOperations
       /\ operations' = (operations \ S) \cup {o} /\ completed' = completed \ S
       /\ keys' = [Forgetting(S) EXCEPT ![key[o]] = o]
  /\ Starts(o)
  /\ UNCHANGED <<conv, kind, key, turnVars, fetched, closed>>

Expires(e) ==
  /\ e \in completed
  /\ operations' = operations \ {e} /\ completed' = completed \ {e} /\ keys' = Forgetting({e})
  /\ UNCHANGED <<leaseVars, at, conv, kind, key, turnVars, fetched, closed>>

CommitSeeks(o) ==
  /\ at[o] = "asking" /\ ~closed /\ kind[o] = "commit"
  /\ Starts(o)
  /\ UNCHANGED <<conv, jobVars, turnVars, fetched, closed>>

(* Mutant: the request's check is good enough for the job.                  *)
ChecksThreadEarly(o) ==
  /\ at[o] = "workspace" /\ "workspace" \in has[o] /\ kind[o] \in {"push", "commit"}
  /\ IF closed THEN Moves(o, "unwinding") /\ UNCHANGED leaseVars
     ELSE IF kind[o] = "commit" THEN Moves(o, "writing") /\ UNCHANGED leaseVars
     ELSE Moves(o, "project") /\ Run(o, "project", Project(o))
  /\ UNCHANGED <<conv, jobVars, turnVars, fetched, closed>>

(* Push and commit look for live turns again once they have the workspace.  *)
ChecksThread(o) ==
  /\ at[o] = "workspace" /\ "workspace" \in has[o] /\ kind[o] \in {"push", "commit"}
  /\ IF closed \/ Busy(o) THEN Moves(o, "unwinding") /\ UNCHANGED leaseVars
     ELSE IF kind[o] = "commit" THEN Moves(o, "writing") /\ UNCHANGED leaseVars
     ELSE Moves(o, "project") /\ Run(o, "project", Project(o))
  /\ UNCHANGED <<conv, jobVars, turnVars, fetched, closed>>

(* Update takes the project at once and looks only then; fetch has looked   *)
(* at the checkout.                                                         *)
SeeksProject(o) ==
  /\ \/ at[o] = "workspace" /\ "workspace" \in has[o] /\ kind[o] = "update"
     \/ at[o] = "starting"
  /\ IF closed THEN Moves(o, "unwinding") /\ UNCHANGED leaseVars
     ELSE Moves(o, "project") /\ Run(o, "project", Project(o))
  /\ UNCHANGED <<conv, jobVars, turnVars, fetched, closed>>

(* Inside the project: fetchHeld, for a push the network itself.  A recent  *)
(* fetch spares a fetch its own, never an update.                           *)
SeeksNetwork(o) ==
  /\ at[o] = "project" /\ "project" \in has[o] /\ ~closed
  /\ kind[o] = "update" => ~Busy(o)
  /\ Moves(o, "network") /\ AcquireNetwork(o)
  /\ UNCHANGED <<conv, jobVars, turnVars, fetched, closed>>

Coalesces(o) ==
  /\ at[o] = "project" /\ "project" \in has[o] /\ kind[o] = "fetch" /\ Project(o) \in fetched
  /\ Moves(o, "unwinding")
  /\ UNCHANGED <<leaseVars, conv, jobVars, turnVars, fetched, closed>>

(* The transfer of an operation or of a turn ends, well or not.             *)
TransferEnds(a) ==
  /\ at[a] = "network" /\ "network" \in has[a]
  /\ Leave(a, "network")
  /\ \/ /\ ~Stopped(a)
        /\ Moves(a, IF a \in Turns THEN "fetched"
                    ELSE IF kind[a] = "update" THEN "rechecking" ELSE "unwinding")
        /\ fetched' = IF a \in Ops /\ kind[a] = "push" THEN fetched ELSE fetched \cup {Project(a)}
     \/ Moves(a, "unwinding") /\ UNCHANGED fetched
  /\ UNCHANGED <<conv, jobVars, turnVars, closed>>

FetchAges(p) ==
  /\ p \in fetched /\ fetched' = fetched \ {p}
  /\ UNCHANGED <<leaseVars, at, conv, jobVars, turnVars, closed>>

Rechecks(o) ==
  /\ at[o] = "rechecking" /\ ~closed /\ ~Busy(o)
  /\ Moves(o, "writing")
  /\ UNCHANGED <<leaseVars, conv, jobVars, turnVars, fetched, closed>>

(* A job inside its leases fails, finds nothing to do, or has written.      *)
Finishes(o) ==
  /\ \/ at[o] \in {"starting", "rechecking", "writing"}
     \/ at[o] \in Keyed /\ at[o] \in has[o]
  /\ Moves(o, "unwinding")
  /\ UNCHANGED <<leaseVars, conv, jobVars, turnVars, fetched, closed>>

(* The wait for a workspace has a limit of its own, and an update's         *)
(* deadline covers its wait for the network.                                *)
WaitTimesOut(a) ==
  /\ \/ at[a] = "workspace" /\ Waits(a, "workspace")
     \/ a \in Ops /\ kind[a] = "update" /\ at[a] = "network" /\ Waits(a, "network")
  /\ Cancel({a}) /\ Moves(a, "unwinding")
  /\ UNCHANGED <<conv, jobVars, turnVars, fetched, closed>>

Inner(a) == IF owned[a]["network"] # None THEN "network"
            ELSE IF owned[a]["project"] # None THEN "project" ELSE "workspace"

Unwinds(a) ==
  /\ at[a] = "unwinding" /\ owned[a][Inner(a)] # None
  /\ Leave(a, Inner(a))
  /\ UNCHANGED <<at, conv, jobVars, turnVars, fetched, closed>>

Completes(o) ==
  /\ at[o] = "unwinding" /\ owned[o][Inner(o)] = None
  /\ Moves(o, "done")
  /\ completed' = IF o \in operations THEN completed \cup {o} ELSE completed
  /\ UNCHANGED <<leaseVars, conv, kind, key, keys, operations, turnVars, fetched, closed>>

(* close() aborts the lifetime signal of every job at once.                 *)
Waiting == {o \in Ops : at[o] \in Levels /\ Waits(o, at[o])}
Close ==
  /\ MayClose /\ ~closed /\ closed' = TRUE
  /\ Cancel(Waiting)
  /\ at' = [a \in Actors |-> IF a \in Waiting THEN "unwinding" ELSE at[a]]
  /\ UNCHANGED <<conv, jobVars, turnVars, fetched>>

----------------------------------------------------------------------------
(* Turns.                                                                  *)

TurnQueued(t, c) ==
  /\ row[t] = "none"
  /\ row' = [row EXCEPT ![t] = "queued"] /\ conv' = [conv EXCEPT ![t] = c]
  /\ UNCHANGED <<leaseVars, at, jobVars, aborted, fetched, closed>>

TurnClaimed(t) ==
  /\ row[t] = "queued" /\ Moves(t, "claimed")
  /\ row' = [row EXCEPT ![t] = "running"]
  /\ UNCHANGED <<leaseVars, conv, jobVars, aborted, fetched, closed>>

(* cancelTask writes the row first; the signal follows.                     *)
TurnCancelled(t) ==
  /\ Live(t) /\ row' = [row EXCEPT ![t] = "cancelled"]
  /\ UNCHANGED <<leaseVars, at, conv, jobVars, aborted, fetched, closed>>

TurnAborts(t) ==
  /\ row[t] = "cancelled" /\ at[t] # "none" /\ t \notin aborted
  /\ aborted' = aborted \cup {t}
  /\ IF at[t] \in Levels /\ Waits(t, at[t])
     THEN Cancel({t}) /\ Moves(t, "unwinding")
     ELSE UNCHANGED <<leaseVars, at>>
  /\ UNCHANGED <<conv, jobVars, row, fetched, closed>>

TurnSeeks(t) ==
  /\ at[t] = "claimed" /\ row[t] = "running"
  /\ Moves(t, "workspace") /\ Run(t, "workspace", GitLeaseKey(t))
  /\ UNCHANGED <<conv, jobVars, turnVars, fetched, closed>>

(* awaitWorkspace gives the workspace back as soon as it has it.            *)
TurnPasses(t) ==
  /\ at[t] = "workspace" /\ "workspace" \in has[t]
  /\ Leave(t, "workspace") /\ Moves(t, "preparing")
  /\ UNCHANGED <<conv, jobVars, turnVars, fetched, closed>>

TurnPrepares(t) ==
  /\ at[t] = "preparing" /\ t \notin aborted
  /\ \/ Moves(t, "executing") /\ UNCHANGED leaseVars
     \/ conv[t] \notin InPlace /\ Moves(t, "project") /\ Run(t, "project", Project(t))
  /\ UNCHANGED <<conv, jobVars, turnVars, fetched, closed>>

TurnFetches(t) ==
  /\ at[t] = "project" /\ "project" \in has[t]
  /\ \/ Project(t) \in fetched /\ Moves(t, "fetched") /\ UNCHANGED leaseVars
     \/ t \notin aborted /\ Moves(t, "network") /\ AcquireNetwork(t)
  /\ UNCHANGED <<conv, jobVars, turnVars, fetched, closed>>

TurnLaunches(t) ==
  /\ at[t] = "fetched"
  /\ Leave(t, "project")
  /\ Moves(t, IF t \in aborted THEN "unwinding" ELSE "executing")
  /\ UNCHANGED <<conv, jobVars, turnVars, fetched, closed>>

(* The provider has ended, or a step before it failed.                      *)
TurnStops(t) ==
  /\ \/ at[t] \in {"claimed", "preparing", "executing"}
     \/ at[t] = "project" /\ "project" \in has[t]
  /\ Moves(t, "unwinding")
  /\ UNCHANGED <<leaseVars, conv, jobVars, turnVars, fetched, closed>>

TurnEnds(t) ==
  /\ at[t] = "unwinding" /\ owned[t][Inner(t)] = None
  /\ Moves(t, "done")
  /\ row' = [row EXCEPT ![t] = IF @ = "running" THEN "ended" ELSE @]
  /\ UNCHANGED <<leaseVars, conv, jobVars, aborted, fetched, closed>>

----------------------------------------------------------------------------

JobStep(o) == \/ Refused(o) \/ Admit(o) \/ CommitSeeks(o) \/ ChecksThread(o) \/ SeeksProject(o)
              \/ SeeksNetwork(o) \/ Coalesces(o) \/ Rechecks(o) \/ Finishes(o) \/ Completes(o)
TurnStep(t) == \/ TurnSeeks(t) \/ TurnPasses(t) \/ TurnPrepares(t) \/ TurnFetches(t)
               \/ TurnLaunches(t) \/ TurnStops(t) \/ TurnEnds(t)
LeaseStep(a) == TransferEnds(a) \/ Unwinds(a)

Next == \/ \E o \in Ops : \/ JobStep(o) \/ Expires(o)
                          \/ \E d \in Kinds, c \in Conversations, k \in IdempotencyKeys : Ask(o, d, c, k)
        \/ \E t \in Turns : \/ TurnStep(t) \/ TurnClaimed(t) \/ TurnCancelled(t) \/ TurnAborts(t)
                            \/ \E c \in Conversations : TurnQueued(t, c)
        \/ \E a \in Actors : LeaseStep(a) \/ WaitTimesOut(a)
        \/ \E p \in Keys : FetchAges(p)
        \/ Close

Spec == Init /\ [][Next]_vars

(* Git commands and provider turns end, and so do the jobs between them; a  *)
(* wait is never assumed to time out and nothing is obliged to start.       *)
Fairness == /\ \A o \in Ops : WF_vars(JobStep(o))
            /\ \A t \in Turns : WF_vars(TurnStep(t))
            /\ \A a \in Actors : WF_vars(LeaseStep(a))
FairSpec == Spec /\ Fairness

----------------------------------------------------------------------------
(* Properties.                                                             *)

TypeOK ==
  /\ LeaseTypeOK
  /\ at \in [Actors -> Points] /\ conv \in [Actors -> Conversations \cup {None}]
  /\ kind \in [Ops -> Kinds \cup {None}] /\ key \in [Ops -> IdempotencyKeys \cup {None}]
  /\ keys \in [IdempotencyKeys -> Ops \cup {None}]
  /\ completed \subseteq operations /\ operations \subseteq Ops
  /\ row \in [Turns -> {"none", "queued", "running", "cancelled", "ended"}]
  /\ aborted \subseteq Turns /\ closed \in BOOLEAN

(* A lease key has one holder, although gates come and go with their users; *)
(* so a project has one network operation, and all projects together no     *)
(* more than NetworkOperations.                                             *)
LeasesExclusive ==
  /\ \A a, b \in Actors : a # b =>
       /\ "workspace" \in has[a] \cap has[b] => GitLeaseKey(a) # GitLeaseKey(b)
       /\ "project" \in has[a] \cap has[b] => Project(a) # Project(b)
  /\ Cardinality({a \in Actors : "network" \in has[a]}) <= NetworkOperations
  /\ \A a \in Actors : "network" \in has[a] => "project" \in has[a]

(* The leases as a whole: a slot belongs to somebody and a key to one.     *)
LeasesSound == TypeOK /\ SlotsOwned /\ LeasesExclusive

(* Git never works in a workspace under a running provider: a job that has  *)
(* found no live turn keeps every later turn of that workspace waiting.     *)
(* Only a cancelled turn may still be on its way out.                       *)
Cleared(o) == CASE kind[o] = "push"   -> at[o] \in {"project", "network"}
                [] kind[o] = "commit" -> at[o] = "writing"
                [] kind[o] = "update" -> at[o] \in {"network", "rechecking", "writing"}
                [] OTHER -> FALSE
TurnsAndGitApart ==
  \A o \in Ops, t \in Turns :
    (Cleared(o) /\ at[t] = "executing" /\ GitLeaseKey(o) = GitLeaseKey(t)) => row[t] = "cancelled"

(* An idempotency key stands for one job at a time: of the operations under *)
(* way no two have the same key, and each is found under its key.           *)
Running == {o \in Ops : kind[o] # "commit" /\ at[o] \in Points \ {"none", "asking", "done"}}
OneOperationPerKey == \A o \in Running : keys[key[o]] = o

(* The map never outgrows its limit and never drops what is under way.      *)
RetainsRunning == Running \subseteq operations /\ Cardinality(operations) <= RetainedOperations

(* What a retry relies on: OneOperationPerKey, RetainsRunning.             *)
OperationsKept == OneOperationPerKey /\ RetainsRunning

(* The order workspace, project, network leaves no job waiting for ever,    *)
(* whatever turns and other jobs do, without any timeout.                   *)
JobsEnd == \A o \in Ops : (at[o] = "workspace") ~> (at[o] = "done")
=============================================================================
