-------------------------- MODULE ExecutionService --------------------------
(***************************************************************************)
(* application/execution-service.ts over the durable store: one admission  *)
(* pump (wake/drain) that promotes and claims queued turns, bounded        *)
(* concurrent runs (launch/run), Stop, shutdown, crash and restart.        *)
(*                                                                         *)
(* A step is what the code does between two awaits.  A store request is    *)
(* its transaction; where the code re-reads its own state after an answer, *)
(* the transaction and the handling of the answer are two steps.           *)
(***************************************************************************)
EXTENDS RunnerStore

CONSTANTS Concurrency,  \* size of the worker pool
          MaxStarts,    \* bound: how often the process is started
          StoreMayFail, \* whether storage may refuse the pump or a final write
          MayFence      \* whether a maintenance lease may be taken

ASSUME ConcurrencyAssumption == Concurrency \in Nat \ {0}
ASSUME MaxStartsAssumption == MaxStarts \in Nat
ASSUME SwitchesAssumption == StoreMayFail \in BOOLEAN /\ MayFence \in BOOLEAN

VARIABLES
  process,        \* "down", "up", or a stage of close()
  workerFailure,  \* admission stopped after a storage failure
  fenced,         \* a maintenance lease holds admission (WorkAdmission.fenced)
  pump,           \* await point of the drain() loop, "idle" when worker is undefined
  claimed,        \* answer of claimNextTask not yet handled by the pump
  wakeRequested,
  wakeOwed,       \* an answer or an onOpen announcement that will call wake()
  phase,          \* task -> await point of its run, "none" when not active
  predecessors,   \* task -> active turns of its conversation when launched
  aborted,        \* tasks whose AbortController has fired
  result,         \* task -> outcome its run will record
  stopping,       \* tasks whose cancel() has been committed, its abort not yet sent
  reaping,        \* snapshot of active runs that close() awaits
  begun,          \* history: turns whose provider has been started
  starts          \* history: process starts so far

pumpVars == <<pump, claimed, wakeRequested, wakeOwed>>
runVars  == <<phase, predecessors, aborted, result, begun>>
lifeVars == <<process, workerFailure, fenced, stopping, reaping, starts>>
vars     == <<storeVars, pumpVars, runVars, lifeVars>>

Processes  == {"down", "up", "closing", "reaping", "closed"}
PumpPoints == {"idle", "promoting", "promoted", "claiming", "answered"}
Phases     == {"none", "waiting", "checking", "setup", "executing", "settling",
               "finishing", "releasing"}

TypeOK ==
  /\ StoreTypeOK
  /\ process \in Processes
  /\ workerFailure \in BOOLEAN /\ fenced \in BOOLEAN
  /\ pump \in PumpPoints
  /\ claimed \in Tasks \cup {None}
  /\ wakeRequested \in BOOLEAN /\ wakeOwed \in BOOLEAN
  /\ phase \in [Tasks -> Phases]
  /\ predecessors \in [Tasks -> SUBSET Tasks]
  /\ aborted \in SUBSET Tasks
  /\ result \in [Tasks -> Results \cup {None, "unrecorded"}]
  /\ stopping \in SUBSET Tasks /\ reaping \in SUBSET Tasks
  /\ begun \in SUBSET Tasks
  /\ starts \in Nat

Active == {t \in Tasks : phase[t] # "none"}

Idle == [t \in Tasks |-> "none"]
Init ==
  /\ StoreInit
  /\ process = "down" /\ workerFailure = FALSE /\ fenced = FALSE
  /\ pump = "idle" /\ claimed = None /\ wakeRequested = FALSE /\ wakeOwed = FALSE
  /\ phase = Idle
  /\ predecessors = [t \in Tasks |-> {}]
  /\ result = [t \in Tasks |-> None]
  /\ aborted = {} /\ stopping = {} /\ reaping = {}
  /\ begun = {} /\ starts = 0

----------------------------------------------------------------------------
(* The pump.                                                               *)

Available == process = "up" /\ ~workerFailure      \* assertAvailable
MayAdmit  == Available /\ ~fenced                  \* drain() goes on

(* drain() starts, or loops, when a slot is free: its first statements     *)
(* reset wakeRequested and send promotePending.                            *)
Drain == pump' = "promoting" /\ wakeRequested' = FALSE

(* wake() with the pump idle; `running' is the set of active runs left.    *)
Wake(running) ==
  IF pump = "idle" /\ MayAdmit /\ Cardinality(running) < Concurrency
  THEN Drain
  ELSE wakeRequested' = TRUE /\ UNCHANGED pump

(* drain() returned: worker is cleared and a wake asked for meanwhile is   *)
(* served if a slot is free.                                               *)

(* Mutant: the worker is cleared and the request to wake is forgotten.     *)
PumpEndsQuietly(running) == pump' = "idle" /\ UNCHANGED wakeRequested

PumpEnds(running) ==
  IF wakeRequested /\ MayAdmit /\ Cardinality(running) < Concurrency
  THEN Drain
  ELSE pump' = "idle" /\ UNCHANGED wakeRequested

DeliverWake ==
  /\ process # "down" /\ wakeOwed
  /\ wakeOwed' = FALSE
  /\ Wake(Active)
  /\ UNCHANGED claimed /\ UNCHANGED storeVars /\ UNCHANGED runVars /\ UNCHANGED lifeVars

PumpPromote ==
  /\ pump = "promoting"
  /\ PromotePending
  /\ pump' = "promoted"
  /\ UNCHANGED <<claimed, wakeRequested, wakeOwed>> /\ UNCHANGED runVars /\ UNCHANGED lifeVars

(* Closing, a failure or a fence seen after the answer ends the pump.      *)
PumpPromoted ==
  /\ pump = "promoted"
  /\ IF MayAdmit THEN pump' = "claiming" /\ UNCHANGED wakeRequested ELSE PumpEnds(Active)
  /\ UNCHANGED <<claimed, wakeOwed>> /\ UNCHANGED storeVars /\ UNCHANGED runVars
  /\ UNCHANGED lifeVars

PumpClaim ==
  /\ pump = "claiming"
  /\ pump' = "answered"
  /\ \/ Queued = {} /\ claimed' = None /\ UNCHANGED storeVars
     \/ \E t \in Tasks : ClaimNextTask(t) /\ claimed' = t
  /\ UNCHANGED <<wakeRequested, wakeOwed>> /\ UNCHANGED runVars /\ UNCHANGED lifeVars

PumpFoundNothing ==
  /\ pump = "answered" /\ claimed = None
  /\ PumpEnds(Active)
  /\ UNCHANGED <<claimed, wakeOwed>> /\ UNCHANGED storeVars /\ UNCHANGED runVars
  /\ UNCHANGED lifeVars

(* Mutant: a turn does not wait for the others of its conversation.        *)
NoPredecessors(t) == {}

(* A claimed turn is always launched, already aborted when the service is  *)
(* closing or has failed, so that its row gets an end.                     *)
SameConversation(t) == {s \in Active : root[s] = root[t]}
Launch(t) ==
  /\ phase' = [phase EXCEPT ![t] = "waiting"]
  /\ predecessors' = [predecessors EXCEPT ![t] = SameConversation(t)]
  /\ aborted' = IF Available THEN aborted ELSE aborted \cup {t}

(* Mutant: the loop claims on while anything may be admitted.              *)
PumpLaunchUnbounded ==
  /\ pump = "answered" /\ claimed # None
  /\ Launch(claimed)
  /\ claimed' = None
  /\ IF MayAdmit THEN Drain ELSE PumpEnds(Active \cup {claimed})
  /\ UNCHANGED <<wakeOwed, result, begun>> /\ UNCHANGED storeVars /\ UNCHANGED lifeVars

PumpLaunch ==
  /\ pump = "answered" /\ claimed # None
  /\ Launch(claimed)
  /\ claimed' = None
  /\ LET running == Active \cup {claimed} IN
       IF MayAdmit /\ Cardinality(running) < Concurrency THEN Drain ELSE PumpEnds(running)
  /\ UNCHANGED <<wakeOwed, result, begun>> /\ UNCHANGED storeVars /\ UNCHANGED lifeVars

(* Storage refuses the request, or dies after it was done and before its   *)
(* answer is heard: then a claimed row has no run.                         *)
PumpFails ==
  /\ StoreMayFail /\ pump # "idle"
  /\ workerFailure' = TRUE
  /\ pump' = "idle" /\ claimed' = None
  /\ UNCHANGED <<wakeRequested, wakeOwed>> /\ UNCHANGED storeVars /\ UNCHANGED runVars
  /\ UNCHANGED <<process, fenced, stopping, reaping, starts>>

----------------------------------------------------------------------------
(* One run: launch()'s completion chain and run().                         *)

Moves(t, from, to) == phase[t] = from /\ phase' = [phase EXCEPT ![t] = to]

(* All predecessors have settled: run() opens steering and reads the row.  *)
RunStarts(t) ==
  /\ Moves(t, "waiting", "checking")
  /\ predecessors[t] \cap Active = {}
  /\ aborted' = IF Available THEN aborted ELSE aborted \cup {t}
  /\ UNCHANGED <<predecessors, result, begun>> /\ UNCHANGED storeVars /\ UNCHANGED pumpVars
  /\ UNCHANGED lifeVars

(* Mutant: only the abort signal is looked at, not the row.                *)
RunChecksSignalOnly(t) ==
  /\ phase[t] = "checking"
  /\ IF t \in aborted
     THEN phase' = [phase EXCEPT ![t] = "settling"] /\ result' = [result EXCEPT ![t] = "failed"]
     ELSE phase' = [phase EXCEPT ![t] = "setup"] /\ UNCHANGED result
  /\ UNCHANGED <<predecessors, aborted, begun>> /\ UNCHANGED storeVars /\ UNCHANGED pumpVars
  /\ UNCHANGED lifeVars

(* A row no longer running ends the run without a result.                  *)
RunChecks(t) ==
  /\ phase[t] = "checking"
  /\ IF status[t] # "running"
     THEN phase' = [phase EXCEPT ![t] = "releasing"] /\ UNCHANGED result
     ELSE IF t \in aborted
     THEN phase' = [phase EXCEPT ![t] = "settling"] /\ result' = [result EXCEPT ![t] = "failed"]
     ELSE phase' = [phase EXCEPT ![t] = "setup"] /\ UNCHANGED result
  /\ UNCHANGED <<predecessors, aborted, begun>> /\ UNCHANGED storeVars /\ UNCHANGED pumpVars
  /\ UNCHANGED lifeVars

(* Git lease, workspace, instructions, attachments and the start snapshot, *)
(* the signal read after each: the provider is not started once aborted.   *)
ProviderStarts(t) ==
  /\ t \notin aborted
  /\ Moves(t, "setup", "executing")
  /\ begun' = begun \cup {t}
  /\ UNCHANGED <<predecessors, aborted, result>> /\ UNCHANGED storeVars /\ UNCHANGED pumpVars
  /\ UNCHANGED lifeVars

SetupFails(t) ==
  /\ phase[t] = "setup" \/ (phase[t] = "checking" /\ StoreMayFail)
  /\ phase' = [phase EXCEPT ![t] = "settling"]
  /\ result' = [result EXCEPT ![t] = "failed"]
  /\ UNCHANGED <<predecessors, aborted, begun>> /\ UNCHANGED storeVars /\ UNCHANGED pumpVars
  /\ UNCHANGED lifeVars

ProviderReportsSession(t) ==
  /\ phase[t] = "executing" /\ t \notin aborted
  /\ CaptureSession(t)
  /\ UNCHANGED pumpVars /\ UNCHANGED runVars /\ UNCHANGED lifeVars

ProviderExits(t, outcome) ==
  /\ Moves(t, "executing", "settling")
  /\ result' = [result EXCEPT ![t] = outcome]
  /\ UNCHANGED <<predecessors, aborted, begun>> /\ UNCHANGED storeVars /\ UNCHANGED pumpVars
  /\ UNCHANGED lifeVars

(* The result's session is stored in any case, its end only if the service *)
(* is not closing (close() then marks the row interrupted).  A refused     *)
(* write on the way (session, subagents, previews) fails the turn.         *)
RunSettles(t) ==
  /\ Moves(t, "settling", IF process = "up" THEN "finishing" ELSE "releasing")
  /\ UNCHANGED storeVars \/ (t \in begun /\ CaptureSession(t))
  /\ UNCHANGED result \/ (t \in begun /\ result' = [result EXCEPT ![t] = "failed"])
  /\ UNCHANGED <<predecessors, aborted, begun>> /\ UNCHANGED pumpVars
  /\ UNCHANGED lifeVars

RunFinishes(t) ==
  /\ Moves(t, "finishing", "releasing")
  /\ FinishTask(t, result[t])
  /\ UNCHANGED <<predecessors, aborted, result, begun>> /\ UNCHANGED pumpVars
  /\ UNCHANGED lifeVars

(* finishTask was refused or done without being heard, and refused again   *)
(* for the failure the run then tries to record: the run still cleans up   *)
(* before it stops admission.                                              *)
RunFinishFails(t) ==
  /\ StoreMayFail
  /\ Moves(t, "finishing", "releasing")
  /\ result' = [result EXCEPT ![t] = "unrecorded"]
  /\ UNCHANGED storeVars \/ FinishTask(t, result[t])
  /\ UNCHANGED <<predecessors, aborted, begun>>
  /\ UNCHANGED pumpVars /\ UNCHANGED lifeVars

(* The finally blocks, then active.delete and wake().  An end that was not *)
(* recorded, or a cleanup that throws, stops admission.                    *)
RunReleases(t) ==
  /\ Moves(t, "releasing", "none")
  /\ predecessors' = [predecessors EXCEPT ![t] = {}]
  /\ aborted' = aborted \ {t}
  /\ result' = [result EXCEPT ![t] = None]
  /\ \/ /\ result[t] = "unrecorded" \/ StoreMayFail
        /\ workerFailure' = TRUE /\ wakeRequested' = TRUE /\ UNCHANGED pump
     \/ result[t] # "unrecorded" /\ Wake(Active \ {t}) /\ UNCHANGED workerFailure
  /\ UNCHANGED <<claimed, wakeOwed, begun>> /\ UNCHANGED storeVars
  /\ UNCHANGED <<process, fenced, stopping, reaping, starts>>

----------------------------------------------------------------------------
(* Calls of clients.                                                       *)

Idles == UNCHANGED runVars /\ UNCHANGED lifeVars
Admits == Available /\ wakeOwed' = TRUE /\ UNCHANGED <<pump, claimed, wakeRequested>> /\ Idles

Create(t) == process # "down" /\ CreateTask(t) /\ UNCHANGED pumpVars /\ Idles
Start(t) == Admits /\ QueueTask(t)
Continue(t, u) == Admits /\ ContinueTask(t, u)
Enqueue(m, t) == Admits /\ EnqueuePending(m, t)
Resume(t) == Admits /\ ResumePending(t)
Remove(m) == Available /\ RemovePending(m) /\ UNCHANGED pumpVars /\ Idles

(* cancel(): the row first, then the controller of the run if it has one.  *)
Cancel(t) ==
  /\ process # "down"
  /\ CancelTask(t)
  /\ stopping' = IF status'[t] = "cancelled" THEN stopping \cup {t} ELSE stopping
  /\ UNCHANGED pumpVars /\ UNCHANGED runVars
  /\ UNCHANGED <<process, workerFailure, fenced, reaping, starts>>

CancelAborts(t) ==
  /\ t \in stopping
  /\ stopping' = stopping \ {t}
  /\ aborted' = IF t \in Active THEN aborted \cup {t} ELSE aborted
  /\ UNCHANGED <<phase, predecessors, result, begun>> /\ UNCHANGED storeVars
  /\ UNCHANGED pumpVars /\ UNCHANGED <<process, workerFailure, fenced, reaping, starts>>

(* The maintenance lease, taken and given back.                            *)
Fence ==
  /\ MayFence /\ process # "down" /\ ~fenced /\ fenced' = TRUE
  /\ UNCHANGED storeVars /\ UNCHANGED pumpVars /\ UNCHANGED runVars
  /\ UNCHANGED <<process, workerFailure, stopping, reaping, starts>>

Unfence ==
  /\ fenced /\ fenced' = FALSE
  /\ wakeOwed' = (wakeOwed \/ process = "up")
  /\ UNCHANGED <<pump, claimed, wakeRequested>> /\ UNCHANGED storeVars /\ UNCHANGED runVars
  /\ UNCHANGED <<process, workerFailure, stopping, reaping, starts>>

----------------------------------------------------------------------------
(* Start, shutdown and crash of the process.                               *)

(* Mutant: the rows a crash left running are not interrupted.              *)
InitializeOnly ==
  /\ process = "down" /\ starts < MaxStarts
  /\ process' = "up" /\ starts' = starts + 1
  /\ wakeOwed' = TRUE
  /\ UNCHANGED <<pump, claimed, wakeRequested>> /\ UNCHANGED storeVars /\ UNCHANGED runVars
  /\ UNCHANGED <<workerFailure, fenced, stopping, reaping>>

Initialize ==
  /\ process = "down" /\ starts < MaxStarts
  /\ process' = "up" /\ starts' = starts + 1
  /\ InterruptRunningTasks
  /\ wakeOwed' = TRUE
  /\ UNCHANGED <<pump, claimed, wakeRequested>> /\ UNCHANGED runVars
  /\ UNCHANGED <<workerFailure, fenced, stopping, reaping>>

(* Mutant: the runs are not aborted.                                       *)
CloseGently ==
  /\ process = "up"
  /\ process' = "closing"
  /\ UNCHANGED storeVars /\ UNCHANGED pumpVars /\ UNCHANGED runVars
  /\ UNCHANGED <<workerFailure, fenced, stopping, reaping, starts>>

Close ==
  /\ process = "up"
  /\ process' = "closing"
  /\ aborted' = aborted \cup Active
  /\ UNCHANGED <<phase, predecessors, result, begun>> /\ UNCHANGED storeVars
  /\ UNCHANGED pumpVars /\ UNCHANGED <<workerFailure, fenced, stopping, reaping, starts>>

(* Mutant: the snapshot is taken without waiting for the pump.             *)
CloseSnapshotsAtOnce ==
  /\ process = "closing"
  /\ process' = "reaping" /\ reaping' = Active
  /\ UNCHANGED storeVars /\ UNCHANGED pumpVars /\ UNCHANGED runVars
  /\ UNCHANGED <<workerFailure, fenced, stopping, starts>>

(* The snapshot of runs to await is taken once the pump has returned.      *)
CloseSnapshots ==
  /\ process = "closing" /\ pump = "idle"
  /\ process' = "reaping" /\ reaping' = Active
  /\ UNCHANGED storeVars /\ UNCHANGED pumpVars /\ UNCHANGED runVars
  /\ UNCHANGED <<workerFailure, fenced, stopping, starts>>

CloseInterrupts ==
  /\ process = "reaping" /\ reaping \cap Active = {}
  /\ process' = "closed" /\ reaping' = {}
  /\ InterruptRunningTasks
  /\ UNCHANGED pumpVars /\ UNCHANGED runVars
  /\ UNCHANGED <<workerFailure, fenced, stopping, starts>>

(* The process ends, after close() or in a crash; only the store survives. *)
ProcessEnds ==
  /\ process # "down"
  /\ process' = "down"
  /\ workerFailure' = FALSE /\ fenced' = FALSE
  /\ pump' = "idle" /\ claimed' = None /\ wakeRequested' = FALSE /\ wakeOwed' = FALSE
  /\ phase' = Idle
  /\ predecessors' = [t \in Tasks |-> {}]
  /\ result' = [t \in Tasks |-> None]
  /\ aborted' = {} /\ stopping' = {} /\ reaping' = {}
  /\ UNCHANGED <<begun, starts>> /\ UNCHANGED storeVars

----------------------------------------------------------------------------

PumpStep == \/ DeliverWake \/ PumpPromote \/ PumpPromoted \/ PumpClaim \/ PumpFoundNothing
            \/ PumpLaunch \/ PumpFails
RunStep(t) == \/ RunStarts(t) \/ RunChecks(t) \/ ProviderStarts(t) \/ SetupFails(t)
              \/ ProviderReportsSession(t) \/ \E outcome \in Results : ProviderExits(t, outcome)
              \/ RunSettles(t) \/ RunFinishes(t) \/ RunFinishFails(t) \/ RunReleases(t)
ClientStep == \/ \E t \in Tasks : Create(t) \/ Start(t) \/ Resume(t) \/ Cancel(t)
                                    \/ CancelAborts(t)
              \/ \E t, u \in Tasks : Continue(t, u)
              \/ \E m \in Messages, t \in Tasks : Enqueue(m, t)
              \/ \E m \in Messages : Remove(m)
              \/ Fence \/ Unfence
LifeStep == Initialize \/ Close \/ CloseSnapshots \/ CloseInterrupts \/ ProcessEnds

Next == PumpStep \/ (\E t \in Tasks : RunStep(t)) \/ ClientStep \/ LifeStep

Spec == Init /\ [][Next]_vars

(* The event loop and the storage worker go on; setup has deadlines, and   *)
(* an aborted provider's process tree is killed.  Nothing obliges a client *)
(* to call, a provider to end by itself, or the process to be restarted.   *)
PumpAdvances == PumpPromote \/ PumpPromoted \/ PumpClaim \/ PumpFoundNothing \/ PumpLaunch
RunAdvances(t) == \/ RunStarts(t) \/ RunChecks(t) \/ ProviderStarts(t) \/ SetupFails(t)
                  \/ t \in aborted /\ \E outcome \in Results : ProviderExits(t, outcome)
                  \/ RunSettles(t) \/ RunFinishes(t) \/ RunFinishFails(t) \/ RunReleases(t)
Fairness ==
  /\ WF_vars(DeliverWake) /\ WF_vars(PumpAdvances)
  /\ WF_vars(CloseSnapshots \/ CloseInterrupts)
  /\ \A t \in Tasks : WF_vars(RunAdvances(t)) /\ WF_vars(CancelAborts(t))

FairSpec == Spec /\ Fairness

----------------------------------------------------------------------------
(* Properties.                                                             *)

(* Runs of one conversation share its worktree and provider session: of    *)
(* the active ones at most one has got past waiting for its predecessors   *)
(* (launch's predecessors, also when a stopped turn is still being reaped  *)
(* while its continuation is already claimed).                             *)
Working == {t \in Tasks : phase[t] \notin {"none", "waiting"}}
OneRunPerConversation ==
  \A s, t \in Working : root[s] = root[t] => s = t

(* Its inductive strengthening: of two runs of a conversation one was      *)
(* launched behind the other, a working run has none ahead of it, and a    *)
(* turn is launched at most once.                                          *)
Unclaimed == Unstarted \cup {"queued"}
Behind(t) == predecessors[t] \cap Active
RunsInLine ==
  /\ \A s, t \in Active : root[s] = root[t] /\ s # t => s \in Behind(t) \/ t \in Behind(s)
  /\ \A t \in Working : Behind(t) = {}
Launched == Active \cup UNION {predecessors[t] : t \in Tasks}
LaunchedOnce ==
  /\ \A t \in Launched \cup {claimed} : t \in Tasks => status[t] \notin Unclaimed
  /\ claimed \notin Launched
OutcomeKnown == \A t \in Tasks : phase[t] \in {"settling", "finishing"} => result[t] \in Results
RunInv == RunsInLine /\ LaunchedOnce /\ OutcomeKnown

(* The pool is never overrun.                                              *)
BoundedPool == Cardinality(Active) <= Concurrency

(* While the service works, every running row has an owner that will give  *)
(* it an end: a run, or the pump that has just claimed it.                 *)
RunningIsOwned ==
  Available => \A t \in Tasks : status[t] = "running" =>
    \/ claimed = t
    \/ phase[t] \notin {"none", "releasing"}
    \/ phase[t] = "releasing" /\ result[t] = "unrecorded"

(* A turn promoted from a message of another conversation was stopped      *)
(* before the pump claimed it: promotePending had not looked further.      *)
PromotedTurn(u) == \E m \in Messages : message[m].status = "dispatched" /\ message[m].turn = u
Overtaken(r) ==
  \E u \in Tasks \ ran : status[u] = "cancelled" /\ root[u] # r /\ PromotedTurn(u)

(* No lost wakeup: an idle pump with a free slot, nothing about to wake it *)
(* and nothing stopping it leaves no queued turn and no message that could *)
(* be promoted, except behind a turn whose run is still being released,    *)
(* and except where a Stop fell between a promotion and its claim.         *)
NoLostWakeup ==
  (pump = "idle" /\ MayAdmit /\ ~wakeOwed /\ Cardinality(Active) < Concurrency)
    => /\ Queued = {}
       /\ \A r \in Candidates : latest[r] \in Active \/ Overtaken(r)

(* After close() nothing runs, nothing is claimed and no row is running.   *)
ClosedIsQuiet ==
  process = "closed" => /\ Active = {} /\ pump = "idle" /\ claimed = None
                        /\ \A t \in Tasks : status[t] # "running"

(* The bounds of the pump and the end of it: BoundedPool, ClosedIsQuiet.   *)
PoolHolds == BoundedPool /\ ClosedIsQuiet

(* Once cancel() has answered, the provider of that turn is not started,   *)
(* wherever the turn was: queued, claimed, waiting or being set up.        *)
StoppedNeverStarts ==
  [][\A t \in begun' \ begun : status[t] = "running" \/ t \in stopping]_vars

(* The turns of each conversation are executed one at a time and in order, *)
(* and a turn is never executed again, not even after a restart.           *)
Turns == INSTANCE TurnOrder WITH
  conversation <- [t \in {u \in Tasks : status[u] # "absent"} |-> root[t]],
  live  <- {t \in Tasks : phase[t] = "executing"},
  begun <- begun
TurnsInOrder == Turns!Spec

(* A stopped turn that has a run is reaped, or the process ends.           *)
StopReaps ==
  \A t \in Tasks : (status[t] = "cancelled" /\ phase[t] # "none") ~> (phase[t] = "none")

(* close() comes to an end: every run is aborted, also one launched from   *)
(* the answer to a claim that was in flight when close() was called.       *)
CloseEnds == (process = "closing") ~> (process \in {"closed", "down"})
=============================================================================
