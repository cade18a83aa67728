------------------------ MODULE ExecutionServiceProofs ------------------------
(***************************************************************************)
(* The service only ever changes the store through its operations, keeps   *)
(* its own state well formed, and never lets two runs of one conversation  *)
(* work at the same time, for every pool size, number of turns, Stop,      *)
(* crash and restart.                                                      *)
(***************************************************************************)
EXTENDS ExecutionService, RunnerStoreProofs, FiniteSetTheorems

----------------------------------------------------------------------------
(* Every step is a store operation or leaves the store alone.              *)

LEMMA PumpStepStore == ASSUME PumpStep PROVE [StoreNext]_storeVars
  BY DEF PumpStep, DeliverWake, PumpPromote, PumpPromoted, PumpClaim, PumpFoundNothing,
         PumpLaunch, PumpFails, StoreNext

LEMMA RunStepStore ==
  ASSUME TypeOK, RunInv, NEW t \in Tasks, RunStep(t)
  PROVE  [StoreNext]_storeVars
<1>1. CASE ProviderReportsSession(t)
  BY <1>1 DEF ProviderReportsSession, StoreNext
<1>2. CASE RunSettles(t)
  BY <1>2 DEF RunSettles, StoreNext
<1>3. CASE RunFinishes(t) \/ RunFinishFails(t)
  <2>1. result[t] \in Results
    BY <1>3 DEF RunFinishes, RunFinishFails, Moves, RunInv, OutcomeKnown
  <2>. QED
    BY <1>3, <2>1 DEF RunFinishes, RunFinishFails, StoreNext
<1>4. CASE \/ RunStarts(t) \/ RunChecks(t) \/ ProviderStarts(t) \/ SetupFails(t)
           \/ (\E outcome \in Results : ProviderExits(t, outcome))
           \/ RunReleases(t)
  BY <1>4 DEF RunStarts, RunChecks, ProviderStarts, SetupFails, ProviderExits, RunReleases
<1>. QED
  BY <1>1, <1>2, <1>3, <1>4 DEF RunStep

LEMMA ClientStepStore == ASSUME ClientStep PROVE [StoreNext]_storeVars
  BY DEF ClientStep, Create, Start, Resume, Cancel, CancelAborts, Continue, Enqueue, Remove,
         Fence, Unfence, StoreNext

LEMMA LifeStepStore == ASSUME LifeStep PROVE [StoreNext]_storeVars
  BY DEF LifeStep, Initialize, Close, CloseSnapshots, CloseInterrupts, ProcessEnds, StoreNext

LEMMA NextStore ==
  ASSUME TypeOK, RunInv, [Next]_vars
  PROVE  [StoreNext]_storeVars
<1>1. CASE UNCHANGED vars
  BY <1>1 DEF vars
<1>. QED
  BY <1>1, PumpStepStore, RunStepStore, ClientStepStore, LifeStepStore DEF Next

----------------------------------------------------------------------------
(* Type correctness.                                                       *)

(* The service's own state: TypeOK without the store.                      *)
OwnTypeOK ==
  /\ process \in Processes
  /\ workerFailure \in BOOLEAN /\ fenced \in BOOLEAN
  /\ pump \in PumpPoints
  /\ claimed \in Tasks \cup {None}
  /\ wakeRequested \in BOOLEAN /\ wakeOwed \in BOOLEAN
  /\ phase \in [Tasks -> Phases]
  /\ predecessors \in [Tasks -> SUBSET Tasks]
  /\ aborted \in SUBSET Tasks
  /\ result \in [Tasks -> Results \cup {None, "unrecorded"}]
  /\ stopping \in SUBSET Tasks /\ reaping \in SUBSET Tasks
  /\ begun \in SUBSET Tasks
  /\ starts \in Nat

LEMMA SplitType == TypeOK <=> StoreTypeOK /\ OwnTypeOK
  BY DEF TypeOK, OwnTypeOK

LEMMA PumpStepType == ASSUME OwnTypeOK, PumpStep PROVE OwnTypeOK'
<1> USE DEF OwnTypeOK, PumpPoints, Phases, runVars, lifeVars, Wake, PumpEnds, Drain
<1>1. CASE DeliverWake
  BY <1>1 DEF DeliverWake
<1>2. CASE PumpPromote \/ PumpClaim \/ PumpFails
  BY <1>2 DEF PumpPromote, PumpClaim, PumpFails
<1>3. CASE PumpPromoted \/ PumpFoundNothing
  BY <1>3 DEF PumpPromoted, PumpFoundNothing
<1>4. CASE PumpLaunch
  <2>1. claimed \in Tasks
    BY <1>4 DEF PumpLaunch
  <2>2. SameConversation(claimed) \in SUBSET Tasks
    BY DEF SameConversation, Active
  <2>. QED
    BY <1>4, <2>1, <2>2 DEF PumpLaunch, Launch
<1>. QED
  BY <1>1, <1>2, <1>3, <1>4 DEF PumpStep

LEMMA RunStepType == ASSUME OwnTypeOK, NEW t \in Tasks, RunStep(t) PROVE OwnTypeOK'
<1> USE DEF OwnTypeOK, Phases, Results, Moves, runVars, pumpVars, lifeVars
<1>1. CASE RunStarts(t) \/ RunChecks(t)
  BY <1>1 DEF RunStarts, RunChecks
<1>2. CASE ProviderStarts(t) \/ SetupFails(t) \/ ProviderReportsSession(t)
  BY <1>2 DEF ProviderStarts, SetupFails, ProviderReportsSession
<1>3. ASSUME NEW outcome \in Results, ProviderExits(t, outcome) PROVE OwnTypeOK'
  BY <1>3 DEF ProviderExits
<1>4. CASE RunSettles(t) \/ RunFinishes(t) \/ RunFinishFails(t)
  BY <1>4 DEF RunSettles, RunFinishes, RunFinishFails
<1>5. CASE RunReleases(t)
  BY <1>5 DEF RunReleases, Wake, Drain, PumpPoints
<1>. QED
  BY <1>1, <1>2, <1>3, <1>4, <1>5 DEF RunStep

LEMMA ClientStepType == ASSUME OwnTypeOK, ClientStep PROVE OwnTypeOK'
  BY DEF ClientStep, Create, Start, Resume, Cancel, CancelAborts, Continue, Enqueue, Remove,
         Fence, Unfence, Admits, Idles, OwnTypeOK, runVars, pumpVars, lifeVars

LEMMA LifeStepType == ASSUME OwnTypeOK, LifeStep PROVE OwnTypeOK'
<1> USE DEF OwnTypeOK, Processes, runVars, pumpVars
<1>1. CASE Initialize
  <2>1. process' = "up" /\ starts' = starts + 1 /\ wakeOwed' = TRUE
    BY <1>1 DEF Initialize
  <2>2. UNCHANGED <<pump, claimed, wakeRequested, workerFailure, fenced, stopping, reaping>>
        /\ UNCHANGED runVars
    BY <1>1 DEF Initialize
  <2>. QED
    BY <2>1, <2>2
<1>4. CASE CloseInterrupts
  <2>1. process' = "closed" /\ reaping' = {}
    BY <1>4 DEF CloseInterrupts
  <2>2. UNCHANGED <<workerFailure, fenced, stopping, starts>> /\ UNCHANGED pumpVars
        /\ UNCHANGED runVars
    BY <1>4 DEF CloseInterrupts
  <2>. QED
    BY <2>1, <2>2
<1>2. CASE Close \/ CloseSnapshots
  BY <1>2 DEF Close, CloseSnapshots, Active
<1>3. CASE ProcessEnds
  BY <1>3 DEF ProcessEnds, PumpPoints, Phases, Idle
<1>. QED
  BY <1>1, <1>2, <1>3, <1>4 DEF LifeStep

LEMMA NextType == ASSUME TypeOK, RunInv, [Next]_vars PROVE TypeOK'
<1>1. StoreTypeOK'
  BY NextStore, StoreNextType DEF TypeOK
<1>2. CASE UNCHANGED vars
  BY <1>1, <1>2 DEF vars, pumpVars, runVars, lifeVars, TypeOK
<1>3. CASE Next
  <2>1. OwnTypeOK
    BY SplitType
  <2>2. OwnTypeOK'
    BY <1>3, <2>1, PumpStepType, RunStepType, ClientStepType, LifeStepType DEF Next
  <2>. QED
    BY <1>1, <2>2 DEF TypeOK, OwnTypeOK
<1>. QED
  BY <1>2, <1>3

----------------------------------------------------------------------------
(* The runs of a conversation stand in line.                               *)

(* A store operation never makes a claimed or ended turn claimable again,  *)
(* nor moves a known task to another conversation.                         *)
LEMMA StoreKeepsClaims ==
  ASSUME StoreTypeOK, [StoreNext]_storeVars, NEW t \in Tasks
  PROVE  /\ status[t] \notin Unclaimed => status'[t] \notin Unclaimed
         /\ status[t] # "absent" => root'[t] = root[t]
<1> DEFINE Kept == /\ status[t] \notin Unclaimed => status'[t] \notin Unclaimed
                   /\ status[t] # "absent" => root'[t] = root[t]
<1>0. status \in [Tasks -> TaskStatus] /\ root \in [Tasks -> Tasks]
  BY DEF StoreTypeOK
<1>1. CASE UNCHANGED <<status, root>>
  BY <1>1
<1>2. ASSUME NEW u \in Tasks, CreateTask(u) \/ QueueTask(u) \/ CancelTask(u) \/ ClaimNextTask(u)
      PROVE  Kept
  BY <1>0, <1>2 DEF CreateTask, NextTask, QueueTask, CancelTask, ClaimNextTask,
     Unclaimed, Unstarted
<1>3. ASSUME NEW u, NEW v \in Tasks, AdmitContinuation(u, v) PROVE Kept
  BY <1>0, <1>3 DEF AdmitContinuation, NextTask, Unclaimed, Unstarted
<1>4. ASSUME NEW u \in Tasks, NEW r \in Results, FinishTask(u, r) PROVE Kept
  BY <1>0, <1>4 DEF FinishTask, Unclaimed, Unstarted, storeVars
<1>5. CASE InterruptRunningTasks
  BY <1>0, <1>5 DEF InterruptRunningTasks, Unclaimed, Unstarted
<1>6. CASE PromotePending
  <2>1. ASSUME NEW r, NEW u \in Tasks, NEW refused, PromoteFrom(r, u, refused) PROVE Kept
    BY <1>3, <2>1 DEF PromoteFrom
  <2>2. ASSUME NEW refused, PromoteNone(refused) PROVE Kept
    BY <1>1, <2>2 DEF PromoteNone, taskVars
  <2>. QED
    BY <1>6, <2>1, <2>2 DEF PromotePending
<1>7. CASE \/ UNCHANGED storeVars
           \/ (\E u \in Tasks : CaptureSession(u) \/ ResumePending(u))
           \/ (\E m \in Messages, u \in Tasks : EnqueuePending(m, u))
           \/ (\E m \in Messages : RemovePending(m))
           \/ (\E u \in Tasks, m \in Messages :
                  ClaimPendingSteer(u, m) \/ ReleaseSteer(u, m) \/ AcceptSteer(u, m))
  <2>1. UNCHANGED <<status, root>>
    BY <1>7 DEF storeVars, CaptureSession, ResumePending, EnqueuePending, RemovePending,
                ClaimPendingSteer, ReleaseSteer, AcceptSteer, taskVars
  <2>. QED
    BY <1>1, <2>1
<1>. QED
  BY <1>2, <1>3, <1>4, <1>5, <1>6, <1>7 DEF StoreNext, ContinueTask

(* A step that starts no run and sets no predecessors: runs may move from  *)
(* one await point to another, enter work only with nobody ahead, or end.  *)
RunsOnlyAdvance ==
  /\ \A t \in Tasks : phase'[t] # "none" => phase[t] # "none"
  /\ \A t \in Tasks : phase'[t] \notin {"none", "waiting"} =>
       phase[t] # "waiting" \/ Behind(t) = {}
  /\ \A t \in Tasks : predecessors'[t] = predecessors[t]
                        \/ (predecessors'[t] = {} /\ phase'[t] = "none")

LEMMA AdvanceKeepsLine ==
  ASSUME TypeOK, RunsInLine, LaunchedOnce, [StoreNext]_storeVars, RunsOnlyAdvance
  PROVE  RunsInLine'
<1>1. \A t \in Active : status[t] # "absent" /\ root'[t] = root[t]
  BY StoreKeepsClaims DEF LaunchedOnce, Launched, Active, Unclaimed, Unstarted, TypeOK
<1>2. Active' \subseteq Active
  BY DEF RunsOnlyAdvance, Active
<1>3. \A t \in Active' : predecessors'[t] = predecessors[t]
  BY DEF RunsOnlyAdvance, Active
<1>4. ASSUME NEW s \in Active', NEW t \in Active', root'[s] = root'[t], s # t
      PROVE  s \in Behind(t)' \/ t \in Behind(s)'
  BY <1>1, <1>2, <1>3, <1>4 DEF RunsInLine, Behind
<1>5. ASSUME NEW t \in Working' PROVE Behind(t)' = {}
  <2>1. t \in Active' /\ t \in Tasks
    BY <1>5 DEF Working, Active
  <2>2. Behind(t) = {}
    BY <1>2, <1>5, <2>1 DEF RunsOnlyAdvance, RunsInLine, Working, Active
  <2>. QED
    BY <1>2, <1>3, <2>1, <2>2 DEF Behind
<1>. QED
  BY <1>4, <1>5 DEF RunsInLine

LEMMA AdvanceKeepsOnce ==
  ASSUME TypeOK, LaunchedOnce, [StoreNext]_storeVars, RunsOnlyAdvance,
         claimed' = claimed \/ claimed' = None
  PROVE  LaunchedOnce'
<1>1. Launched' \subseteq Launched
  BY DEF RunsOnlyAdvance, Launched, Active
<1>2. Launched \subseteq Tasks
  BY DEF Launched, Active, TypeOK
<1>3. StoreTypeOK
  BY DEF TypeOK
<1>4. \A t \in Launched' \cup {claimed'} : t \in Tasks => status'[t] \notin Unclaimed
  BY <1>1, <1>3, NoneAssumption, StoreKeepsClaims DEF LaunchedOnce
<1>5. claimed' \notin Launched'
  BY <1>1, <1>2, NoneAssumption DEF LaunchedOnce
<1>. QED
  BY <1>4, <1>5 DEF LaunchedOnce

----------------------------------------------------------------------------
(* RunInv is inductive.                                                    *)

LEMMA AdvanceKeepsRuns ==
  ASSUME TypeOK, RunInv, [StoreNext]_storeVars, RunsOnlyAdvance, OutcomeKnown',
         claimed' = claimed \/ claimed' = None
  PROVE  RunInv'
  BY AdvanceKeepsLine, AdvanceKeepsOnce DEF RunInv

(* Steps that leave the runs alone.                                        *)
LEMMA IdleKeepsRuns ==
  ASSUME TypeOK, RunInv, [StoreNext]_storeVars,
         UNCHANGED <<phase, predecessors, result>>,
         claimed' = claimed \/ claimed' = None
  PROVE  RunInv'
<1>1. RunsOnlyAdvance
  BY DEF RunsOnlyAdvance, RunInv, RunsInLine, Working
<1>2. OutcomeKnown'
  BY DEF RunInv, OutcomeKnown
<1>. QED
  BY <1>1, <1>2, AdvanceKeepsRuns

(* The pump claims a turn that was queued, hence never launched.           *)
LEMMA PumpClaimKeepsRuns ==
  ASSUME TypeOK, RunInv, PumpClaim
  PROVE  RunInv'
<1>1. [StoreNext]_storeVars
  BY PumpStepStore DEF PumpStep
<1>2. CASE claimed' = None
  BY <1>1, <1>2, IdleKeepsRuns DEF PumpClaim, runVars
<1>3. ASSUME NEW t \in Tasks, ClaimNextTask(t), claimed' = t PROVE RunInv'
  <2>0. StoreTypeOK /\ status \in [Tasks -> TaskStatus]
    BY DEF TypeOK, StoreTypeOK
  <2>1. status[t] = "queued" /\ status'[t] = "running" /\ root' = root
    BY <1>3, <2>0 DEF ClaimNextTask, IsNextQueued, Queued
  <2>2. UNCHANGED <<phase, predecessors, result>>
    BY DEF PumpClaim, runVars
  <2>3. RunsInLine' /\ OutcomeKnown'
    BY <2>1, <2>2 DEF RunInv, RunsInLine, OutcomeKnown, Active, Working, Behind
  <2>4. Launched' = Launched /\ Launched \subseteq Tasks
    BY <2>2 DEF Launched, Active, TypeOK
  <2>5. t \notin Launched
    BY <2>1 DEF RunInv, LaunchedOnce, Unclaimed
  <2>6. \A s \in Launched : status'[s] \notin Unclaimed
    BY <1>1, <2>0, <2>4, StoreKeepsClaims DEF RunInv, LaunchedOnce
  <2>7. LaunchedOnce'
    BY <1>3, <2>1, <2>4, <2>5, <2>6 DEF LaunchedOnce, Unclaimed, Unstarted
  <2>. QED
    BY <2>3, <2>7 DEF RunInv
<1>. QED
  BY <1>2, <1>3 DEF PumpClaim

(* The claimed turn is launched behind the active turns of its             *)
(* conversation.                                                           *)
LEMMA PumpLaunchKeepsRuns ==
  ASSUME TypeOK, RunInv, PumpLaunch
  PROVE  RunInv'
<1>0. PICK c \in Tasks : c = claimed
  BY DEF PumpLaunch, TypeOK
<1>1. /\ claimed' = None
      /\ phase' = [phase EXCEPT ![c] = "waiting"]
      /\ predecessors' = [predecessors EXCEPT ![c] = SameConversation(c)]
      /\ UNCHANGED <<result, status, root>>
  BY <1>0 DEF PumpLaunch, Launch, storeVars
<1>2. phase \in [Tasks -> Phases] /\ predecessors \in [Tasks -> SUBSET Tasks]
  BY DEF TypeOK
<1>3. c \notin Launched /\ c \notin Active /\ \A t \in Tasks : c \notin predecessors[t]
  BY <1>0 DEF RunInv, LaunchedOnce, Launched
<1>4. Active' = Active \cup {c} /\ Working' = Working
  BY <1>1, <1>2, <1>3 DEF Active, Working
<1>5. \A t \in Tasks : t # c => Behind(t)' = Behind(t)
  BY <1>1, <1>2, <1>3, <1>4 DEF Behind
<1>6. Behind(c)' = SameConversation(c)
  BY <1>1, <1>2, <1>3, <1>4 DEF Behind, SameConversation
<1>7. RunsInLine'
  <2>1. ASSUME NEW s \in Active', NEW t \in Active', root'[s] = root'[t], s # t
        PROVE  s \in Behind(t)' \/ t \in Behind(s)'
    <3>1. CASE s = c \/ t = c
      BY <1>1, <1>4, <1>6, <2>1, <3>1 DEF SameConversation
    <3>2. CASE s # c /\ t # c
      BY <1>1, <1>4, <1>5, <2>1, <3>2 DEF RunInv, RunsInLine, Active
    <3>. QED
      BY <3>1, <3>2
  <2>2. ASSUME NEW t \in Working' PROVE Behind(t)' = {}
    <3>1. t \in Tasks /\ t # c
      BY <1>1, <1>2, <2>2 DEF Working
    <3>. QED
      BY <1>4, <1>5, <2>2, <3>1 DEF RunInv, RunsInLine
  <2>. QED
    BY <2>1, <2>2 DEF RunsInLine
<1>8. LaunchedOnce'
  <2>1. Launched' \subseteq Launched \cup {c}
    BY <1>1, <1>2, <1>4 DEF Launched, SameConversation
  <2>2. Launched' \subseteq Tasks
    BY <1>1, <2>1 DEF Launched, Active, TypeOK
  <2>. QED
    BY <1>0, <1>1, <2>1, <2>2, NoneAssumption DEF RunInv, LaunchedOnce, Unclaimed, Unstarted
<1>9. OutcomeKnown'
  BY <1>1, <1>2 DEF RunInv, OutcomeKnown
<1>. QED
  BY <1>7, <1>8, <1>9 DEF RunInv

LEMMA PumpStepKeepsRuns == ASSUME TypeOK, RunInv, PumpStep PROVE RunInv'
<1>1. [StoreNext]_storeVars
  BY PumpStepStore
<1>2. CASE DeliverWake \/ PumpPromote \/ PumpPromoted \/ PumpFoundNothing \/ PumpFails
  BY <1>1, <1>2, IdleKeepsRuns DEF DeliverWake, PumpPromote, PumpPromoted,
     PumpFoundNothing, PumpFails, runVars
<1>. QED
  BY <1>2, PumpClaimKeepsRuns, PumpLaunchKeepsRuns DEF PumpStep

LEMMA RunStepAdvances == ASSUME TypeOK, RunInv, NEW t \in Tasks, RunStep(t) PROVE RunsOnlyAdvance
<1>1. phase \in [Tasks -> Phases] /\ predecessors \in [Tasks -> SUBSET Tasks]
  BY DEF TypeOK
<1>2. \A s \in Tasks : phase[s] \notin {"none", "waiting"} => Behind(s) = {}
  BY DEF RunInv, RunsInLine, Working
<1>3. CASE RunReleases(t)
  BY <1>1, <1>3 DEF RunReleases, Moves, RunsOnlyAdvance
<1>4. CASE RunStarts(t)
  BY <1>1, <1>2, <1>4 DEF RunStarts, Moves, RunsOnlyAdvance, Behind
<1>5. CASE ~RunReleases(t) /\ ~RunStarts(t)
  BY <1>1, <1>2, <1>5 DEF RunStep, RunChecks, ProviderStarts, SetupFails, ProviderReportsSession,
     ProviderExits, RunSettles, RunFinishes, RunFinishFails, runVars, Moves, RunsOnlyAdvance
<1>. QED
  BY <1>3, <1>4, <1>5

LEMMA RunStepKeepsRuns == ASSUME TypeOK, RunInv, NEW t \in Tasks, RunStep(t) PROVE RunInv'
<1>1. [StoreNext]_storeVars
  BY RunStepStore
<1>2. claimed' = claimed
  BY DEF RunStep, RunStarts, RunChecks, ProviderStarts, SetupFails, ProviderReportsSession,
         ProviderExits, RunSettles, RunFinishes, RunFinishFails, RunReleases, pumpVars
<1>3. phase \in [Tasks -> Phases] /\ result \in [Tasks -> Results \cup {None, "unrecorded"}]
  BY DEF TypeOK
<1>4. OutcomeKnown'
  BY <1>3 DEF RunInv, OutcomeKnown, Results, RunStep, RunStarts, RunChecks, ProviderStarts,
     SetupFails, ProviderReportsSession, ProviderExits, RunSettles, RunFinishes,
     RunFinishFails, RunReleases, runVars, Moves
<1>. QED
  BY <1>1, <1>2, <1>4, RunStepAdvances, AdvanceKeepsRuns

LEMMA ClientStepKeepsRuns == ASSUME TypeOK, RunInv, ClientStep PROVE RunInv'
<1>1. [StoreNext]_storeVars
  BY ClientStepStore
<1>2. UNCHANGED <<phase, predecessors, result, claimed>>
  BY DEF ClientStep, Create, Start, Resume, Cancel, CancelAborts, Continue, Enqueue, Remove,
         Fence, Unfence, Admits, Idles, runVars, pumpVars
<1>. QED
  BY <1>1, <1>2, IdleKeepsRuns

LEMMA LifeStepKeepsRuns == ASSUME TypeOK, RunInv, LifeStep PROVE RunInv'
<1>1. [StoreNext]_storeVars
  BY LifeStepStore
<1>2. CASE Initialize \/ Close \/ CloseSnapshots \/ CloseInterrupts
  BY <1>1, <1>2, IdleKeepsRuns DEF Initialize, Close, CloseSnapshots, CloseInterrupts,
     runVars, pumpVars
<1>3. CASE ProcessEnds
  BY <1>3, NoneAssumption DEF ProcessEnds, Idle, RunInv, RunsInLine, LaunchedOnce,
     OutcomeKnown, Launched, Active, Working, Behind
<1>. QED
  BY <1>2, <1>3 DEF LifeStep

LEMMA NextRuns == ASSUME TypeOK, RunInv, [Next]_vars PROVE RunInv'
<1>1. CASE UNCHANGED vars
  BY <1>1, IdleKeepsRuns DEF vars, pumpVars, runVars
<1>. QED
  BY <1>1, PumpStepKeepsRuns, RunStepKeepsRuns, ClientStepKeepsRuns, LifeStepKeepsRuns DEF Next

----------------------------------------------------------------------------
(* The theorems.                                                           *)

LEMMA Invariants == Spec => [](TypeOK /\ RunInv)
<1>1. Init => TypeOK /\ RunInv
  <2> SUFFICES ASSUME Init PROVE TypeOK /\ RunInv
    OBVIOUS
  <2>1. StoreTypeOK
    BY DEF Init, StoreInit, StoreTypeOK, TaskStatus, MessageRow, MessageStatus, ClaimRow,
           NoMessage, NoClaim
  <2>2. OwnTypeOK
    BY DEF Init, OwnTypeOK, Processes, PumpPoints, Phases, Idle
  <2>3. RunInv
    BY NoneAssumption DEF Init, Idle, RunInv, RunsInLine, LaunchedOnce, OutcomeKnown,
       Launched, Active, Working, Behind
  <2>. QED
    BY <2>1, <2>2, <2>3, SplitType
<1>2. TypeOK /\ RunInv /\ [Next]_vars => (TypeOK /\ RunInv)'
  BY NextType, NextRuns
<1>. QED
  BY <1>1, <1>2, PTL DEF Spec

(* The variables of the service and of the store keep their types.         *)
THEOREM TypeCorrect == Spec => []TypeOK
  BY Invariants, PTL

(* Seen from the store, the service is one of its clients: every step is a *)
(* store operation or leaves the store alone.                              *)
THEOREM UsesStore == Spec => StoreSpec
<1>1. Init => StoreInit
  BY DEF Init
<1>2. TypeOK /\ RunInv /\ [Next]_vars => [StoreNext]_storeVars
  BY NextStore
<1>. QED
  BY <1>1, <1>2, Invariants, PTL DEF Spec, StoreSpec

(* At most one run of a conversation works at any time.                    *)
THEOREM OneRunAtATime == Spec => []OneRunPerConversation
<1>1. TypeOK /\ RunInv => OneRunPerConversation
  BY DEF RunInv, RunsInLine, OneRunPerConversation, Working, Active, Behind
<1>. QED
  BY <1>1, Invariants, PTL

(* No conversation of a running service ever has two turns to run.         *)
THEOREM ServiceOneLiveTurn == Spec => []OneLiveTurn
  BY UsesStore, StoreOneLiveTurn, PTL

LEMMA Base == Spec => [](TypeOK /\ RunInv /\ StoreInv)
  BY Invariants, UsesStore, StoreAllInv, PTL

----------------------------------------------------------------------------
(* The pool.                                                               *)

(* The pump holds a claimed turn only between claim and launch, and works  *)
(* only while a slot is free.                                              *)
PumpInPool ==
  /\ claimed # None => pump = "answered"
  /\ IsFiniteSet(Active) /\ BoundedPool
  /\ pump # "idle" => Cardinality(Active) < Concurrency

(* A step that launches nothing.                                           *)
LEMMA FewerRunsInPool ==
  ASSUME PumpInPool, Active' \subseteq Active, claimed' = claimed \/ claimed' = None,
         pump' = "idle" \/ pump' = pump \/ Cardinality(Active') < Concurrency,
         claimed' # None => pump' = "answered"
  PROVE  PumpInPool'
<1>1. IsFiniteSet(Active') /\ Cardinality(Active') <= Cardinality(Active)
  BY FS_Subset DEF PumpInPool
<1>2. Cardinality(Active) \in Nat /\ Cardinality(Active') \in Nat
  BY <1>1, FS_CardinalityType DEF PumpInPool
<1>3. pump' # "idle" => Cardinality(Active') < Concurrency
  BY <1>1, <1>2, ConcurrencyAssumption DEF PumpInPool
<1>4. Cardinality(Active') <= Concurrency
  BY <1>1, <1>2, ConcurrencyAssumption DEF PumpInPool, BoundedPool
<1>. QED
  BY <1>1, <1>3, <1>4 DEF PumpInPool, BoundedPool

LEMMA LaunchInPool ==
  ASSUME TypeOK, RunInv, PumpInPool, PumpLaunch
  PROVE  PumpInPool'
<1>0. PICK c \in Tasks : c = claimed
  BY DEF PumpLaunch, TypeOK
<1>1. Active' = Active \cup {c} /\ claimed' = None
  BY <1>0 DEF PumpLaunch, Launch, TypeOK, Active
<1>2. /\ IsFiniteSet(Active') /\ Cardinality(Active') \in Nat
      /\ Cardinality(Active') <= Cardinality(Active) + 1 /\ Cardinality(Active) \in Nat
  <2>1. IsFiniteSet(Active) /\ Cardinality(Active) \in Nat
    BY FS_CardinalityType DEF PumpInPool
  <2>. QED
    BY <1>1, <2>1, FS_AddElement
<1>3. Cardinality(Active) < Concurrency
  BY DEF PumpInPool, PumpLaunch
<1>4. Cardinality(Active') <= Concurrency
  BY <1>2, <1>3, ConcurrencyAssumption
<1>5. pump' = "idle" \/ Cardinality(Active') < Concurrency
  BY <1>0, <1>1 DEF PumpLaunch, PumpEnds, Drain
<1>. QED
  BY <1>1, <1>2, <1>4, <1>5 DEF PumpInPool, BoundedPool

LEMMA PumpStepInPool == ASSUME TypeOK, RunInv, PumpInPool, PumpStep PROVE PumpInPool'
<1>1. CASE DeliverWake
  <2>1. Active' = Active /\ claimed' = claimed /\ (pump' = pump \/ pump = "idle")
        /\ (pump' = pump \/ Cardinality(Active') < Concurrency)
    BY <1>1 DEF DeliverWake, Wake, Drain, runVars, Active
  <2>. QED
    BY <2>1, FewerRunsInPool DEF PumpInPool
<1>2. CASE PumpPromote \/ PumpPromoted \/ PumpClaim \/ PumpFoundNothing \/ PumpFails
  <2>1. Active' = Active /\ pump # "idle"
    BY <1>2 DEF PumpPromote, PumpPromoted, PumpClaim, PumpFoundNothing, PumpFails, runVars, Active
  <2>2. claimed' # None => pump' = "answered"
    BY <1>2 DEF PumpPromote, PumpPromoted, PumpClaim, PumpFoundNothing, PumpFails, PumpInPool
  <2>. QED
    BY <2>1, <2>2 DEF PumpInPool, BoundedPool
<1>. QED
  BY <1>1, <1>2, LaunchInPool DEF PumpStep

(* A step of a run ends it or leaves the set of runs alone.                *)
LEMMA RunStepActive ==
  ASSUME TypeOK, NEW t \in Tasks, RunStep(t)
  PROVE  /\ Active' = IF RunReleases(t) THEN Active \ {t} ELSE Active
         /\ UNCHANGED <<claimed, process, fenced, stopping, reaping, starts>>
         /\ ~RunReleases(t) => UNCHANGED <<pump, wakeRequested, wakeOwed, workerFailure>>
<1>0. phase \in [Tasks -> Phases]
  BY DEF TypeOK
<1>1. CASE RunReleases(t)
  BY <1>0, <1>1 DEF RunReleases, Moves, Active
<1>2. CASE ~RunReleases(t)
  <2>1. UNCHANGED pumpVars /\ UNCHANGED lifeVars
    BY <1>2 DEF RunStep, RunStarts, RunChecks, ProviderStarts, SetupFails,
       ProviderReportsSession, ProviderExits, RunSettles, RunFinishes, RunFinishFails
  <2>2. Active' = Active
    BY <1>0, <1>2 DEF RunStep, RunStarts, RunChecks, ProviderStarts, SetupFails, runVars,
       ProviderReportsSession, ProviderExits, RunSettles, RunFinishes, RunFinishFails, Moves, Active
  <2>. QED
    BY <1>2, <2>1, <2>2 DEF pumpVars, lifeVars
<1>. QED
  BY <1>1, <1>2

LEMMA RunStepInPool ==
  ASSUME TypeOK, PumpInPool, NEW t \in Tasks, RunStep(t)
  PROVE  PumpInPool'
<1>1. Active' \subseteq Active /\ claimed' = claimed
  BY RunStepActive
<1>2. (pump' = pump \/ pump = "idle") /\ (pump' = pump \/ Cardinality(Active') < Concurrency)
  <2>1. CASE RunReleases(t)
    <3>1. Active' = Active \ {t}
      BY <2>1, RunStepActive
    <3>. QED
      BY <2>1, <3>1 DEF RunReleases, Wake, Drain
  <2>. QED
    BY <2>1, RunStepActive
<1>. QED
  BY <1>1, <1>2, FewerRunsInPool DEF PumpInPool

LEMMA NextInPool == ASSUME TypeOK, RunInv, PumpInPool, [Next]_vars PROVE PumpInPool'
<1>1. CASE ProcessEnds
  BY <1>1, FewerRunsInPool DEF ProcessEnds, Idle, Active
<1>2. CASE \/ UNCHANGED vars \/ ClientStep \/ Initialize \/ Close \/ CloseSnapshots
           \/ CloseInterrupts
  <2>1. UNCHANGED <<phase, claimed, pump>>
    BY <1>2 DEF vars, ClientStep, Create, Start, Resume, Cancel, CancelAborts, Continue, Enqueue,
       Remove, Fence, Unfence, Admits, Idles, Initialize, Close, CloseSnapshots, CloseInterrupts,
       runVars, pumpVars
  <2>. QED
    BY <2>1 DEF PumpInPool, BoundedPool, Active
<1>. QED
  BY <1>1, <1>2, PumpStepInPool, RunStepInPool DEF Next, LifeStep

----------------------------------------------------------------------------
(* Running rows and their runs.                                            *)

(* A step that claims nothing.                                             *)
ClaimsNone == \A t \in Tasks : status'[t] = "running" => status[t] = "running"

LEMMA StoreClaimsNone ==
  ASSUME StoreTypeOK,
         \/ UNCHANGED storeVars \/ InterruptRunningTasks \/ PromotePending
         \/ \E t \in Tasks : \/ CreateTask(t) \/ QueueTask(t) \/ CancelTask(t)
                             \/ CaptureSession(t) \/ ResumePending(t)
         \/ \E t \in Tasks, outcome \in Results \cup {None, "unrecorded"} : FinishTask(t, outcome)
         \/ \E t, u \in Tasks : ContinueTask(t, u)
         \/ \E m \in Messages, t \in Tasks : EnqueuePending(m, t)
         \/ \E m \in Messages : RemovePending(m)
  PROVE  ClaimsNone
<1>0. status \in [Tasks -> TaskStatus]
  BY DEF StoreTypeOK
<1>1. CASE UNCHANGED status
  BY <1>1 DEF ClaimsNone
<1>2. ASSUME NEW t \in Tasks, CreateTask(t) \/ QueueTask(t) \/ CancelTask(t) PROVE ClaimsNone
  BY <1>0, <1>2 DEF CreateTask, QueueTask, CancelTask, ClaimsNone
<1>3. ASSUME NEW t, NEW u \in Tasks, AdmitContinuation(t, u) PROVE ClaimsNone
  BY <1>0, <1>3 DEF AdmitContinuation, ClaimsNone
<1>4. ASSUME NEW t \in Tasks, NEW outcome, FinishTask(t, outcome) PROVE ClaimsNone
  BY <1>0, <1>4 DEF FinishTask, ClaimsNone, storeVars
<1>5. CASE InterruptRunningTasks
  BY <1>0, <1>5 DEF InterruptRunningTasks, ClaimsNone
<1>6. CASE PromotePending
  BY <1>1, <1>3, <1>6 DEF PromotePending, PromoteFrom, PromoteNone, taskVars
<1>7. ASSUME \/ UNCHANGED storeVars
             \/ \E t \in Tasks : CaptureSession(t) \/ ResumePending(t)
             \/ \E m \in Messages, t \in Tasks : EnqueuePending(m, t)
             \/ \E m \in Messages : RemovePending(m)
      PROVE  ClaimsNone
  BY <1>1, <1>7 DEF storeVars, CaptureSession, ResumePending, EnqueuePending, RemovePending, taskVars
<1>. QED
  BY <1>2, <1>3, <1>4, <1>5, <1>6, <1>7 DEF ContinueTask

LEMMA RunStepStores ==
  ASSUME NEW t \in Tasks, RunStep(t)
  PROVE  UNCHANGED storeVars \/ CaptureSession(t) \/ FinishTask(t, result[t])
  BY DEF RunStep, RunStarts, RunChecks, ProviderStarts, SetupFails, ProviderReportsSession,
     ProviderExits, RunSettles, RunFinishes, RunFinishFails, RunReleases

LEMMA RunStepClaimsNone == ASSUME TypeOK, NEW t \in Tasks, RunStep(t) PROVE ClaimsNone
<1>1. StoreTypeOK /\ result[t] \in Results \cup {None, "unrecorded"}
  BY DEF TypeOK
<1>. QED
  BY <1>1, RunStepStores, StoreClaimsNone

(* Of the steps of the service only PumpClaim claims.                      *)
LEMMA NextClaimsNone ==
  ASSUME TypeOK, [Next]_vars, ~PumpClaim
  PROVE  ClaimsNone
<1>0. StoreTypeOK
  BY DEF TypeOK
<1>1. CASE UNCHANGED vars
  BY <1>0, <1>1, StoreClaimsNone DEF vars
<1>2. CASE PumpStep
  BY <1>0, <1>2, StoreClaimsNone DEF PumpStep, DeliverWake, PumpPromote, PumpPromoted,
     PumpFoundNothing, PumpLaunch, PumpFails
<1>4. CASE ClientStep
  <2>1. \/ UNCHANGED storeVars
        \/ \E t \in Tasks : CreateTask(t) \/ QueueTask(t) \/ CancelTask(t) \/ ResumePending(t)
        \/ \E t, u \in Tasks : ContinueTask(t, u)
        \/ \E m \in Messages, t \in Tasks : EnqueuePending(m, t)
        \/ \E m \in Messages : RemovePending(m)
    BY <1>4 DEF ClientStep, Create, Start, Resume, Cancel, CancelAborts, Continue, Enqueue,
       Remove, Fence, Unfence
  <2>. QED
    BY <1>0, <2>1, StoreClaimsNone
<1>5. CASE LifeStep
  BY <1>0, <1>5, StoreClaimsNone DEF LifeStep, Initialize, Close, CloseSnapshots,
     CloseInterrupts, ProcessEnds
<1>. QED
  BY <1>1, <1>2, <1>4, <1>5, RunStepClaimsNone DEF Next

(* A process that is down has no run, and close() leaves none out.         *)
NoneRunning == \A t \in Tasks : status[t] # "running"
ClosesInOrder ==
  /\ process = "down" => Active = {} /\ pump = "idle"
  /\ process \in {"reaping", "closed"} => pump = "idle"
  /\ process = "reaping" => Active \subseteq reaping
  /\ process = "closed" => Active = {} /\ NoneRunning

LEMMA NextClosesInOrder ==
  ASSUME TypeOK, ClosesInOrder, [Next]_vars
  PROVE  ClosesInOrder'
<1>1. ~PumpClaim => ClaimsNone
  BY NextClaimsNone
<1>2. CASE Active' \subseteq Active /\ UNCHANGED <<process, reaping>>
           /\ (pump' = pump \/ pump # "idle" \/ MayAdmit)
  <2>1. process \in {"down", "reaping", "closed"} => pump' = "idle" /\ pump = "idle"
    BY <1>2 DEF ClosesInOrder, MayAdmit, Available
  <2>2. process = "closed" => NoneRunning'
    BY <1>1, <2>1 DEF ClosesInOrder, NoneRunning, PumpClaim, ClaimsNone
  <2>. QED
    BY <1>2, <2>1, <2>2 DEF ClosesInOrder
<1>3. CASE PumpLaunch
  BY <1>3 DEF PumpLaunch, ClosesInOrder, lifeVars
<1>4. CASE PumpStep /\ ~PumpLaunch
  <2>1. Active' = Active /\ UNCHANGED <<process, reaping>>
        /\ (pump' = pump \/ pump # "idle" \/ MayAdmit)
    BY <1>4 DEF PumpStep, DeliverWake, PumpPromote, PumpPromoted, PumpClaim, PumpFoundNothing,
       PumpFails, Wake, runVars, lifeVars, Active
  <2>. QED
    BY <1>2, <2>1
<1>5. ASSUME NEW t \in Tasks, RunStep(t) PROVE ClosesInOrder'
  <2>1. Active' \subseteq Active /\ UNCHANGED <<process, reaping>>
    BY <1>5, RunStepActive
  <2>2. pump' = pump \/ MayAdmit
    <3>1. CASE RunReleases(t)
      BY <3>1 DEF RunReleases, Wake
    <3>. QED
      BY <1>5, <3>1, RunStepActive
  <2>. QED
    BY <1>2, <2>1, <2>2
<1>6. CASE ClientStep \/ UNCHANGED vars
  <2>1. UNCHANGED <<phase, process, reaping, pump>>
    BY <1>6 DEF vars, ClientStep, Create, Start, Resume, Cancel, CancelAborts, Continue, Enqueue,
       Remove, Fence, Unfence, Admits, Idles, runVars, pumpVars, lifeVars
  <2>. QED
    BY <1>2, <2>1 DEF Active
<1>7. CASE Initialize \/ Close
  BY <1>7 DEF Initialize, Close, ClosesInOrder
<1>8. CASE CloseSnapshots
  BY <1>8 DEF CloseSnapshots, ClosesInOrder, pumpVars, runVars, Active
<1>9. CASE CloseInterrupts
  <2>1. process = "reaping" /\ process' = "closed" /\ reaping \cap Active = {}
        /\ UNCHANGED <<pump, phase>> /\ InterruptRunningTasks
    BY <1>9 DEF CloseInterrupts, pumpVars, runVars
  <2>2. NoneRunning'
    BY <2>1 DEF InterruptRunningTasks, NoneRunning
  <2>. QED
    BY <2>1, <2>2 DEF ClosesInOrder, Active
<1>10. CASE ProcessEnds
  BY <1>10 DEF ProcessEnds, ClosesInOrder, Idle, Active
<1>. QED
  BY <1>3, <1>4, <1>5, <1>6, <1>7, <1>8, <1>9, <1>10 DEF Next, LifeStep

(* The pool is never overrun, and a closed service is quiet.               *)
THEOREM PoolNeverOverrun == Spec => []PoolHolds
<1>1. Init => PumpInPool /\ ClosesInOrder
  <2> SUFFICES ASSUME Init PROVE PumpInPool /\ ClosesInOrder
    OBVIOUS
  <2>1. Active = {}
    BY DEF Init, Idle, Active
  <2>. QED
    BY <2>1, FS_EmptySet, ConcurrencyAssumption DEF Init, PumpInPool, BoundedPool, ClosesInOrder
<1>2. TypeOK /\ RunInv /\ PumpInPool /\ ClosesInOrder /\ [Next]_vars
        => (PumpInPool /\ ClosesInOrder)'
  BY NextInPool, NextClosesInOrder
<1>3. PumpInPool /\ ClosesInOrder => PoolHolds
  BY DEF PumpInPool, ClosesInOrder, NoneRunning, PoolHolds, ClosedIsQuiet
<1>. QED
  BY <1>1, <1>2, <1>3, Base, PTL DEF Spec

(* Another run's step leaves a run alone.                                  *)
LEMMA RunStepOthers ==
  ASSUME TypeOK, NEW t \in Tasks, RunStep(t), NEW s \in Tasks, s # t
  PROVE  /\ phase'[s] = phase[s] /\ result'[s] = result[s] /\ predecessors'[s] = predecessors[s]
         /\ s \in aborted => s \in aborted'
  BY DEF TypeOK, RunStep, RunStarts, RunChecks, ProviderStarts, SetupFails, runVars,
     ProviderReportsSession, ProviderExits, RunSettles, RunFinishes, RunFinishFails, RunReleases,
     Moves

Owned(t) == \/ claimed = t
            \/ phase[t] \notin {"none", "releasing"}
            \/ phase[t] = "releasing" /\ result[t] = "unrecorded"

(* A run gives its turn an end before it is released, or stops admission.  *)
LEMMA RunStepOwned ==
  ASSUME TypeOK, RunInv, RunningIsOwned, NEW t \in Tasks, RunStep(t)
  PROVE  RunningIsOwned'
<1>0. /\ phase \in [Tasks -> Phases] /\ result \in [Tasks -> Results \cup {None, "unrecorded"}]
      /\ status \in [Tasks -> TaskStatus]
  BY DEF TypeOK, StoreTypeOK
<1>1. ClaimsNone
  BY RunStepClaimsNone
<1>2. claimed' = claimed /\ (Available' => Available)
  <2>1. CASE RunReleases(t)
    BY <1>0, <2>1, RunStepActive DEF Available, RunReleases, OwnTypeOK, TypeOK
  <2>2. CASE ~RunReleases(t)
    BY <2>2, RunStepActive DEF Available
  <2>. QED
    BY <2>1, <2>2
<1> SUFFICES ASSUME Available', NEW s \in Tasks, status'[s] = "running"
             PROVE  Owned(s)'
  BY DEF RunningIsOwned, Owned
<1>3. status[s] = "running" /\ Owned(s)
  BY <1>1, <1>2 DEF ClaimsNone, RunningIsOwned, Owned
<1>4. CASE s # t \/ claimed = s
  BY <1>2, <1>3, <1>4, RunStepOthers DEF Owned
<1>5. CASE s = t /\ claimed # s
  <2>1. CASE \/ RunStarts(t) \/ ProviderStarts(t) \/ SetupFails(t)
             \/ \E outcome \in Results : ProviderExits(t, outcome)
    BY <1>0, <1>5, <2>1 DEF RunStarts, ProviderStarts, SetupFails, ProviderExits, Moves, Owned
  <2>2. CASE RunChecks(t)
    BY <1>0, <1>3, <1>5, <2>2 DEF RunChecks, Owned
  <2>3. CASE ProviderReportsSession(t)
    BY <1>3, <1>5, <2>3 DEF ProviderReportsSession, runVars, pumpVars, Owned
  <2>4. CASE RunSettles(t)
    BY <1>0, <1>2, <1>5, <2>4 DEF RunSettles, Moves, Owned, Available
  <2>5. CASE RunFinishes(t)
    <3>1. CASE status[t] = "running"
      <4>1. status'[t] \in {"succeeded", "failed"}
        BY <1>0, <2>5, <3>1 DEF RunFinishes, FinishTask
      <4>. QED
        BY <1>5, <4>1
    <3>2. CASE status[t] # "running"
      BY <1>3, <1>5, <3>2
    <3>. QED
      BY <3>1, <3>2
  <2>6. CASE RunFinishFails(t)
    BY <1>0, <1>5, <2>6 DEF RunFinishFails, Moves, Owned
  <2>7. CASE RunReleases(t)
    BY <1>0, <1>3, <1>5, <2>7 DEF RunReleases, Moves, Owned, Available
  <2>. QED
    BY <2>1, <2>2, <2>3, <2>4, <2>5, <2>6, <2>7 DEF RunStep
<1>. QED
  BY <1>4, <1>5

LEMMA NextOwned ==
  ASSUME TypeOK, RunInv, PumpInPool, RunningIsOwned, [Next]_vars
  PROVE  RunningIsOwned'
<1>0. ~PumpClaim => ClaimsNone
  BY NextClaimsNone
<1>1. ASSUME ClaimsNone, Available' => Available \/ NoneRunning',
             UNCHANGED <<phase, result, claimed>>
      PROVE  RunningIsOwned'
  BY <1>1 DEF RunningIsOwned, ClaimsNone, NoneRunning
<1>2. CASE PumpClaim
  <2>1. claimed = None /\ pump = "claiming"
    BY <1>2 DEF PumpClaim, PumpInPool
  <2>2. UNCHANGED <<phase, result, process, workerFailure>>
    BY <1>2 DEF PumpClaim, runVars, lifeVars
  <2>3. ASSUME NEW t \in Tasks, status'[t] = "running" PROVE status[t] = "running" \/ claimed' = t
    BY <1>2, <2>3 DEF PumpClaim, ClaimNextTask, storeVars, TypeOK, StoreTypeOK
  <2>. QED
    BY <2>1, <2>2, <2>3, NoneAssumption DEF RunningIsOwned, Available
<1>3. CASE PumpLaunch
  <2>0. PICK c \in Tasks : c = claimed
    BY <1>3 DEF PumpLaunch, TypeOK
  <2>1. /\ phase' = [phase EXCEPT ![c] = "waiting"] /\ phase \in [Tasks -> Phases]
        /\ UNCHANGED <<result, status, process, workerFailure>>
    BY <1>3, <2>0 DEF PumpLaunch, Launch, storeVars, lifeVars, TypeOK
  <2>. QED
    BY <2>0, <2>1 DEF RunningIsOwned, Available
<1>4. CASE PumpFails
  BY <1>4 DEF PumpFails, RunningIsOwned, Available
<1>5. CASE DeliverWake \/ PumpPromote \/ PumpPromoted \/ PumpFoundNothing
  <2>1. UNCHANGED <<phase, result, claimed, process, workerFailure>> /\ ~PumpClaim
    BY <1>5 DEF DeliverWake, PumpPromote, PumpPromoted, PumpFoundNothing, PumpClaim, Wake,
       runVars, lifeVars, PumpInPool, Drain
  <2>. QED
    BY <1>0, <1>1, <2>1 DEF Available
<1>6. CASE ClientStep \/ UNCHANGED vars
  <2>1. UNCHANGED <<phase, result, claimed, process, workerFailure, pump>>
    BY <1>6 DEF vars, ClientStep, Create, Start, Resume, Cancel, CancelAborts, Continue, Enqueue,
       Remove, Fence, Unfence, Admits, Idles, runVars, pumpVars, lifeVars
  <2>. QED
    BY <1>0, <1>1, <2>1 DEF Available, PumpClaim
<1>7. CASE Initialize
  <2>1. InterruptRunningTasks /\ UNCHANGED <<phase, result, claimed, pump>>
    BY <1>7 DEF Initialize, runVars
  <2>2. NoneRunning'
    BY <2>1 DEF InterruptRunningTasks, NoneRunning
  <2>. QED
    BY <2>2 DEF RunningIsOwned, NoneRunning
<1>8. CASE Close \/ CloseSnapshots \/ CloseInterrupts \/ ProcessEnds
  BY <1>8 DEF Close, CloseSnapshots, CloseInterrupts, ProcessEnds, RunningIsOwned, Available
<1>. QED
  BY <1>2, <1>3, <1>4, <1>5, <1>6, <1>7, <1>8, RunStepOwned DEF Next, PumpStep, LifeStep

(* While the service works, every running row has an owner that will give  *)
(* it an end.                                                              *)
THEOREM RunningOwned == Spec => []RunningIsOwned
<1>1. Init => PumpInPool /\ RunningIsOwned
  <2> SUFFICES ASSUME Init PROVE PumpInPool /\ RunningIsOwned
    OBVIOUS
  <2>1. Active = {}
    BY DEF Init, Idle, Active
  <2>. QED
    BY <2>1, FS_EmptySet, ConcurrencyAssumption DEF Init, PumpInPool, BoundedPool,
       RunningIsOwned, Available
<1>2. TypeOK /\ RunInv /\ PumpInPool /\ RunningIsOwned /\ [Next]_vars
        => (PumpInPool /\ RunningIsOwned)'
  BY NextInPool, NextOwned
<1>. QED
  BY <1>1, <1>2, Base, PTL DEF Spec

----------------------------------------------------------------------------
(* Stop.                                                                   *)

(* A row stops running by its own Stop or end, or by an interruption of    *)
(* them all.                                                               *)
LEMMA StoreKeepsRunning ==
  ASSUME StoreTypeOK, NEW t \in Tasks, status[t] = "running",
         \/ UNCHANGED storeVars \/ PromotePending
         \/ \E u \in Tasks : \/ CreateTask(u) \/ QueueTask(u) \/ ClaimNextTask(u)
                             \/ CaptureSession(u) \/ ResumePending(u)
         \/ \E u \in Tasks \ {t} :
              CancelTask(u) \/ \E outcome \in Results \cup {None, "unrecorded"} : FinishTask(u, outcome)
         \/ \E u, v \in Tasks : ContinueTask(u, v)
         \/ \E m \in Messages, u \in Tasks : EnqueuePending(m, u)
         \/ \E m \in Messages : RemovePending(m)
  PROVE  status'[t] = "running"
<1>0. status \in [Tasks -> TaskStatus]
  BY DEF StoreTypeOK
<1>1. CASE UNCHANGED status
  BY <1>1
<1>2. ASSUME NEW u \in Tasks, CreateTask(u) \/ QueueTask(u) \/ ClaimNextTask(u)
      PROVE  status'[t] = "running"
  BY <1>0, <1>2 DEF CreateTask, NextTask, QueueTask, ClaimNextTask
<1>3. ASSUME NEW u, NEW v \in Tasks, AdmitContinuation(u, v) PROVE status'[t] = "running"
  BY <1>0, <1>3 DEF AdmitContinuation, NextTask
<1>4. ASSUME NEW u \in Tasks \ {t}, NEW outcome, CancelTask(u) \/ FinishTask(u, outcome)
      PROVE  status'[t] = "running"
  BY <1>0, <1>4 DEF CancelTask, FinishTask, storeVars
<1>5. CASE PromotePending
  BY <1>1, <1>3, <1>5 DEF PromotePending, PromoteFrom, PromoteNone, taskVars
<1>6. ASSUME \/ UNCHANGED storeVars
             \/ \E u \in Tasks : CaptureSession(u) \/ ResumePending(u)
             \/ \E m \in Messages, u \in Tasks : EnqueuePending(m, u)
             \/ \E m \in Messages : RemovePending(m)
      PROVE  status'[t] = "running"
  BY <1>1, <1>6 DEF storeVars, CaptureSession, ResumePending, EnqueuePending, RemovePending, taskVars
<1>. QED
  BY <1>2, <1>3, <1>4, <1>5, <1>6 DEF ContinueTask

(* A run past its check is stopped only by way of its signal.              *)
StopReachesRun(t) == t \in aborted \/ status[t] = "running" \/ t \in stopping
StopsReachSetup == \A t \in Tasks : phase[t] = "setup" => StopReachesRun(t)

LEMMA RunStepStops ==
  ASSUME TypeOK, StopsReachSetup, NEW t \in Tasks, RunStep(t)
  PROVE  StopsReachSetup'
<1>0. StoreTypeOK /\ phase \in [Tasks -> Phases] /\ result[t] \in Results \cup {None, "unrecorded"}
  BY DEF TypeOK
<1>1. stopping' = stopping
  BY RunStepActive
<1>2. ASSUME NEW s \in Tasks, s # t, phase'[s] = "setup" PROVE StopReachesRun(s)'
  <2>1. phase[s] = "setup" /\ (s \in aborted => s \in aborted')
    BY <1>2, RunStepOthers
  <2>2. status[s] = "running" => status'[s] = "running"
    BY <1>0, <1>2, RunStepStores, StoreKeepsRunning
  <2>. QED
    BY <1>1, <2>1, <2>2 DEF StopsReachSetup, StopReachesRun
<1>3. ASSUME phase'[t] = "setup" PROVE StopReachesRun(t)'
  <2>1. CASE RunChecks(t)
    BY <1>0, <1>3, <2>1 DEF RunChecks, storeVars, StopReachesRun
  <2>2. CASE RunSettles(t)
    BY <1>0, <1>3, <2>2 DEF RunSettles, Moves
  <2>3. CASE ~RunChecks(t) /\ ~RunSettles(t)
    BY <1>0, <1>3, <2>3 DEF RunStep, RunStarts, ProviderStarts, SetupFails,
       ProviderReportsSession, ProviderExits, RunFinishes, RunFinishFails, RunReleases,
       Moves, runVars, lifeVars, taskVars, CaptureSession, StopsReachSetup, StopReachesRun
  <2>. QED
    BY <2>1, <2>2, <2>3
<1>. QED
  BY <1>2, <1>3 DEF StopsReachSetup

LEMMA NextStops ==
  ASSUME TypeOK, ClosesInOrder, StopsReachSetup, [Next]_vars
  PROVE  StopsReachSetup'
<1>0. StoreTypeOK /\ phase \in [Tasks -> Phases] /\ status \in [Tasks -> TaskStatus]
  BY DEF TypeOK, StoreTypeOK
<1>1. ASSUME UNCHANGED <<phase, aborted, stopping>>,
             \A t \in Tasks : status[t] = "running" => status'[t] = "running"
      PROVE  StopsReachSetup'
  BY <1>1 DEF StopsReachSetup, StopReachesRun
<1>2. CASE PumpStep /\ ~PumpLaunch
  <2>1. UNCHANGED <<phase, aborted, stopping>>
    BY <1>2 DEF PumpStep, DeliverWake, PumpPromote, PumpPromoted, PumpClaim, PumpFoundNothing,
       PumpFails, runVars, lifeVars
  <2>2. \/ UNCHANGED storeVars \/ PromotePending \/ \E t \in Tasks : ClaimNextTask(t)
    BY <1>2 DEF PumpStep, DeliverWake, PumpPromote, PumpPromoted, PumpClaim, PumpFoundNothing,
       PumpFails
  <2>. QED
    BY <1>0, <1>1, <2>1, <2>2, StoreKeepsRunning
<1>3. CASE PumpLaunch
  BY <1>0, <1>3 DEF PumpLaunch, Launch, lifeVars, storeVars, StopsReachSetup, StopReachesRun
<1>4. ASSUME NEW t \in Tasks, Cancel(t) PROVE StopsReachSetup'
  <2>1. status[t] = "running" => t \in stopping'
    BY <1>0, <1>4 DEF Cancel, CancelTask, Live
  <2>2. \A s \in Tasks \ {t} : status[s] = "running" => status'[s] = "running"
    BY <1>0, <1>4, StoreKeepsRunning DEF Cancel
  <2>3. UNCHANGED <<phase, aborted>> /\ stopping \subseteq stopping'
    BY <1>4 DEF Cancel, runVars
  <2>. QED
    BY <2>1, <2>2, <2>3 DEF StopsReachSetup, StopReachesRun
<1>5. ASSUME NEW t \in Tasks, CancelAborts(t) PROVE StopsReachSetup'
  BY <1>5 DEF CancelAborts, storeVars, StopsReachSetup, StopReachesRun, Active
<1>6. ASSUME ClientStep, ~\E t \in Tasks : Cancel(t) \/ CancelAborts(t) PROVE StopsReachSetup'
  <2>1. UNCHANGED <<phase, aborted, stopping>>
    BY <1>6 DEF ClientStep, Create, Start, Resume, Continue, Enqueue, Remove, Fence, Unfence,
       Admits, Idles, runVars, lifeVars
  <2>2. \/ UNCHANGED storeVars
        \/ \E t \in Tasks : CreateTask(t) \/ QueueTask(t) \/ ResumePending(t)
        \/ \E t, u \in Tasks : ContinueTask(t, u)
        \/ \E m \in Messages, t \in Tasks : EnqueuePending(m, t)
        \/ \E m \in Messages : RemovePending(m)
    BY <1>6 DEF ClientStep, Create, Start, Resume, Continue, Enqueue, Remove, Fence, Unfence
  <2>. QED
    BY <1>0, <1>1, <2>1, <2>2, StoreKeepsRunning
<1>7. CASE Initialize \/ CloseInterrupts
  <2>1. Active = {} /\ phase' = phase
    BY <1>7 DEF Initialize, CloseInterrupts, ClosesInOrder, runVars
  <2>. QED
    BY <2>1 DEF StopsReachSetup, Active
<1>8. CASE Close \/ CloseSnapshots
  BY <1>8 DEF Close, CloseSnapshots, runVars, storeVars, StopsReachSetup, StopReachesRun
<1>9. CASE ProcessEnds
  BY <1>9 DEF ProcessEnds, Idle, StopsReachSetup
<1>10. CASE UNCHANGED vars
  BY <1>10 DEF vars, storeVars, runVars, lifeVars, StopsReachSetup, StopReachesRun
<1>. QED
  BY <1>2, <1>3, <1>4, <1>5, <1>6, <1>7, <1>8, <1>9, <1>10, RunStepStops DEF Next, LifeStep

(* Only ProviderStarts begins a turn.                                      *)
LEMMA BegunByProvider ==
  ASSUME [Next]_vars, NEW t \in begun' \ begun
  PROVE  t \in Tasks /\ ProviderStarts(t)
  BY DEF Next, vars, PumpStep, DeliverWake, PumpPromote, PumpPromoted, PumpClaim, PumpFoundNothing,
     PumpLaunch, PumpFails, RunStep, RunStarts, RunChecks, ProviderStarts, SetupFails,
     ProviderReportsSession, ProviderExits, RunSettles, RunFinishes, RunFinishFails, RunReleases,
     ClientStep, Create, Start, Resume, Cancel, CancelAborts, Continue, Enqueue, Remove, Fence,
     Unfence, Admits, Idles, LifeStep, Initialize, Close, CloseSnapshots, CloseInterrupts,
     ProcessEnds, runVars

(* Once cancel() has answered, the provider of that turn is not started.   *)
THEOREM StopsHold == Spec => StoppedNeverStarts
<1>1. Init => ClosesInOrder /\ StopsReachSetup
  BY DEF Init, Idle, Active, ClosesInOrder, StopsReachSetup
<1>2. TypeOK /\ RunInv /\ ClosesInOrder /\ StopsReachSetup /\ [Next]_vars
        => (ClosesInOrder /\ StopsReachSetup)'
  BY NextClosesInOrder, NextStops
<1>3. TypeOK /\ StopsReachSetup /\ [Next]_vars
        => [\A t \in begun' \ begun : status[t] = "running" \/ t \in stopping]_vars
  <2> SUFFICES ASSUME StopsReachSetup, [Next]_vars, NEW t \in begun' \ begun
               PROVE  status[t] = "running" \/ t \in stopping
    OBVIOUS
  <2>1. t \in Tasks /\ ProviderStarts(t)
    BY BegunByProvider
  <2>. QED
    BY <2>1 DEF ProviderStarts, Moves, StopsReachSetup, StopReachesRun
<1>. QED
  BY <1>1, <1>2, <1>3, Base, PTL DEF Spec, StoppedNeverStarts

----------------------------------------------------------------------------
(* The order of the turns.                                                 *)

(* A turn that was claimed or begun is never claimed again; one claimed or *)
(* not yet begun is newer than all turns of its conversation that have     *)
(* begun; a turn is launched behind older ones.                            *)
NotBegun == {"waiting", "checking", "setup"}
RanOnce == \A t \in ran : status[t] \notin Unclaimed
InOrder ==
  /\ \A t \in begun : status[t] \notin Unclaimed
  /\ \A t \in Tasks : t = claimed \/ phase[t] \in NotBegun =>
       \A u \in begun : root[u] = root[t] => u < t
  /\ \A t \in Tasks : t = claimed => \A s \in Active : root[s] = root[t] => s < t
  /\ \A t \in Tasks : \A s \in predecessors[t] : s < t

LEMMA StoreKeepsRan ==
  ASSUME StoreTypeOK, RanOnce, [StoreNext]_storeVars
  PROVE  RanOnce'
<1>1. \A t \in ran : t \in Tasks /\ status'[t] \notin Unclaimed
  BY StoreKeepsClaims DEF RanOnce, StoreTypeOK
<1>2. CASE ran' = ran
  BY <1>1, <1>2 DEF RanOnce
<1>3. ASSUME NEW t \in Tasks, ClaimNextTask(t) PROVE RanOnce'
  BY <1>1, <1>3 DEF ClaimNextTask, RanOnce, StoreTypeOK, Unclaimed, Unstarted
<1>4. CASE ~\E t \in Tasks : ClaimNextTask(t)
  <2>1. ASSUME PromotePending PROVE ran' = ran
    BY <2>1 DEF PromotePending, PromoteFrom, PromoteNone, AdmitContinuation, taskVars
  <2>2. ASSUME NEW t \in Tasks, NEW outcome, FinishTask(t, outcome) PROVE ran' = ran
    BY <2>2 DEF FinishTask, storeVars
  <2>. QED
    BY <1>2, <1>4, <2>1, <2>2 DEF StoreNext, CreateTask, QueueTask, CancelTask, CaptureSession,
       ResumePending, InterruptRunningTasks, ContinueTask, AdmitContinuation, EnqueuePending,
       RemovePending, ClaimPendingSteer, ReleaseSteer, AcceptSteer, taskVars, storeVars
<1>. QED
  BY <1>3, <1>4

(* A step that claims, launches and begins nothing.                        *)
LEMMA AdvanceKeepsOrder ==
  ASSUME TypeOK, RunInv, InOrder, [StoreNext]_storeVars, RunsOnlyAdvance,
         begun' = begun, claimed' = claimed \/ claimed' = None,
         \A t \in Tasks : phase'[t] \in NotBegun => phase[t] \in NotBegun
  PROVE  InOrder'
<1>1. StoreTypeOK /\ begun \subseteq Tasks /\ predecessors \in [Tasks -> SUBSET Tasks]
  BY DEF TypeOK
<1>2. \A t \in begun : status'[t] \notin Unclaimed /\ root'[t] = root[t]
  BY <1>1, StoreKeepsClaims DEF InOrder, Unclaimed, Unstarted
<1>3. \A t \in Active : root'[t] = root[t]
  BY <1>1, StoreKeepsClaims DEF RunInv, LaunchedOnce, Launched, Active, Unclaimed, Unstarted
<1>4. \A t \in Tasks : t = claimed => root'[t] = root[t]
  BY <1>1, StoreKeepsClaims DEF RunInv, LaunchedOnce, Unclaimed, Unstarted
<1>5. Active' \subseteq Active /\ \A t \in Tasks : predecessors'[t] \in {predecessors[t], {}}
  BY DEF RunsOnlyAdvance, Active
<1>6. ASSUME NEW t \in Tasks, t = claimed' \/ phase'[t] \in NotBegun,
             NEW u \in begun', root'[u] = root'[t]
      PROVE  u < t
  <2>1. t = claimed \/ phase[t] \in NotBegun
    BY <1>6, NoneAssumption
  <2>2. root[u] = root[t]
    BY <1>2, <1>3, <1>4, <1>6, <2>1 DEF Active, NotBegun
  <2>. QED
    BY <1>6, <2>1, <2>2 DEF InOrder
<1>7. ASSUME NEW t \in Tasks, t = claimed', NEW s \in Active', root'[s] = root'[t]
      PROVE  s < t
  BY <1>3, <1>4, <1>5, <1>7, NoneAssumption DEF InOrder
<1>8. ASSUME NEW t \in Tasks, NEW s \in predecessors'[t] PROVE s < t
  BY <1>5, <1>8 DEF InOrder
<1>. QED
  BY <1>2, <1>6, <1>7, <1>8 DEF InOrder

LEMMA ClaimKeepsOrder ==
  ASSUME TypeOK, RunInv, Chain, InOrder, NEW t \in Tasks, ClaimNextTask(t), claimed' = t,
         UNCHANGED runVars
  PROVE  InOrder'
<1>0. /\ status \in [Tasks -> TaskStatus] /\ begun \subseteq Tasks /\ Active \subseteq Tasks
      /\ Tasks \subseteq Nat /\ root \in [Tasks -> Tasks] /\ latest \in [Tasks -> Tasks]
  BY SequencesAssumption DEF TypeOK, StoreTypeOK, Active
<1>1. /\ status[t] = "queued" /\ status' = [status EXCEPT ![t] = "running"]
      /\ UNCHANGED <<root, phase, begun, predecessors>>
  BY DEF ClaimNextTask, IsNextQueued, Queued, runVars
<1>2. \A u \in begun \cup Active : u # t
  BY <1>1 DEF InOrder, RunInv, LaunchedOnce, Launched, Unclaimed
<1>3. \A u \in Tasks : root[u] = root[t] => u <= t
  BY <1>1 DEF Chain, OneLiveTurn, LatestIsNewest, Live
<1>4. \A u \in begun \cup Active : root[u] = root[t] => u < t
  BY <1>0, <1>2, <1>3
<1>5. \A u \in begun : status'[u] \notin Unclaimed
  BY <1>0, <1>1, <1>2 DEF InOrder
<1>. QED
  BY <1>1, <1>4, <1>5 DEF InOrder, Active

LEMMA LaunchKeepsOrder ==
  ASSUME TypeOK, RunInv, InOrder, PumpLaunch
  PROVE  InOrder'
<1>0. PICK c \in Tasks : c = claimed
  BY DEF PumpLaunch, TypeOK
<1>1. /\ claimed' = None
      /\ phase' = [phase EXCEPT ![c] = "waiting"]
      /\ predecessors' = [predecessors EXCEPT ![c] = SameConversation(c)]
      /\ UNCHANGED <<begun, status, root>>
      /\ phase \in [Tasks -> Phases] /\ predecessors \in [Tasks -> SUBSET Tasks]
  BY <1>0 DEF PumpLaunch, Launch, storeVars, TypeOK
<1>2. \A s \in SameConversation(c) : s < c
  BY <1>0 DEF SameConversation, InOrder
<1>. QED
  BY <1>0, <1>1, <1>2, NoneAssumption DEF InOrder

LEMMA BeginKeepsOrder ==
  ASSUME TypeOK, RunInv, InOrder, NEW t \in Tasks, ProviderStarts(t)
  PROVE  InOrder'
<1>0. /\ phase[t] = "setup" /\ phase' = [phase EXCEPT ![t] = "executing"]
      /\ begun' = begun \cup {t} /\ UNCHANGED <<claimed, predecessors, status, root>>
      /\ phase \in [Tasks -> Phases] /\ Active \subseteq Tasks
  BY DEF ProviderStarts, Moves, pumpVars, storeVars, TypeOK, Active
<1>1. t \in Active /\ t \in Working /\ Active' = Active
  BY <1>0 DEF Active, Working
<1>2. status[t] \notin Unclaimed
  BY <1>1 DEF RunInv, LaunchedOnce, Launched
<1>3. ASSUME NEW s \in Tasks, s = claimed \/ phase'[s] \in NotBegun, root[s] = root[t] PROVE t < s
  <2>1. CASE s = claimed
    BY <1>1, <1>3, <2>1 DEF InOrder
  <2>2. CASE phase'[s] \in NotBegun
    <3>1. s # t /\ s \in Active
      BY <1>0, <2>2 DEF NotBegun, Active
    <3>2. t \in Behind(s)
      BY <1>1, <1>3, <3>1 DEF RunInv, RunsInLine
    <3>. QED
      BY <3>2 DEF Behind, InOrder
  <2>. QED
    BY <1>3, <2>1, <2>2
<1>4. \A s \in Tasks : phase'[s] \in NotBegun => phase[s] \in NotBegun
  BY <1>0 DEF NotBegun
<1>5. ASSUME NEW s \in Tasks, s = claimed' \/ phase'[s] \in NotBegun, NEW u \in begun',
             root'[u] = root'[s]
      PROVE  u < s
  BY <1>0, <1>3, <1>4, <1>5 DEF InOrder
<1>. QED
  BY <1>0, <1>1, <1>2, <1>5 DEF InOrder

LEMMA NextInOrder ==
  ASSUME TypeOK, RunInv, Chain, InOrder, [Next]_vars
  PROVE  InOrder'
<1>0. [StoreNext]_storeVars /\ phase \in [Tasks -> Phases]
  BY NextStore DEF TypeOK
<1>1. ASSUME UNCHANGED <<phase, predecessors, begun>>, claimed' = claimed \/ claimed' = None
      PROVE  InOrder'
  <2>1. RunsOnlyAdvance
    BY <1>1 DEF RunsOnlyAdvance, RunInv, RunsInLine, Working
  <2>. QED
    BY <1>0, <1>1, <2>1, AdvanceKeepsOrder
<1>2. CASE PumpClaim
  BY <1>1, <1>2, ClaimKeepsOrder DEF PumpClaim, runVars
<1>3. CASE PumpStep /\ ~PumpClaim /\ ~PumpLaunch
  BY <1>1, <1>3 DEF PumpStep, DeliverWake, PumpPromote, PumpPromoted, PumpFoundNothing, PumpFails,
     runVars
<1>4. ASSUME NEW t \in Tasks, RunStep(t), ~ProviderStarts(t) PROVE InOrder'
  <2>1. RunsOnlyAdvance /\ claimed' = claimed
    BY <1>4, RunStepAdvances, RunStepActive
  <2>2. begun' = begun
    BY <1>4 DEF RunStep, RunStarts, RunChecks, SetupFails, ProviderReportsSession, ProviderExits,
       RunSettles, RunFinishes, RunFinishFails, RunReleases, runVars
  <2>3. \A s \in Tasks : phase'[s] \in NotBegun => phase[s] \in NotBegun
    BY <1>0, <1>4 DEF RunStep, RunStarts, RunChecks, SetupFails, ProviderReportsSession,
       ProviderExits, RunSettles, RunFinishes, RunFinishFails, RunReleases, runVars, Moves, NotBegun
  <2>. QED
    BY <1>0, <2>1, <2>2, <2>3, AdvanceKeepsOrder
<1>5. CASE ClientStep \/ UNCHANGED vars
  BY <1>1, <1>5 DEF vars, ClientStep, Create, Start, Resume, Cancel, CancelAborts, Continue, Enqueue,
     Remove, Fence, Unfence, Admits, Idles, runVars, pumpVars
<1>6. CASE Initialize \/ Close \/ CloseSnapshots \/ CloseInterrupts
  BY <1>1, <1>6 DEF Initialize, Close, CloseSnapshots, CloseInterrupts, runVars, pumpVars
<1>7. CASE ProcessEnds
  BY <1>7, NoneAssumption DEF ProcessEnds, Idle, storeVars, InOrder, NotBegun
<1>. QED
  BY <1>2, <1>3, <1>4, <1>5, <1>6, <1>7, LaunchKeepsOrder, BeginKeepsOrder DEF Next, PumpStep, LifeStep

(* What the service shows of TurnOrder.                                    *)
Known == {u \in Tasks : status[u] # "absent"}
Conversations == [t \in Known |-> root[t]]
Executing == {t \in Tasks : phase[t] = "executing"}
Accepts(t) ==
  /\ t \in Tasks \ Known /\ Known' = Known \cup {t}
  /\ root'[t] \in Known \cup {t}
  /\ \A u \in Known : root'[u] = root[u]

LEMMA TurnsOfService ==
  /\ Turns!Init <=> Conversations = [t \in {} |-> t] /\ Executing = {} /\ begun = {}
  /\ Turns!Accepted = Known
  BY DEF Turns!Init, Turns!Accepted, Known, Conversations, Executing

(* A store operation accepts one new turn, or shows nothing.               *)
LEMMA StoreAccepts ==
  ASSUME StoreTypeOK, Chain, [StoreNext]_storeVars
  PROVE  UNCHANGED Conversations \/ \E t \in Tasks : Accepts(t)
<1>0. status \in [Tasks -> TaskStatus] /\ root \in [Tasks -> Tasks] /\ latest \in [Tasks -> Tasks]
  BY DEF StoreTypeOK
<1>1. \A t \in Known : root'[t] = root[t]
  BY StoreKeepsClaims DEF Known
<1>2. CASE Known' = Known
  BY <1>1, <1>2 DEF Conversations
<1>3. ASSUME NEW t \in Tasks, CreateTask(t) PROVE Accepts(t)
  <2>1. status[t] = "absent" /\ status' = [status EXCEPT ![t] = "draft"] /\ root' = root
    BY <1>3 DEF CreateTask, NextTask
  <2>2. root[t] = t
    BY <2>1 DEF Chain, UnstartedAlone, Unstarted
  <2>. QED
    BY <1>0, <2>1, <2>2 DEF Known, Accepts
<1>4. ASSUME NEW t \in Tasks, NEW u \in Tasks, AdmitContinuation(t, u) PROVE Accepts(u)
  <2>1. /\ status[u] = "absent" /\ status' = [status EXCEPT ![u] = "queued"]
        /\ root' = [root EXCEPT ![u] = root[t]] /\ status[t] \in Finished
    BY <1>4 DEF AdmitContinuation, NextTask, Resumable
  <2>2. root[t] \in Known
    BY <1>0, <2>1 DEF Chain, UnstartedAlone, Unstarted, Finished, Stopped, Known
  <2>. QED
    BY <1>0, <2>1, <2>2 DEF Known, Accepts
<1>5. ASSUME NEW t \in Tasks, QueueTask(t) \/ CancelTask(t) \/ ClaimNextTask(t) PROVE Known' = Known
  BY <1>0, <1>5 DEF QueueTask, CancelTask, ClaimNextTask, IsNextQueued, Queued, Known, Live
<1>6. ASSUME NEW t \in Tasks, NEW outcome, FinishTask(t, outcome) PROVE Known' = Known
  BY <1>0, <1>6 DEF FinishTask, Correctable, storeVars, Known
<1>7. ASSUME InterruptRunningTasks PROVE Known' = Known
  BY <1>0, <1>7 DEF InterruptRunningTasks, Known
<1>8. ASSUME NEW r \in Tasks, NEW u \in Tasks, NEW refused, PromoteFrom(r, u, refused)
      PROVE  Accepts(u)
  BY <1>0, <1>4, <1>8 DEF PromoteFrom
<1>9. ASSUME \/ UNCHANGED storeVars
             \/ \E refused : PromoteNone(refused)
             \/ \E u \in Tasks : CaptureSession(u) \/ ResumePending(u)
             \/ \E m \in Messages, u \in Tasks : EnqueuePending(m, u)
             \/ \E m \in Messages : RemovePending(m)
             \/ \E u \in Tasks, m \in Messages :
                  ClaimPendingSteer(u, m) \/ ReleaseSteer(u, m) \/ AcceptSteer(u, m)
      PROVE  Known' = Known
  BY <1>9 DEF storeVars, PromoteNone, CaptureSession, ResumePending, EnqueuePending, RemovePending,
     ClaimPendingSteer, ReleaseSteer, AcceptSteer, taskVars, Known
<1>. QED
  BY <1>2, <1>3, <1>4, <1>5, <1>6, <1>7, <1>8, <1>9 DEF StoreNext, ContinueTask, PromotePending

LEMMA AcceptMaps ==
  ASSUME NEW t \in Tasks, Accepts(t), UNCHANGED <<Executing, begun>>
  PROVE  Turns!Accept(t)
<1>1. \E c \in Known \cup {t} :
        Conversations' = [u \in Known \cup {t} |-> IF u = t THEN c ELSE Conversations[u]]
  <2>1. Conversations' = [u \in Known \cup {t} |-> IF u = t THEN root'[t] ELSE Conversations[u]]
    BY DEF Accepts, Conversations
  <2>. QED
    BY <2>1 DEF Accepts
<1>. QED
  BY <1>1, TurnsOfService DEF Turns!Accept, Accepts, Known, Conversations, Executing

(* The provider of a turn starts when those before it are through.         *)
LEMMA BeginMaps ==
  ASSUME TypeOK, RunInv, InOrder, NEW t \in Tasks, ProviderStarts(t)
  PROVE  Turns!Begin(t)
<1>0. /\ phase[t] = "setup" /\ phase' = [phase EXCEPT ![t] = "executing"]
      /\ begun' = begun \cup {t} /\ UNCHANGED <<status, root>>
      /\ phase \in [Tasks -> Phases] /\ Tasks \subseteq Nat /\ begun \subseteq Tasks
  BY SequencesAssumption DEF ProviderStarts, Moves, storeVars, TypeOK
<1>1. t \in Active /\ t \in Known
  BY <1>0 DEF Active, Known, RunInv, LaunchedOnce, Launched, Unclaimed, Unstarted
<1>2. \A u \in begun : root[u] = root[t] => u < t
  BY <1>0 DEF InOrder, NotBegun
<1>3. t \notin begun
  BY <1>0, <1>2
<1>4. \A u \in begun : u \in Known
  BY <1>0 DEF InOrder, Known, Unclaimed, Unstarted
<1>5. ASSUME NEW u \in begun, root[u] = root[t] PROVE u \notin Executing
  <2>1. u # t
    BY <1>3
  <2>2. CASE u \in Executing
    <3>1. u \in Working /\ t \in Working /\ u \in Active
      BY <1>0, <2>2 DEF Executing, Working, Active
    <3>. QED
      BY <1>1, <1>5, <2>1, <3>1 DEF RunInv, RunsInLine, Behind
  <2>. QED
    BY <2>2
<1>6. Executing' = Executing \cup {t} /\ Conversations' = Conversations
  BY <1>0 DEF Executing, Conversations, Known
<1>7. \A u \in begun : Conversations[u] = Conversations[t] => u \notin Executing /\ u < t
  BY <1>1, <1>2, <1>4, <1>5 DEF Conversations
<1>. QED
  BY <1>0, <1>1, <1>3, <1>6, <1>7, TurnsOfService
  DEF Turns!Begin, Conversations, Executing, Known

LEMMA NextMaps ==
  ASSUME TypeOK, RunInv, Chain, InOrder, [Next]_vars
  PROVE  [Turns!Next]_(Turns!vars)
<1>0. StoreTypeOK /\ phase \in [Tasks -> Phases] /\ [StoreNext]_storeVars
  BY NextStore DEF TypeOK
<1>1. CASE UNCHANGED <<Executing, begun>>
  <2>1. CASE UNCHANGED Conversations
    BY <1>1, <2>1 DEF Turns!vars, Conversations, Executing, Known
  <2>2. ASSUME NEW t \in Tasks, Accepts(t) PROVE Turns!Next
    BY <1>1, <2>2, AcceptMaps DEF Turns!Next
  <2>. QED
    BY <1>0, <2>1, <2>2, StoreAccepts
<1>2. CASE UNCHANGED <<storeVars, begun>> /\ Executing' \subseteq Executing
  <2>1. \E ended \in SUBSET Executing : Executing' = Executing \ ended
    <3>1. Executing' = Executing \ (Executing \ Executing')
      BY <1>2
    <3>. QED
      BY <3>1
  <2>2. UNCHANGED <<Conversations, begun>>
    BY <1>2 DEF storeVars, Conversations, Known
  <2>. QED
    BY <2>1, <2>2 DEF Turns!Next, Turns!End, Conversations, Executing, Known
<1>3. ASSUME NEW t \in Tasks, ProviderStarts(t) PROVE Turns!Next
  BY <1>3, BeginMaps DEF Turns!Next
<1>4. ASSUME NEW t \in Tasks, RunStep(t), ~ProviderStarts(t) PROVE [Turns!Next]_(Turns!vars)
  <2>1. ASSUME NEW outcome \in Results, ProviderExits(t, outcome)
        PROVE  UNCHANGED <<storeVars, begun>> /\ Executing' \subseteq Executing
    BY <1>0, <2>1 DEF ProviderExits, Moves, Executing
  <2>2. CASE ~\E outcome \in Results : ProviderExits(t, outcome)
    <3>1. UNCHANGED <<Executing, begun>>
      BY <1>0, <1>4, <2>2 DEF RunStep, RunStarts, RunChecks, SetupFails, ProviderReportsSession,
         RunSettles, RunFinishes, RunFinishFails, RunReleases, runVars, Moves, Executing
    <3>. QED
      BY <1>1, <3>1
  <2>. QED
    BY <1>2, <2>1, <2>2
<1>5. CASE PumpStep
  <2>1. UNCHANGED <<Executing, begun>>
    <3>1. CASE PumpLaunch
      <4>1. PICK c \in Tasks : c = claimed
        BY <3>1 DEF PumpLaunch, TypeOK
      <4>2. phase[c] = "none" /\ phase' = [phase EXCEPT ![c] = "waiting"] /\ begun' = begun
        BY <3>1, <4>1 DEF PumpLaunch, Launch, RunInv, LaunchedOnce, Launched, Active
      <4>. QED
        BY <1>0, <4>2 DEF Executing
    <3>. QED
      BY <1>5, <3>1 DEF PumpStep, DeliverWake, PumpPromote, PumpPromoted, PumpClaim,
         PumpFoundNothing, PumpFails, runVars, Executing
  <2>. QED
    BY <1>1, <2>1
<1>6. CASE ClientStep \/ Initialize \/ Close \/ CloseSnapshots \/ CloseInterrupts \/ UNCHANGED vars
  <2>1. UNCHANGED <<Executing, begun>>
    BY <1>6 DEF vars, ClientStep, Create, Start, Resume, Cancel, CancelAborts, Continue, Enqueue,
       Remove, Fence, Unfence, Admits, Idles, Initialize, Close, CloseSnapshots, CloseInterrupts,
       runVars, Executing
  <2>. QED
    BY <1>1, <2>1
<1>7. CASE ProcessEnds
  BY <1>2, <1>7 DEF ProcessEnds, Idle, Executing
<1>. QED
  BY <1>3, <1>4, <1>5, <1>6, <1>7 DEF Next, LifeStep

(* The service implements TurnOrder: the turns of each conversation are    *)
(* executed one at a time, in the order they were accepted, and never      *)
(* twice, through every Stop, shutdown, crash and restart.                 *)
THEOREM ImplementsTurnOrder == Spec => TurnsInOrder
<1>1. Init => InOrder /\ Turns!Init
  <2> SUFFICES ASSUME Init PROVE InOrder /\ Turns!Init
    OBVIOUS
  <2>1. InOrder
    BY NoneAssumption DEF Init, Idle, InOrder, Active, NotBegun
  <2>2. Known = {} /\ Executing = {} /\ begun = {}
    BY DEF Init, StoreInit, Idle, Known, Executing
  <2>. QED
    BY <2>1, <2>2, TurnsOfService DEF Conversations
<1>2. TypeOK /\ RunInv /\ StoreInv /\ InOrder /\ [Next]_vars => InOrder' /\ [Turns!Next]_(Turns!vars)
  BY NextInOrder, NextMaps DEF StoreInv
<1>. QED
  BY <1>1, <1>2, Base, PTL DEF Spec, TurnsInOrder, Turns!Spec

----------------------------------------------------------------------------
(* Wakeups.                                                                *)

(* A turn promoted from another conversation that the pump may yet claim,  *)
(* or that a Stop has overtaken.                                           *)
Upcoming(r) ==
  \E u \in Tasks \ ran : status[u] \in {"queued", "cancelled"} /\ root[u] # r /\ PromotedTurn(u)
Unasked == ~wakeOwed /\ ~wakeRequested
NoneWaits == Queued = {} /\ \A r \in Candidates : latest[r] \in Active \/ Overtaken(r)

(* What the pump has seen while nothing asks it to look again: after the   *)
(* answer to promotePending no message is left that could be promoted,     *)
(* except in queues behind the promoted one; after an empty claim, and     *)
(* while it rests, no queued turn either.                                  *)
LookedAt ==
  /\ pump \in {"promoted", "claiming"} /\ Unasked =>
       \A r \in Candidates : latest[r] \in Active \/ Upcoming(r)
  /\ pump = "answered" /\ claimed = None /\ Unasked => NoneWaits
  /\ NoLostWakeup

(* A step that gives the pump nothing new to see.                          *)
NothingNew ==
  /\ Queued' \subseteq Queued
  /\ \A r \in Candidates' : latest'[r] = latest[r] /\ (r \in Candidates \/ latest[r] \in Active)
  /\ \A r \in Tasks : (Overtaken(r) => Overtaken(r)') /\ (Upcoming(r) => Upcoming(r)')

LEMMA NothingNewKeepsLook ==
  ASSUME LookedAt, NothingNew, Active' = Active, MayAdmit' => MayAdmit,
         UNCHANGED <<pump, claimed, wakeRequested, wakeOwed>>
  PROVE  LookedAt'
<1>0. Candidates' \subseteq Tasks /\ Unasked' = Unasked
  BY DEF Candidates, Unasked
<1>1. NoneWaits => NoneWaits'
  BY <1>0 DEF NoneWaits, NothingNew
<1>2. NoLostWakeup'
  BY <1>1 DEF LookedAt, NoLostWakeup, NoneWaits
<1>3. pump' \in {"promoted", "claiming"} /\ Unasked' =>
        \A r \in Candidates' : latest'[r] \in Active' \/ Upcoming(r)'
  BY <1>0 DEF LookedAt, NothingNew
<1>. QED
  BY <1>0, <1>1, <1>2, <1>3 DEF LookedAt

LEMMA SameRowsNothingNew ==
  ASSUME UNCHANGED <<status, root, latest, ran, paused, message, claim>>
  PROVE  NothingNew
  BY DEF NothingNew, Queued, Candidates, Waiting, Claimed, Overtaken, Upcoming, PromotedTurn

LEMMA CreateNothingNew ==
  ASSUME StoreInv, NEW t \in Tasks, CreateTask(t)
  PROVE  NothingNew
<1>1. /\ status[t] = "absent" /\ status' = [status EXCEPT ![t] = "draft"]
      /\ status \in [Tasks -> TaskStatus] /\ latest \in [Tasks -> Tasks]
      /\ UNCHANGED <<root, latest, ran, paused, message, claim>>
  BY DEF CreateTask, NextTask, queueVars, StoreInv, StoreTypeOK
<1>2. Queued' \subseteq Queued
  BY <1>1 DEF Queued
<1>3. Candidates' \subseteq Candidates
  BY <1>1 DEF Candidates, Waiting, Claimed, Live
<1>4. \A r \in Tasks : (Overtaken(r) => Overtaken(r)') /\ (Upcoming(r) => Upcoming(r)')
  BY <1>1 DEF Overtaken, Upcoming, PromotedTurn
<1>. QED
  BY <1>1, <1>2, <1>3, <1>4 DEF NothingNew

LEMMA RemoveNothingNew ==
  ASSUME StoreInv, NEW m \in Messages, RemovePending(m)
  PROVE  NothingNew
<1>1. /\ message' = [message EXCEPT ![m].status = "cancelled"] /\ message[m].status # "dispatched"
      /\ message \in [Messages -> MessageRow]
      /\ UNCHANGED <<status, root, latest, ran, paused, claim>>
  BY DEF RemovePending, taskVars, StoreInv, StoreTypeOK
<1>2. /\ \A n \in Messages \ {m} : message'[n] = message[n]
      /\ message'[m].status = "cancelled" /\ message'[m].root = message[m].root
  BY <1>1 DEF MessageRow
<1>3. Candidates' \subseteq Candidates
  BY <1>1, <1>2 DEF Candidates, Waiting, Claimed
<1>4. \A u : PromotedTurn(u) => PromotedTurn(u)'
  BY <1>1, <1>2 DEF PromotedTurn
<1>5. \A r \in Tasks : (Overtaken(r) => Overtaken(r)') /\ (Upcoming(r) => Upcoming(r)')
  BY <1>1, <1>4 DEF Overtaken, Upcoming
<1>. QED
  BY <1>1, <1>3, <1>5 DEF NothingNew, Queued

(* Stop pauses the queue of the conversation whose turn it ends.           *)
LEMMA CancelNothingNew ==
  ASSUME StoreInv, NEW t \in Tasks, CancelTask(t)
  PROVE  NothingNew
<1>1. /\ status' = IF status[t] \in Live \cup {"draft"}
                     THEN [status EXCEPT ![t] = "cancelled"] ELSE status
      /\ status \in [Tasks -> TaskStatus] /\ latest \in [Tasks -> Tasks]
      /\ paused \subseteq paused' /\ (HasQueue(root[t]) => root[t] \in paused')
      /\ UNCHANGED <<root, latest, ran, message, claim>>
  BY DEF CancelTask, PauseQueues, StoreInv, StoreTypeOK
<1>2. Queued' \subseteq Queued
  BY <1>1 DEF Queued
<1>3. ASSUME NEW r \in Candidates' PROVE r \in Candidates
  <2>1. r \in Tasks \ paused /\ Waiting(r) # {}
    BY <1>1, <1>3 DEF Candidates, Waiting, Claimed
  <2>2. HasQueue(r)
    BY <2>1 DEF HasQueue, Waiting
  <2>3. latest[r] # t
    BY <1>1, <1>3, <2>1, <2>2, LatestOfQueue DEF Candidates
  <2>4. status[latest[r]] \notin Live
    BY <1>1, <1>3, <2>1, <2>3 DEF Candidates
  <2>. QED
    BY <2>1, <2>4 DEF Candidates
<1>4. \A u \in Tasks : /\ status[u] = "cancelled" => status'[u] = "cancelled"
                       /\ status[u] = "queued" => status'[u] \in {"queued", "cancelled"}
  BY <1>1
<1>5. \A r \in Tasks : (Overtaken(r) => Overtaken(r)') /\ (Upcoming(r) => Upcoming(r)')
  BY <1>1, <1>4 DEF Overtaken, Upcoming, PromotedTurn
<1>. QED
  BY <1>1, <1>2, <1>3, <1>5 DEF NothingNew

(* The end of a run lets its conversation go on once the run is released.  *)
LEMMA FinishNothingNew ==
  ASSUME StoreInv, NEW t \in Active, NEW outcome, FinishTask(t, outcome)
  PROVE  NothingNew
<1>1. CASE UNCHANGED storeVars
  BY <1>1, SameRowsNothingNew DEF storeVars
<1>2. CASE ~UNCHANGED storeVars
  <2>0. t \in Tasks
    BY DEF Active
  <2>1. /\ status[t] = "running" \/ (status[t] = "cancelled" /\ t \in ran)
        /\ status' = [status EXCEPT ![t] = IF outcome = "succeeded" THEN "succeeded" ELSE "failed"]
        /\ status \in [Tasks -> TaskStatus] /\ latest \in [Tasks -> Tasks] /\ paused \subseteq paused'
        /\ UNCHANGED <<root, latest, ran, message, claim>>
    BY <1>2 DEF FinishTask, Correctable, PauseQueues, StoreInv, StoreTypeOK
  <2>2. Queued' \subseteq Queued
    BY <2>0, <2>1 DEF Queued
  <2>3. \A u \in Tasks \ {t} : status'[u] = status[u]
    BY <2>1
  <2>4. ASSUME NEW r \in Candidates' PROVE r \in Candidates \/ latest[r] = t
    BY <2>1, <2>3, <2>4 DEF Candidates, Waiting, Claimed
  <2>5. \A u \in Tasks \ ran : status[u] \in {"queued", "cancelled"} => u # t
    BY <2>1
  <2>6. \A r \in Tasks : (Overtaken(r) => Overtaken(r)') /\ (Upcoming(r) => Upcoming(r)')
    BY <2>1, <2>3, <2>5 DEF Overtaken, Upcoming, PromotedTurn
  <2>. QED
    BY <2>1, <2>2, <2>4, <2>6 DEF NothingNew
<1>. QED
  BY <1>1, <1>2

(* promotePending pauses what may not go on and promotes the first other.  *)
LEMMA PromoteLooks ==
  ASSUME StoreInv, RanOnce, PromotePending
  PROVE  \A r \in Candidates' : Upcoming(r)'
<1>0. /\ status \in [Tasks -> TaskStatus] /\ root \in [Tasks -> Tasks] /\ latest \in [Tasks -> Tasks]
      /\ message \in [Messages -> MessageRow]
  BY DEF StoreInv, StoreTypeOK
<1>1. ASSUME NEW refused, PromoteNone(refused) PROVE Candidates' = {}
  <2>1. Candidates \subseteq paused'
    BY <1>1 DEF PromoteNone, PauseQueues, Candidates, Waiting, HasQueue
  <2>2. Candidates' \subseteq Candidates
    BY <1>1 DEF PromoteNone, PauseQueues, Candidates, Waiting, Claimed, taskVars
  <2>. QED
    BY <2>1, <2>2 DEF Candidates
<1>2. ASSUME NEW q \in Tasks, NEW u \in Tasks, NEW refused, PromoteFrom(q, u, refused),
             NEW r \in Candidates'
      PROVE  Upcoming(r)'
  <2>1. q \in Promotable /\ Waiting(q) # {}
    BY <1>2 DEF PromoteFrom, Promotable, Candidates
  <2>2. Head(q) \in Messages /\ HasQueue(q)
    BY <2>1, HeadOfQueue DEF Waiting, HasQueue
  <2>3. root[latest[q]] = q
    BY <2>2, LatestOfQueue
  <2>4. /\ status[u] = "absent" /\ status' = [status EXCEPT ![u] = "queued"]
        /\ root' = [root EXCEPT ![u] = q] /\ latest' = [latest EXCEPT ![q] = u] /\ ran' = ran
        /\ message' = [message EXCEPT ![Head(q)] = [status |-> "dispatched", root |-> q, turn |-> u]]
    BY <1>2, <2>3 DEF PromoteFrom, AdmitContinuation, NextTask
  <2>5. PromotedTurn(u)'
    BY <1>0, <2>2, <2>4 DEF PromotedTurn
  <2>6. u \notin ran
    BY <2>4 DEF RanOnce, Unclaimed, Unstarted
  <2>7. r # q
    BY <1>0, <1>2, <2>4 DEF Candidates, Live
  <2>. QED
    BY <1>0, <2>4, <2>5, <2>6, <2>7 DEF Upcoming
<1>. QED
  BY <1>1, <1>2 DEF PromotePending

LEMMA PumpStepLooks ==
  ASSUME TypeOK, StoreInv, RanOnce, PumpInPool, LookedAt, PumpStep
  PROVE  LookedAt'
<1>1. CASE DeliverWake
  <2>1. Active' = Active /\ MayAdmit' = MayAdmit
    BY <1>1 DEF DeliverWake, runVars, lifeVars, Active, MayAdmit, Available
  <2>. QED
    BY <1>1, <2>1 DEF DeliverWake, Wake, Drain, LookedAt, Unasked, NoLostWakeup
<1>2. CASE PumpPromote
  BY <1>2, PromoteLooks DEF PumpPromote, LookedAt, NoLostWakeup
<1>3. CASE PumpPromoted
  <2>1. NothingNew /\ Active' = Active /\ MayAdmit' = MayAdmit
    BY <1>3, SameRowsNothingNew
    DEF PumpPromoted, storeVars, runVars, lifeVars, Active, MayAdmit, Available
  <2>2. CASE MayAdmit
    <3>1. pump = "promoted" /\ pump' = "claiming" /\ Unasked' = Unasked
      BY <1>3, <2>2 DEF PumpPromoted, Unasked
    <3>2. Unasked => \A r \in Candidates' : latest'[r] \in Active' \/ Upcoming(r)'
      BY <2>1, <3>1 DEF LookedAt, NothingNew, Candidates
    <3>. QED
      BY <3>1, <3>2 DEF LookedAt, NoLostWakeup
  <2>3. CASE ~MayAdmit
    BY <1>3, <2>1, <2>3 DEF PumpPromoted, PumpEnds, LookedAt, NoLostWakeup
  <2>. QED
    BY <2>2, <2>3
<1>4. CASE PumpClaim
  <2>1. CASE Queued = {} /\ claimed' = None /\ UNCHANGED storeVars
    <3>1. NothingNew /\ Active' = Active /\ Unasked' = Unasked /\ pump = "claiming"
      BY <1>4, <2>1, SameRowsNothingNew DEF PumpClaim, storeVars, runVars, Active, Unasked
    <3>2. \A r \in Tasks : Upcoming(r) => Overtaken(r)
      BY <2>1 DEF Upcoming, Overtaken, Queued
    <3>3. Unasked => NoneWaits'
      BY <2>1, <3>1, <3>2 DEF NoneWaits, LookedAt, NothingNew, Candidates
    <3>. QED
      BY <1>4, <3>1, <3>3 DEF PumpClaim, LookedAt, NoLostWakeup
  <2>2. CASE claimed' # None
    BY <1>4, <2>2 DEF PumpClaim, LookedAt, NoLostWakeup
  <2>. QED
    BY <1>4, <2>1, <2>2, NoneAssumption DEF PumpClaim
<1>5. CASE PumpFoundNothing
  <2>1. NothingNew /\ Active' = Active /\ MayAdmit' = MayAdmit
    BY <1>5, SameRowsNothingNew
    DEF PumpFoundNothing, storeVars, runVars, lifeVars, Active, MayAdmit, Available
  <2>2. NoneWaits => NoneWaits'
    BY <2>1 DEF NoneWaits, NothingNew, Candidates
  <2>. QED
    BY <1>5, <2>1, <2>2
    DEF PumpFoundNothing, PumpEnds, Drain, LookedAt, Unasked, NoLostWakeup, NoneWaits
<1>6. CASE PumpLaunch
  <2>1. Active' = Active \cup {claimed} /\ MayAdmit' = MayAdmit
    BY <1>6 DEF PumpLaunch, Launch, TypeOK, Active, lifeVars, MayAdmit, Available
  <2>. QED
    BY <1>6, <2>1 DEF PumpLaunch, PumpEnds, Drain, LookedAt, NoLostWakeup
<1>7. CASE PumpFails
  BY <1>7 DEF PumpFails, LookedAt, NoLostWakeup, MayAdmit, Available
<1>. QED
  BY <1>1, <1>2, <1>3, <1>4, <1>5, <1>6, <1>7 DEF PumpStep

LEMMA RunStepLooks ==
  ASSUME TypeOK, StoreInv, LookedAt, NEW t \in Tasks, RunStep(t)
  PROVE  LookedAt'
<1>1. CASE RunReleases(t)
  <2>1. Active' = Active \ {t} /\ (MayAdmit' => MayAdmit)
    <3>1. workerFailure' = TRUE \/ workerFailure' = workerFailure
      BY <1>1 DEF RunReleases
    <3>2. UNCHANGED <<process, fenced>> /\ Active' = Active \ {t}
      BY <1>1, RunStepActive
    <3>. QED
      BY <3>1, <3>2 DEF MayAdmit, Available
  <2>2. (workerFailure' = TRUE /\ pump' = pump /\ wakeRequested' = TRUE)
        \/ (Wake(Active \ {t}) /\ UNCHANGED workerFailure)
    BY <1>1 DEF RunReleases
  <2>3. CASE workerFailure' = TRUE /\ pump' = pump /\ wakeRequested' = TRUE
    BY <2>3 DEF LookedAt, Unasked, NoLostWakeup, MayAdmit, Available
  <2>4. CASE Wake(Active \ {t})
    BY <2>1, <2>4 DEF Wake, Drain, LookedAt, Unasked, NoLostWakeup
  <2>. QED
    BY <2>2, <2>3, <2>4
<1>2. CASE ~RunReleases(t)
  <2>1. /\ Active' = Active /\ UNCHANGED <<pump, claimed, wakeRequested, wakeOwed>>
        /\ UNCHANGED <<process, workerFailure, fenced>>
    BY <1>2, RunStepActive
  <2>2. UNCHANGED storeVars \/ CaptureSession(t) \/ (FinishTask(t, result[t]) /\ t \in Active)
    BY <1>2 DEF RunStep, RunStarts, RunChecks, ProviderStarts, SetupFails, ProviderReportsSession,
       ProviderExits, RunSettles, RunFinishes, RunFinishFails, Moves, Active
  <2>3. NothingNew
    BY <2>2, SameRowsNothingNew, FinishNothingNew DEF storeVars, CaptureSession, taskVars, queueVars
  <2>. QED
    BY <2>1, <2>3, NothingNewKeepsLook DEF MayAdmit, Available
<1>. QED
  BY <1>1, <1>2

LEMMA ClientStepLooks ==
  ASSUME TypeOK, StoreInv, LookedAt, ClientStep
  PROVE  LookedAt'
<1>1. ASSUME \/ \E t \in Tasks : Start(t) \/ Resume(t)
             \/ \E t, u \in Tasks : Continue(t, u)
             \/ \E m \in Messages, t \in Tasks : Enqueue(m, t)
      PROVE  LookedAt'
  BY <1>1 DEF Start, Resume, Continue, Enqueue, Admits, LookedAt, Unasked, NoLostWakeup
<1>2. ASSUME \/ \E t \in Tasks : Create(t) \/ Cancel(t) \/ CancelAborts(t)
             \/ \E m \in Messages : Remove(m)
             \/ Fence
      PROVE  LookedAt'
  <2>1. /\ Active' = Active /\ UNCHANGED <<pump, claimed, wakeRequested, wakeOwed>>
        /\ MayAdmit' => MayAdmit
    BY <1>2 DEF Create, Cancel, CancelAborts, Remove, Fence, Idles, runVars, pumpVars, lifeVars,
       Active, MayAdmit, Available
  <2>2. NothingNew
    BY <1>2, CreateNothingNew, CancelNothingNew, RemoveNothingNew, SameRowsNothingNew
    DEF Create, Cancel, CancelAborts, Remove, Fence, storeVars
  <2>. QED
    BY <2>1, <2>2, NothingNewKeepsLook
<1>3. CASE Unfence
  <2>1. /\ Active' = Active /\ UNCHANGED <<pump, claimed, wakeRequested, process>>
        /\ wakeOwed' = (wakeOwed \/ process = "up")
    BY <1>3 DEF Unfence, runVars, Active
  <2>2. NothingNew
    BY <1>3, SameRowsNothingNew DEF Unfence, storeVars
  <2>3. CASE process = "up"
    BY <2>1, <2>3 DEF LookedAt, Unasked, NoLostWakeup
  <2>4. CASE process # "up"
    <3>1. ~MayAdmit' /\ wakeOwed' = wakeOwed
      BY <2>1, <2>4 DEF MayAdmit, Available, TypeOK
    <3>. QED
      BY <2>1, <2>2, <3>1, NothingNewKeepsLook
  <2>. QED
    BY <2>3, <2>4
<1>. QED
  BY <1>1, <1>2, <1>3 DEF ClientStep

LEMMA NextLooks ==
  ASSUME TypeOK, StoreInv, RanOnce, PumpInPool, ClosesInOrder, LookedAt, [Next]_vars
  PROVE  LookedAt'
<1>1. CASE Initialize
  BY <1>1 DEF Initialize, LookedAt, Unasked, NoLostWakeup
<1>2. CASE Close
  <2>1. /\ Active' = Active /\ UNCHANGED <<pump, claimed, wakeRequested, wakeOwed>> /\ ~MayAdmit'
    BY <1>2 DEF Close, pumpVars, Active, MayAdmit, Available
  <2>. QED
    BY <1>2, <2>1, SameRowsNothingNew, NothingNewKeepsLook DEF Close, storeVars
<1>3. CASE CloseSnapshots \/ CloseInterrupts \/ ProcessEnds
  BY <1>3 DEF CloseSnapshots, CloseInterrupts, ProcessEnds, ClosesInOrder, pumpVars, LookedAt,
     NoLostWakeup, MayAdmit, Available
<1>4. CASE UNCHANGED vars
  BY <1>4, SameRowsNothingNew, NothingNewKeepsLook
  DEF vars, storeVars, runVars, pumpVars, lifeVars, Active, MayAdmit, Available
<1>. QED
  BY <1>1, <1>2, <1>3, <1>4, PumpStepLooks, RunStepLooks, ClientStepLooks DEF Next, LifeStep

(* The pump never rests with a free slot while a turn or a message that    *)
(* could be promoted waits, but for what runs being released and Stops     *)
(* between promotion and claim leave behind.                               *)
THEOREM WakeupsHeard == Spec => []NoLostWakeup
<1> DEFINE Inv == RanOnce /\ PumpInPool /\ ClosesInOrder /\ LookedAt
<1>1. Init => Inv
  <2> SUFFICES ASSUME Init PROVE Inv
    OBVIOUS
  <2>1. Active = {}
    BY DEF Init, Idle, Active
  <2>. QED
    BY <2>1, FS_EmptySet, ConcurrencyAssumption DEF Init, StoreInit, RanOnce, PumpInPool,
       BoundedPool, ClosesInOrder, LookedAt, NoLostWakeup, MayAdmit, Available
<1>2. TypeOK /\ RunInv /\ StoreInv /\ Inv /\ [Next]_vars => Inv'
  <2> SUFFICES ASSUME TypeOK, RunInv, StoreInv, Inv, [Next]_vars PROVE Inv'
    OBVIOUS
  <2>1. RanOnce'
    BY NextStore, StoreKeepsRan DEF TypeOK
  <2>2. PumpInPool' /\ ClosesInOrder' /\ LookedAt'
    BY NextInPool, NextClosesInOrder, NextLooks
  <2>. QED
    BY <2>1, <2>2
<1>3. Inv => NoLostWakeup
  BY DEF LookedAt
<1>. QED
  <2> HIDE DEF Inv
  <2>. QED
    BY <1>1, <1>2, <1>3, Base, PTL DEF Spec
=============================================================================
