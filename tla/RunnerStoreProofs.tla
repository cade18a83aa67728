-------------------------- MODULE RunnerStoreProofs --------------------------
(***************************************************************************)
(* Every transaction of the store keeps the rows well formed and every     *)
(* conversation a single chain with at most one live turn, whatever the    *)
(* sets of sequences and the order of the calls.                           *)
(***************************************************************************)
EXTENDS MCRunnerStore, WellFoundedInduction, TLAPS

(* Pausing queues changes the two columns of pending_queues only.          *)
LEMMA PauseQueuesType ==
  ASSUME paused \in SUBSET Tasks, resumed \in SUBSET Tasks,
         NEW roots \in SUBSET Tasks, PauseQueues(roots)
  PROVE  paused' \in SUBSET Tasks /\ resumed' \in SUBSET Tasks
  BY DEF PauseQueues

(* Admitting a continuation keeps the task columns well formed.            *)
LEMMA AdmitContinuationType ==
  ASSUME StoreTypeOK, NEW t \in Tasks, NEW u \in Tasks, AdmitContinuation(t, u)
  PROVE  /\ status' \in [Tasks -> TaskStatus] /\ assigned' \in SUBSET Tasks
         /\ root' \in [Tasks -> Tasks] /\ latest' \in [Tasks -> Tasks]
         /\ session' \in SUBSET Tasks /\ ran' \in SUBSET Tasks
  BY DEF AdmitContinuation, StoreTypeOK, TaskStatus, Live

(* A task transaction keeps every column well formed (database.ts).        *)
LEMMA TaskTransactionType ==
  ASSUME StoreTypeOK, NEW t \in Tasks,
         \/ CreateTask(t) \/ QueueTask(t) \/ CancelTask(t) \/ ClaimNextTask(t)
         \/ CaptureSession(t) \/ (\E result \in Results : FinishTask(t, result))
         \/ InterruptRunningTasks
  PROVE  StoreTypeOK'
<1>0. root[t] \in Tasks
  BY DEF StoreTypeOK
<1>1. CASE CreateTask(t)
  BY <1>1 DEF CreateTask, StoreTypeOK, TaskStatus, queueVars
<1>2. CASE QueueTask(t)
  BY <1>2 DEF QueueTask, StoreTypeOK, TaskStatus, Live, queueVars
<1>3. CASE CancelTask(t)
  <2>1. paused' \in SUBSET Tasks /\ resumed' \in SUBSET Tasks
    BY <1>0, <1>3, PauseQueuesType DEF CancelTask, StoreTypeOK
  <2>2. status' \in [Tasks -> TaskStatus]
    BY <1>3 DEF CancelTask, StoreTypeOK, TaskStatus, Finished, Stopped
  <2>. QED
    BY <1>3, <2>1, <2>2 DEF CancelTask, StoreTypeOK
<1>4. CASE ClaimNextTask(t)
  BY <1>4 DEF ClaimNextTask, StoreTypeOK, TaskStatus, Live, queueVars
<1>5. CASE CaptureSession(t)
  BY <1>0, <1>5 DEF CaptureSession, StoreTypeOK, taskVars, queueVars
<1>6. ASSUME NEW result \in Results, FinishTask(t, result) PROVE StoreTypeOK'
  <2>1. CASE UNCHANGED storeVars
    BY <2>1 DEF StoreTypeOK, storeVars
  <2>2. CASE ~ UNCHANGED storeVars
    <3>1. paused' \in SUBSET Tasks /\ resumed' \in SUBSET Tasks
      BY <1>0, <1>6, <2>2, PauseQueuesType DEF FinishTask, StoreTypeOK
    <3>2. status' \in [Tasks -> TaskStatus]
      BY <1>6, <2>2 DEF FinishTask, StoreTypeOK, TaskStatus, Finished, Stopped
    <3>. QED
      BY <1>6, <2>2, <3>1, <3>2 DEF FinishTask, StoreTypeOK
  <2>. QED
    BY <2>1, <2>2
<1>7. CASE InterruptRunningTasks
  BY <1>7 DEF InterruptRunningTasks, Outstanding, StoreTypeOK, TaskStatus, Finished, Stopped
<1>. QED
  BY <1>1, <1>2, <1>3, <1>4, <1>5, <1>6, <1>7

(* A queue transaction keeps every column well formed (pending-database).  *)
LEMMA QueueTransactionType ==
  ASSUME StoreTypeOK, NEW m \in Messages, NEW t \in Tasks,
         EnqueuePending(m, t) \/ RemovePending(m) \/ ResumePending(t)
  PROVE  StoreTypeOK'
<1>0. root[t] \in Tasks
  BY DEF StoreTypeOK
<1>1. CASE EnqueuePending(m, t)
  <2>1. message' \in [Messages -> MessageRow]
    BY <1>0, <1>1 DEF EnqueuePending, StoreTypeOK, MessageRow, MessageStatus
  <2>. QED
    BY <1>0, <1>1, <2>1 DEF EnqueuePending, StoreTypeOK, taskVars
<1>2. CASE RemovePending(m)
  <2>1. message' \in [Messages -> MessageRow]
    BY <1>2 DEF RemovePending, StoreTypeOK, MessageRow, MessageStatus
  <2>. QED
    BY <1>2, <2>1 DEF RemovePending, StoreTypeOK, taskVars
<1>3. CASE ResumePending(t)
  BY <1>0, <1>3 DEF ResumePending, StoreTypeOK, taskVars
<1>. QED
  BY <1>1, <1>2, <1>3

(* Promotion keeps every column well formed.                               *)
LEMMA PromotePendingType ==
  ASSUME StoreTypeOK, PromotePending
  PROVE  StoreTypeOK'
<1>1. ASSUME NEW r \in Tasks, NEW u \in Tasks, NEW refused, PromoteFrom(r, u, refused)
      PROVE  StoreTypeOK'
  <2>1. latest[r] \in Tasks
    BY DEF StoreTypeOK
  <2>2. /\ status' \in [Tasks -> TaskStatus] /\ assigned' \in SUBSET Tasks
        /\ root' \in [Tasks -> Tasks] /\ latest' \in [Tasks -> Tasks]
        /\ session' \in SUBSET Tasks /\ ran' \in SUBSET Tasks
    BY <1>1, <2>1, AdmitContinuationType DEF PromoteFrom
  <2>3. message' \in [Messages -> MessageRow]
    <3>1. [status |-> "dispatched", root |-> r, turn |-> u] \in MessageRow
      BY DEF MessageRow, MessageStatus
    <3>. QED
      BY <1>1, <3>1 DEF PromoteFrom, StoreTypeOK
  <2>4. paused' \in SUBSET Tasks /\ resumed' \in SUBSET Tasks
    BY <1>1 DEF PromoteFrom, StoreTypeOK, Candidates
  <2>. QED
    BY <1>1, <2>2, <2>3, <2>4 DEF PromoteFrom, StoreTypeOK
<1>2. ASSUME NEW refused, PromoteNone(refused) PROVE StoreTypeOK'
  <2>1. paused' \in SUBSET Tasks /\ resumed' \in SUBSET Tasks
    BY <1>2, PauseQueuesType DEF PromoteNone, StoreTypeOK, Candidates
  <2>. QED
    BY <1>2, <2>1 DEF PromoteNone, StoreTypeOK, taskVars
<1>. QED
  BY <1>1, <1>2 DEF PromotePending

(* A steering transaction keeps every column well formed.                  *)
LEMMA SteeringTransactionType ==
  ASSUME StoreTypeOK, NEW t \in Tasks, NEW m \in Messages,
         ClaimPendingSteer(t, m) \/ ReleaseSteer(t, m) \/ AcceptSteer(t, m)
  PROVE  StoreTypeOK'
<1>1. claim' \in [Messages -> ClaimRow]
  <2>1. NoClaim \in ClaimRow /\ [turn |-> t, accepted |-> FALSE] \in ClaimRow
    BY DEF NoClaim, ClaimRow
  <2>2. [claim[m] EXCEPT !.accepted = TRUE] \in ClaimRow
    BY DEF StoreTypeOK, ClaimRow
  <2>3. CASE AcceptSteer(t, m)
    BY <2>2, <2>3 DEF AcceptSteer, StoreTypeOK
  <2>. QED
    BY <2>1, <2>3 DEF ClaimPendingSteer, ReleaseSteer, StoreTypeOK
<1>2. message' \in [Messages -> MessageRow]
  BY DEF ClaimPendingSteer, ReleaseSteer, AcceptSteer, StoreTypeOK, MessageRow, MessageStatus
<1>. QED
  BY <1>1, <1>2 DEF ClaimPendingSteer, ReleaseSteer, AcceptSteer, StoreTypeOK, taskVars

LEMMA StoreNextType == StoreTypeOK /\ [StoreNext]_storeVars => StoreTypeOK'
<1> SUFFICES ASSUME StoreTypeOK, [StoreNext]_storeVars PROVE StoreTypeOK'
  OBVIOUS
<1>1. CASE UNCHANGED storeVars
  BY <1>1 DEF StoreTypeOK, storeVars
<1>2. ASSUME NEW t \in Tasks, NEW u \in Tasks, ContinueTask(t, u) PROVE StoreTypeOK'
  BY <1>2, AdmitContinuationType DEF ContinueTask, queueVars, StoreTypeOK
<1>3. ASSUME InterruptRunningTasks PROVE StoreTypeOK'
  BY <1>3 DEF InterruptRunningTasks, Outstanding, StoreTypeOK, TaskStatus, Finished, Stopped
<1>4. ASSUME NEW t \in Tasks, ResumePending(t) PROVE StoreTypeOK'
  BY <1>4 DEF ResumePending, StoreTypeOK, taskVars
<1>5. ASSUME NEW m \in Messages, RemovePending(m) PROVE StoreTypeOK'
  <2>1. message' \in [Messages -> MessageRow]
    BY <1>5 DEF RemovePending, StoreTypeOK, MessageRow, MessageStatus
  <2>. QED
    BY <1>5, <2>1 DEF RemovePending, StoreTypeOK, taskVars
<1>. QED
  BY <1>1, <1>2, <1>3, <1>4, <1>5, TaskTransactionType, QueueTransactionType,
     PromotePendingType, SteeringTransactionType DEF StoreNext

(* The rows stay well formed under any sequence of store operations.       *)
THEOREM StoreTypeCorrect == StoreSpec => []StoreTypeOK
<1>1. StoreInit => StoreTypeOK
  BY DEF StoreInit, StoreTypeOK, TaskStatus, MessageRow, MessageStatus, ClaimRow,
         NoMessage, NoClaim
<1>. QED
  BY <1>1, StoreNextType, PTL DEF StoreSpec

----------------------------------------------------------------------------
(* The chain of a conversation.                                            *)

(* A step that creates no task, moves no latest pointer, and makes a task  *)
(* live or unstarted only if it was live or a draft before.                *)
QuietStep ==
  /\ root' = root /\ latest' = latest
  /\ \A t \in Tasks :
       /\ status'[t] = "absent" <=> status[t] = "absent"
       /\ status'[t] \in Live => status[t] \in Live \cup {"draft"}
       /\ status'[t] \in Unstarted => status[t] \in Unstarted

LEMMA QuietKeepsChain ==
  ASSUME StoreTypeOK, Chain, QuietStep
  PROVE  Chain'
<1>1. OneLiveTurn'
  BY DEF Chain, QuietStep, OneLiveTurn, UnstartedAlone, Unstarted
<1>2. LatestIsNewest'
  BY DEF Chain, QuietStep, LatestIsNewest
<1>3. UnstartedAlone'
  BY DEF Chain, QuietStep, UnstartedAlone
<1>4. SequencesInOrder'
  BY DEF Chain, QuietStep, SequencesInOrder
<1>. QED
  BY <1>1, <1>2, <1>3, <1>4 DEF Chain

(* Every transaction but createTask and the admission of a continuation is *)
(* quiet.                                                                  *)
LEMMA QuietTransactions ==
  ASSUME StoreTypeOK, NEW t \in Tasks,
         \/ UNCHANGED <<status, root, latest>>
         \/ QueueTask(t) \/ CancelTask(t) \/ ClaimNextTask(t)
         \/ (\E result \in Results : FinishTask(t, result)) \/ InterruptRunningTasks
  PROVE  QuietStep
<1>0. status \in [Tasks -> TaskStatus]
  BY DEF StoreTypeOK
<1>1. CASE UNCHANGED <<status, root, latest>>
  BY <1>1 DEF QuietStep
<1>2. CASE QueueTask(t)
  BY <1>0, <1>2 DEF QueueTask, QuietStep, Live, Unstarted
<1>3. CASE CancelTask(t)
  BY <1>0, <1>3 DEF CancelTask, QuietStep, Live, Unstarted
<1>4. CASE ClaimNextTask(t)
  BY <1>0, <1>4 DEF ClaimNextTask, IsNextQueued, Queued, QuietStep, Live, Unstarted
<1>5. ASSUME NEW result \in Results, FinishTask(t, result) PROVE QuietStep
  BY <1>0, <1>5 DEF FinishTask, Correctable, QuietStep, Live, Unstarted, storeVars
<1>6. CASE InterruptRunningTasks
  BY <1>0, <1>6 DEF InterruptRunningTasks, QuietStep, Live, Unstarted
<1>. QED
  BY <1>1, <1>2, <1>3, <1>4, <1>5, <1>6

(* createTask takes the next sequence: the new draft is alone.             *)
LEMMA CreateKeepsChain ==
  ASSUME StoreTypeOK, Chain, NEW t \in Tasks, CreateTask(t)
  PROVE  Chain'
<1>1. /\ status' = [status EXCEPT ![t] = "draft"] /\ root' = root /\ latest' = latest
      /\ status[t] = "absent" /\ \A u \in Tasks : status[u] = "absent" => t <= u
      /\ status \in [Tasks -> TaskStatus]
  BY DEF CreateTask, NextTask, StoreTypeOK
<1>2. OneLiveTurn'
  BY <1>1 DEF Chain, OneLiveTurn, Live
<1>3. LatestIsNewest'
  BY <1>1 DEF Chain, LatestIsNewest
<1>4. UnstartedAlone'
  BY <1>1 DEF Chain, UnstartedAlone, Unstarted
<1>5. SequencesInOrder'
  <2> SUFFICES ASSUME NEW v \in Tasks, NEW w \in Tasks,
                      status'[v] # "absent", status'[w] = "absent"
               PROVE  v < w
    BY DEF SequencesInOrder
  <2>1. v \in Nat /\ w \in Nat
    BY SequencesAssumption
  <2>2. CASE v = t
    BY <1>1, <2>1, <2>2
  <2>3. CASE v # t
    BY <1>1, <2>3 DEF Chain, SequencesInOrder
  <2>. QED
    BY <2>2, <2>3
<1>. QED
  BY <1>2, <1>3, <1>4, <1>5 DEF Chain

(* A continuation takes the next sequence and the latest pointer of its    *)
(* conversation, whose former latest turn has finished.                    *)
LEMMA AdmissionKeepsChain ==
  ASSUME StoreTypeOK, Chain, NEW t \in Tasks, NEW u \in Tasks, AdmitContinuation(t, u)
  PROVE  Chain'
<1> DEFINE c == root[t]
<1>1. /\ status' = [status EXCEPT ![u] = "queued"]
      /\ root' = [root EXCEPT ![u] = c]
      /\ latest' = [latest EXCEPT ![c] = u]
      /\ status \in [Tasks -> TaskStatus]
      /\ root \in [Tasks -> Tasks] /\ latest \in [Tasks -> Tasks]
      /\ c \in Tasks
  BY DEF AdmitContinuation, StoreTypeOK
<1>2. /\ status[u] = "absent" /\ \A v \in Tasks : status[v] = "absent" => u <= v
      /\ latest[c] = t /\ status[t] \in Finished
  BY DEF AdmitContinuation, NextTask, Resumable
<1>3. status[t] \notin Unstarted /\ status[t] \notin Live /\ t # u /\ t < u
  BY <1>2 DEF Finished, Stopped, Unstarted, Live, Chain, SequencesInOrder
<1>4. /\ root[u] = u /\ latest[u] = u
      /\ \A v \in Tasks : root[v] = u => v = u
  BY <1>2 DEF Chain, UnstartedAlone, Unstarted
<1>5. c # u
  BY <1>3, <1>4
<1>6. OneLiveTurn'
  <2> SUFFICES ASSUME NEW v \in Tasks, status'[v] \in Live PROVE latest'[root'[v]] = v
    BY DEF OneLiveTurn
  <2>1. CASE v = u
    BY <1>1, <2>1
  <2>2. CASE v # u
    <3>1. latest[root[v]] = v /\ status[v] \in Live
      BY <1>1, <2>2 DEF Chain, OneLiveTurn
    <3>2. root[v] # c
      BY <1>2, <1>3, <3>1
    <3>. QED
      BY <1>1, <2>2, <3>1, <3>2
  <2>. QED
    BY <2>1, <2>2
<1>7. LatestIsNewest'
  <2> SUFFICES ASSUME NEW v \in Tasks
               PROVE  v <= latest'[root'[v]] /\ root'[latest'[root'[v]]] = root'[v]
    BY DEF LatestIsNewest
  <2>0. v \in Nat /\ u \in Nat /\ t \in Nat
    BY SequencesAssumption
  <2>1. CASE v = u
    BY <1>1, <2>0, <2>1
  <2>2. CASE v # u /\ root[v] = c
    <3>1. v <= t
      BY <1>2, <2>2 DEF Chain, LatestIsNewest
    <3>. QED
      BY <1>1, <1>3, <2>0, <2>2, <3>1
  <2>3. CASE v # u /\ root[v] # c
    <3>1. root[v] # u
      BY <1>4, <2>3
    <3>2. latest[root[v]] # u
      BY <1>4, <3>1, <2>3 DEF Chain, LatestIsNewest
    <3>. QED
      BY <1>1, <2>3, <3>2 DEF Chain, LatestIsNewest
  <2>. QED
    BY <2>1, <2>2, <2>3
<1>8. UnstartedAlone'
  <2> SUFFICES ASSUME NEW v \in Tasks, status'[v] \in Unstarted
               PROVE  /\ root'[v] = v /\ latest'[v] = v
                      /\ \A w \in Tasks : root'[w] = v => w = v
    BY DEF UnstartedAlone
  <2>1. v # u /\ status[v] \in Unstarted
    BY <1>1 DEF Unstarted
  <2>2. root[v] = v /\ latest[v] = v /\ \A w \in Tasks : root[w] = v => w = v
    BY <2>1 DEF Chain, UnstartedAlone
  <2>3. v # c
    BY <1>3, <2>1, <2>2
  <2>. QED
    BY <1>1, <2>1, <2>2, <2>3
<1>9. SequencesInOrder'
  <2> SUFFICES ASSUME NEW v \in Tasks, NEW w \in Tasks,
                      status'[v] # "absent", status'[w] = "absent"
               PROVE  v < w
    BY DEF SequencesInOrder
  <2>1. v \in Nat /\ w \in Nat
    BY SequencesAssumption
  <2>2. CASE v = u
    BY <1>1, <1>2, <2>1, <2>2
  <2>3. CASE v # u
    BY <1>1, <2>3 DEF Chain, SequencesInOrder
  <2>. QED
    BY <2>2, <2>3
<1>. QED
  BY <1>6, <1>7, <1>8, <1>9 DEF Chain

(* No store operation breaks the chains.                                   *)
LEMMA StoreNextChain == StoreTypeOK /\ Chain /\ [StoreNext]_storeVars => Chain'
<1> SUFFICES ASSUME StoreTypeOK, Chain, [StoreNext]_storeVars PROVE Chain'
  OBVIOUS
<1>1. CASE UNCHANGED <<status, root, latest>>
  BY <1>1, QuietKeepsChain DEF QuietStep
<1>2. ASSUME NEW t \in Tasks,
             \/ QueueTask(t) \/ CancelTask(t) \/ ClaimNextTask(t)
             \/ (\E result \in Results : FinishTask(t, result)) \/ InterruptRunningTasks
      PROVE  Chain'
  BY <1>2, QuietTransactions, QuietKeepsChain
<1>3. ASSUME NEW t \in Tasks, CreateTask(t) PROVE Chain'
  BY <1>3, CreateKeepsChain
<1>4. ASSUME NEW t \in Tasks, NEW u \in Tasks, ContinueTask(t, u) PROVE Chain'
  BY <1>4, AdmissionKeepsChain DEF ContinueTask
<1>5. CASE InterruptRunningTasks
  <2>1. QuietStep
    BY <1>5 DEF InterruptRunningTasks, QuietStep, Live, Unstarted, StoreTypeOK
  <2>. QED
    BY <2>1, QuietKeepsChain
<1>6. CASE PromotePending
  <2>1. ASSUME NEW r \in Tasks, NEW u \in Tasks, NEW refused, PromoteFrom(r, u, refused)
        PROVE  Chain'
    <3>1. latest[r] \in Tasks
      BY DEF StoreTypeOK
    <3>. QED
      BY <2>1, <3>1, AdmissionKeepsChain DEF PromoteFrom
  <2>2. ASSUME NEW refused, PromoteNone(refused) PROVE Chain'
    BY <1>1, <2>2 DEF PromoteNone, taskVars
  <2>. QED
    BY <1>6, <2>1, <2>2 DEF PromotePending
<1>7. ASSUME \/ UNCHANGED storeVars
             \/ (\E t \in Tasks : CaptureSession(t)) \/ (\E t \in Tasks : ResumePending(t))
             \/ (\E m \in Messages, t \in Tasks : EnqueuePending(m, t))
             \/ (\E m \in Messages : RemovePending(m))
             \/ (\E t \in Tasks, m \in Messages :
                    ClaimPendingSteer(t, m) \/ ReleaseSteer(t, m) \/ AcceptSteer(t, m))
      PROVE  Chain'
  <2>1. UNCHANGED <<status, root, latest>>
    BY <1>7 DEF storeVars, CaptureSession, ResumePending, EnqueuePending, RemovePending,
                ClaimPendingSteer, ReleaseSteer, AcceptSteer, taskVars
  <2>. QED
    BY <1>1, <2>1
<1>. QED
  BY <1>2, <1>3, <1>4, <1>5, <1>6, <1>7 DEF StoreNext

(* Conversations never branch: the inductive chain invariant of the store. *)
THEOREM StoreChain == StoreSpec => []Chain
<1>1. StoreInit => StoreTypeOK /\ Chain
  BY SequencesAssumption DEF StoreInit, StoreTypeOK, TaskStatus, MessageRow, MessageStatus,
     ClaimRow, NoMessage, NoClaim, Chain, OneLiveTurn, LatestIsNewest, UnstartedAlone,
     SequencesInOrder, Live, Unstarted
<1>2. StoreTypeOK /\ Chain /\ [StoreNext]_storeVars => (StoreTypeOK /\ Chain)'
  BY StoreNextType, StoreNextChain
<1>. QED
  BY <1>1, <1>2, PTL DEF StoreSpec

(* A queued or running turn is the latest of its conversation, hence the   *)
(* only such turn.                                                         *)
THEOREM StoreOneLiveTurn == StoreSpec => []OneLiveTurn
<1>1. Chain => OneLiveTurn
  BY DEF Chain
<1>. QED
  BY <1>1, StoreChain, PTL

(* The latest turn of a conversation is its newest.                        *)
THEOREM StoreLatestIsNewest == StoreSpec => []LatestIsNewest
<1>1. Chain => LatestIsNewest
  BY DEF Chain
<1>. QED
  BY <1>1, StoreChain, PTL

----------------------------------------------------------------------------
(* The messages of the queues.                                             *)

(* A known task stays known and in its conversation, and a task is queued  *)
(* only once it is known.                                                  *)
KnownStay ==
  /\ \A t \in Tasks : status[t] # "absent" => status'[t] # "absent" /\ root'[t] = root[t]
  /\ assigned \subseteq assigned'
  /\ \A t \in assigned' \ assigned : status'[t] # "absent"

LEMMA StoreKeepsKnown ==
  ASSUME StoreTypeOK, [StoreNext]_storeVars
  PROVE  KnownStay
<1>0. status \in [Tasks -> TaskStatus] /\ root \in [Tasks -> Tasks]
  BY DEF StoreTypeOK
<1>1. CASE UNCHANGED <<status, root, assigned>>
  BY <1>1 DEF KnownStay
<1>2. ASSUME NEW u \in Tasks, CreateTask(u) \/ QueueTask(u) \/ CancelTask(u) \/ ClaimNextTask(u)
      PROVE  KnownStay
  BY <1>0, <1>2 DEF CreateTask, NextTask, QueueTask, CancelTask, ClaimNextTask, KnownStay
<1>3. ASSUME NEW u, NEW v \in Tasks, AdmitContinuation(u, v) PROVE KnownStay
  BY <1>0, <1>3 DEF AdmitContinuation, NextTask, KnownStay
<1>4. ASSUME NEW u \in Tasks, NEW r \in Results, FinishTask(u, r) PROVE KnownStay
  BY <1>0, <1>4 DEF FinishTask, storeVars, KnownStay
<1>5. CASE InterruptRunningTasks
  BY <1>0, <1>5 DEF InterruptRunningTasks, KnownStay
<1>6. CASE PromotePending
  <2>1. ASSUME NEW r, NEW u \in Tasks, NEW refused, PromoteFrom(r, u, refused) PROVE KnownStay
    BY <1>3, <2>1 DEF PromoteFrom
  <2>2. ASSUME NEW refused, PromoteNone(refused) PROVE KnownStay
    BY <1>1, <2>2 DEF PromoteNone, taskVars
  <2>. QED
    BY <1>6, <2>1, <2>2 DEF PromotePending
<1>7. CASE \/ UNCHANGED storeVars
           \/ (\E u \in Tasks : CaptureSession(u) \/ ResumePending(u))
           \/ (\E m \in Messages, u \in Tasks : EnqueuePending(m, u))
           \/ (\E m \in Messages : RemovePending(m))
           \/ (\E u \in Tasks, m \in Messages :
                  ClaimPendingSteer(u, m) \/ ReleaseSteer(u, m) \/ AcceptSteer(u, m))
  <2>1. UNCHANGED <<status, root, assigned>>
    BY <1>7 DEF storeVars, CaptureSession, ResumePending, EnqueuePending, RemovePending,
                ClaimPendingSteer, ReleaseSteer, AcceptSteer, taskVars
  <2>. QED
    BY <1>1, <2>1
<1>. QED
  BY <1>2, <1>3, <1>4, <1>5, <1>6, <1>7 DEF StoreNext, ContinueTask

(* A set of sequences that is not empty has a least one.                   *)
LEMMA LeastNatural ==
  ASSUME NEW S \in SUBSET Nat, S # {}
  PROVE  \E m \in S : \A n \in S : m <= n
<1>1. \E m \in S : \A n \in S : ~ (<<n, m>> \in OpToRel(<, Nat))
  BY WFMin, NatLessThanWellFounded, Zenon
<1>2. \A m, n \in Nat : n < m => <<n, m>> \in OpToRel(<, Nat)
  BY DEF OpToRel
<1>3. \A m, n \in Nat : n < m \/ m <= n
  OBVIOUS
<1>. QED
  BY <1>1, <1>2, <1>3

(* A queue with a waiting message has a first one.                         *)
LEMMA HeadOfQueue ==
  ASSUME NEW r, Waiting(r) # {}
  PROVE  Head(r) \in Waiting(r) /\ \A n \in Waiting(r) : Head(r) <= n
<1>1. Waiting(r) \subseteq Nat
  BY SequencesAssumption DEF Waiting
<1>2. \E m \in Waiting(r) : \A n \in Waiting(r) : m <= n
  BY <1>1, LeastNatural
<1>. QED
  BY <1>2 DEF Head

(* The strengthening of ClaimedNeverPromoted: a message without a turn of  *)
(* its own has none, a claim names a turn that was started, and a queue    *)
(* belongs to the conversation of a queued task.                           *)
UnpromotedTurnless ==
  \A m \in Messages : message[m].status # "dispatched" => message[m].turn = None
ClaimedByKnown == \A m \in Messages : Claimed(m) => status[claim[m].turn] # "absent"
QueuesHoused ==
  /\ \A t \in assigned : status[t] # "absent"
  /\ \A m \in Messages : message[m].root \in Tasks =>
       message[m].status # "absent" /\ \E t \in assigned : root[t] = message[m].root
MessageInv == ClaimedNeverPromoted /\ UnpromotedTurnless /\ ClaimedByKnown /\ QueuesHoused

(* A step that writes neither messages nor claims keeps it.                *)
LEMMA OthersKeepMessages ==
  ASSUME StoreTypeOK, MessageInv, KnownStay, UNCHANGED <<message, claim>>
  PROVE  MessageInv'
<1>1. ClaimedNeverPromoted' /\ UnpromotedTurnless'
  BY DEF MessageInv, ClaimedNeverPromoted, UnpromotedTurnless, Claimed
<1>2. ClaimedByKnown'
  <2>1. ASSUME NEW m \in Messages, Claimed(m) PROVE status'[claim[m].turn] # "absent"
    BY <2>1 DEF MessageInv, ClaimedByKnown, Claimed, KnownStay, StoreTypeOK, ClaimRow
  <2>. QED
    BY <2>1 DEF ClaimedByKnown, Claimed
<1>3. QueuesHoused'
  BY DEF MessageInv, QueuesHoused, KnownStay, StoreTypeOK
<1>. QED
  BY <1>1, <1>2, <1>3 DEF MessageInv

LEMMA EnqueueKeepsMessages ==
  ASSUME StoreTypeOK, MessageInv, NEW m \in Messages, NEW t \in Tasks, EnqueuePending(m, t)
  PROVE  MessageInv'
<1>1. /\ message' = [message EXCEPT ![m] = [status |-> "queued", root |-> root[t], turn |-> None]]
      /\ message[m].status = "absent" /\ t \in assigned
      /\ UNCHANGED <<status, assigned, root, claim>>
      /\ message \in [Messages -> MessageRow]
  BY DEF EnqueuePending, NextMessage, taskVars, StoreTypeOK
<1>2. ~Claimed(m)
  BY <1>1 DEF MessageInv, ClaimedNeverPromoted
<1>3. ClaimedNeverPromoted' /\ UnpromotedTurnless' /\ ClaimedByKnown'
  BY <1>1, <1>2 DEF MessageInv, ClaimedNeverPromoted, UnpromotedTurnless, ClaimedByKnown, Claimed
<1>4. QueuesHoused'
  BY <1>1 DEF MessageInv, QueuesHoused
<1>. QED
  BY <1>3, <1>4 DEF MessageInv

LEMMA RemoveKeepsMessages ==
  ASSUME StoreTypeOK, MessageInv, NEW m \in Messages, RemovePending(m)
  PROVE  MessageInv'
<1>1. /\ message' = [message EXCEPT ![m].status = "cancelled"]
      /\ message[m].status \in {"queued", "cancelled"}
      /\ UNCHANGED <<status, assigned, root, claim>>
      /\ message \in [Messages -> MessageRow]
  BY DEF RemovePending, taskVars, StoreTypeOK
<1>2. /\ message'[m].status = "cancelled" /\ message'[m].turn = message[m].turn
      /\ \A n \in Messages : message'[n].root = message[n].root
      /\ \A n \in Messages : n # m => message'[n] = message[n]
  BY <1>1 DEF MessageRow
<1>3. ClaimedNeverPromoted' /\ UnpromotedTurnless' /\ ClaimedByKnown'
  BY <1>1, <1>2 DEF MessageInv, ClaimedNeverPromoted, UnpromotedTurnless, ClaimedByKnown, Claimed
<1>4. QueuesHoused'
  BY <1>1, <1>2 DEF MessageInv, QueuesHoused
<1>. QED
  BY <1>3, <1>4 DEF MessageInv

(* The message promoted is the head of its queue, which nobody has claimed.*)
LEMMA PromoteKeepsMessages ==
  ASSUME StoreTypeOK, MessageInv, NEW r \in Tasks, NEW u \in Tasks, NEW refused,
         PromoteFrom(r, u, refused)
  PROVE  MessageInv'
<1> DEFINE h == Head(r)
<1>1. h \in Messages /\ ~Claimed(h) /\ message[h].status = "queued" /\ message[h].root = r
  BY HeadOfQueue DEF PromoteFrom, Promotable, Candidates, Waiting
<1>2. AdmitContinuation(latest[r], u)
  BY DEF PromoteFrom
<1>3. /\ \A t \in Tasks : status[t] # "absent" => status'[t] # "absent" /\ root'[t] = root[t]
      /\ assigned' = assigned \cup {u} /\ status'[u] # "absent"
  BY <1>2 DEF AdmitContinuation, NextTask, StoreTypeOK
<1>4. message' = [message EXCEPT ![h] = [status |-> "dispatched", root |-> r, turn |-> u]]
      /\ claim' = claim /\ message \in [Messages -> MessageRow]
  BY DEF PromoteFrom, StoreTypeOK
<1> HIDE DEF h
<1>5. ClaimedNeverPromoted' /\ UnpromotedTurnless'
  BY <1>1, <1>4 DEF MessageInv, ClaimedNeverPromoted, UnpromotedTurnless, Claimed
<1>6. ClaimedByKnown'
  BY <1>3, <1>4 DEF MessageInv, ClaimedByKnown, Claimed, StoreTypeOK, ClaimRow
<1>7. QueuesHoused'
  <2>1. \A n \in Messages : /\ message'[n].root = message[n].root
                            /\ message[n].status # "absent" => message'[n].status # "absent"
    BY <1>1, <1>4
  <2>2. \A t \in assigned' : status'[t] # "absent"
    BY <1>3 DEF MessageInv, QueuesHoused, StoreTypeOK
  <2>3. ASSUME NEW n \in Messages, message[n].root \in Tasks
        PROVE  message[n].status # "absent" /\ \E t \in assigned' : root'[t] = message[n].root
    BY <1>3, <2>3 DEF MessageInv, QueuesHoused, StoreTypeOK
  <2>4. ASSUME NEW n \in Messages, message'[n].root \in Tasks
        PROVE  message'[n].status # "absent" /\ \E t \in assigned' : root'[t] = message'[n].root
    BY <2>1, <2>3, <2>4
  <2>. QED
    BY <2>2, <2>4 DEF QueuesHoused
<1>. QED
  BY <1>5, <1>6, <1>7 DEF MessageInv

LEMMA SteeringKeepsMessages ==
  ASSUME StoreTypeOK, MessageInv, NEW t \in Tasks, NEW m \in Messages,
         ClaimPendingSteer(t, m) \/ ReleaseSteer(t, m) \/ AcceptSteer(t, m)
  PROVE  MessageInv'
<1>0. /\ message \in [Messages -> MessageRow] /\ claim \in [Messages -> ClaimRow]
      /\ UNCHANGED <<status, assigned, root>>
  BY DEF StoreTypeOK, ClaimPendingSteer, ReleaseSteer, AcceptSteer, taskVars
<1>1. CASE ClaimPendingSteer(t, m)
  <2>1. /\ claim' = [claim EXCEPT ![m] = [turn |-> t, accepted |-> FALSE]] /\ message' = message
        /\ message[m].status = "queued" /\ status[t] = "running"
    BY <1>1 DEF ClaimPendingSteer, Waiting, Steerable
  <2>. QED
    BY <1>0, <2>1 DEF MessageInv, ClaimedNeverPromoted, UnpromotedTurnless, ClaimedByKnown,
       QueuesHoused, Claimed
<1>2. CASE ReleaseSteer(t, m)
  <2>1. claim' = [claim EXCEPT ![m] = NoClaim] /\ message' = message
    BY <1>2 DEF ReleaseSteer
  <2>. QED
    BY <1>0, <2>1 DEF MessageInv, ClaimedNeverPromoted, UnpromotedTurnless, ClaimedByKnown,
       QueuesHoused, Claimed, NoClaim
<1>3. CASE AcceptSteer(t, m)
  <2>1. /\ claim[m].turn = t /\ claim' = [claim EXCEPT ![m].accepted = TRUE]
        /\ message' = [message EXCEPT ![m].status = "dispatched", ![m].turn = t]
    BY <1>3 DEF AcceptSteer
  <2>2. /\ \A n \in Messages : claim'[n].turn = claim[n].turn /\ message'[n].root = message[n].root
        /\ \A n \in Messages : n # m => claim'[n] = claim[n] /\ message'[n] = message[n]
        /\ claim'[m].accepted /\ message'[m].status = "dispatched" /\ message'[m].turn = t
    BY <1>0, <2>1 DEF ClaimRow, MessageRow
  <2>. QED
    BY <1>0, <2>1, <2>2 DEF MessageInv, ClaimedNeverPromoted, UnpromotedTurnless, ClaimedByKnown,
       QueuesHoused, Claimed
<1>. QED
  BY <1>1, <1>2, <1>3

LEMMA StoreNextMessages == StoreTypeOK /\ MessageInv /\ [StoreNext]_storeVars => MessageInv'
<1> SUFFICES ASSUME StoreTypeOK, MessageInv, [StoreNext]_storeVars PROVE MessageInv'
  OBVIOUS
<1>1. KnownStay
  BY StoreKeepsKnown
<1>2. CASE UNCHANGED <<message, claim>>
  BY <1>1, <1>2, OthersKeepMessages
<1>3. CASE PromotePending
  <2>1. ASSUME NEW refused, PromoteNone(refused) PROVE MessageInv'
    BY <1>2, <2>1 DEF PromoteNone
  <2>. QED
    BY <1>3, <2>1, PromoteKeepsMessages DEF PromotePending
<1>4. ASSUME \/ UNCHANGED storeVars \/ InterruptRunningTasks
             \/ \E t \in Tasks : \/ CreateTask(t) \/ QueueTask(t) \/ CancelTask(t)
                                 \/ ClaimNextTask(t) \/ CaptureSession(t) \/ ResumePending(t)
             \/ \E t \in Tasks, result \in Results : FinishTask(t, result)
             \/ \E t, u \in Tasks : ContinueTask(t, u)
      PROVE  MessageInv'
  <2>1. UNCHANGED <<message, claim>>
    BY <1>4 DEF storeVars, InterruptRunningTasks, CreateTask, QueueTask, CancelTask,
       ClaimNextTask, CaptureSession, ResumePending, FinishTask, ContinueTask, queueVars
  <2>. QED
    BY <1>2, <2>1
<1>. QED
  BY <1>3, <1>4, EnqueueKeepsMessages, RemoveKeepsMessages, SteeringKeepsMessages DEF StoreNext

(* All that is known of the rows.                                          *)
StoreInv == StoreTypeOK /\ Chain /\ MessageInv

LEMMA StoreInitInv == StoreInit => StoreInv
<1> SUFFICES ASSUME StoreInit PROVE StoreInv
  OBVIOUS
<1>1. StoreTypeOK
  BY DEF StoreInit, StoreTypeOK, TaskStatus, MessageRow, MessageStatus, ClaimRow,
         NoMessage, NoClaim
<1>2. Chain
  BY SequencesAssumption DEF StoreInit, Chain, OneLiveTurn, LatestIsNewest, UnstartedAlone,
     SequencesInOrder, Live, Unstarted
<1>3. MessageInv
  BY NoneAssumption DEF StoreInit, MessageInv, ClaimedNeverPromoted, UnpromotedTurnless,
     ClaimedByKnown, QueuesHoused, Claimed, NoMessage, NoClaim
<1>. QED
  BY <1>1, <1>2, <1>3 DEF StoreInv

LEMMA StoreNextInv == StoreInv /\ [StoreNext]_storeVars => StoreInv'
  BY StoreNextType, StoreNextChain, StoreNextMessages DEF StoreInv

LEMMA StoreAllInv == StoreSpec => []StoreInv
  BY StoreInitInv, StoreNextInv, PTL DEF StoreSpec

(* A message is promoted or steered, never both, and a steering claim      *)
(* holds it back from promotion until it is released.                      *)
THEOREM StoreClaimedNeverPromoted == StoreSpec => []ClaimedNeverPromoted
<1>1. StoreInv => ClaimedNeverPromoted
  BY DEF StoreInv, MessageInv
<1>. QED
  BY <1>1, StoreAllInv, PTL

----------------------------------------------------------------------------
(* Promotion.                                                              *)

(* Only promotePending turns a queued message into a new turn, and it      *)
(* takes the head of a queue.                                              *)
LEMMA PromotesByPromote ==
  ASSUME StoreInv, StoreNext, NEW m \in Messages, NEW u \in Tasks, Promotes(m, u)
  PROVE  \E r \in Promotable : /\ m = Head(r)
                               /\ \E v \in Tasks : \E refused : PromoteFrom(r, v, refused)
<1>0. /\ message \in [Messages -> MessageRow] /\ message[m].status = "queued"
      /\ message[m].turn = None /\ message'[m].turn = u /\ u # None /\ status[u] = "absent"
  BY NoneAssumption DEF StoreInv, StoreTypeOK, MessageInv, UnpromotedTurnless, Promotes
<1>1. message' # message
  BY <1>0
<1>2. ASSUME NEW n \in Messages, NEW t \in Tasks, EnqueuePending(n, t) PROVE FALSE
  <2>1. /\ message[n].status = "absent"
        /\ message' = [message EXCEPT ![n] = [status |-> "queued", root |-> root[t], turn |-> None]]
    BY <1>2 DEF EnqueuePending, NextMessage
  <2>. QED
    BY <1>0, <2>1
<1>3. ASSUME NEW n \in Messages, RemovePending(n) PROVE FALSE
  BY <1>0, <1>3 DEF RemovePending, MessageRow
<1>4. ASSUME NEW t \in Tasks, NEW n \in Messages,
             ClaimPendingSteer(t, n) \/ ReleaseSteer(t, n) \/ AcceptSteer(t, n)
      PROVE  FALSE
  <2>1. AcceptSteer(t, n)
    BY <1>1, <1>4 DEF ClaimPendingSteer, ReleaseSteer
  <2>2. /\ claim[n].turn = t
        /\ message' = [message EXCEPT ![n].status = "dispatched", ![n].turn = t]
    BY <2>1 DEF AcceptSteer
  <2>3. m = n /\ t = u
    BY <1>0, <2>2 DEF MessageRow
  <2>4. status[u] # "absent"
    BY <1>0, <2>2, <2>3 DEF StoreInv, MessageInv, ClaimedByKnown, Claimed
  <2>. QED
    BY <1>0, <2>4
<1>5. ASSUME \/ InterruptRunningTasks
             \/ \E t \in Tasks : \/ CreateTask(t) \/ QueueTask(t) \/ CancelTask(t)
                                 \/ ClaimNextTask(t) \/ CaptureSession(t) \/ ResumePending(t)
             \/ \E t \in Tasks, result \in Results : FinishTask(t, result)
             \/ \E t, v \in Tasks : ContinueTask(t, v)
      PROVE  FALSE
  BY <1>1, <1>5 DEF InterruptRunningTasks, CreateTask, QueueTask, CancelTask, ClaimNextTask,
     CaptureSession, ResumePending, FinishTask, ContinueTask, queueVars, storeVars
<1>6. PromotePending
  BY <1>2, <1>3, <1>4, <1>5 DEF StoreNext
<1>7. PICK refused \in Refusals : (\E r, v \in Tasks : PromoteFrom(r, v, refused))
                                  \/ PromoteNone(refused)
  BY <1>6 DEF PromotePending
<1>8. PICK r \in Tasks, v \in Tasks : PromoteFrom(r, v, refused)
  BY <1>1, <1>7 DEF PromoteNone
<1>9. m = Head(r)
  <2>1. message' = [message EXCEPT ![Head(r)] = [status |-> "dispatched", root |-> r, turn |-> v]]
    BY <1>8 DEF PromoteFrom
  <2>. QED
    BY <1>0, <2>1
<1>10. r \in Promotable
  BY <1>8 DEF PromoteFrom
<1>. QED
  BY <1>8, <1>9, <1>10

(* A message becomes a turn of its own only after every older message of   *)
(* its conversation that still waits.                                      *)
THEOREM StoreFifoPromotion == StoreSpec => FifoPromotion
<1>1. ASSUME StoreInv, StoreNext, NEW m \in Messages, NEW u \in Tasks, Promotes(m, u)
      PROVE  \A n \in Waiting(message[m].root) : m <= n
  <2>1. PICK r \in Promotable : m = Head(r)
    BY <1>1, PromotesByPromote
  <2>2. Waiting(r) # {}
    BY DEF Promotable, Candidates
  <2>3. m \in Waiting(r) /\ \A n \in Waiting(r) : m <= n
    BY <2>1, <2>2, HeadOfQueue
  <2>. QED
    BY <2>3 DEF Waiting
<1>2. StoreInv /\ [StoreNext]_storeVars
        => [\A m \in Messages, u \in Tasks :
              Promotes(m, u) => \A n \in Waiting(message[m].root) : m <= n]_storeVars
  BY <1>1
<1>. QED
  BY <1>2, StoreAllInv, PTL DEF StoreSpec, FifoPromotion

----------------------------------------------------------------------------
(* A queue that was stopped stays stopped.                                 *)

(* A resume is on record with the turn it was given for, unless that turn  *)
(* has been continued and the new one has not failed; only a queue that    *)
(* has messages is resumed.                                                *)
ResumedFor ==
  \A r \in resumed : \/ grant[r] = latest[r]
                     \/ status[latest[r]] \in Live \cup {"succeeded"}
ResumedHasQueue == \A r \in resumed : HasQueue(r)
GrantInv == grant \in [Tasks -> Tasks \cup {None}] /\ ResumedFor /\ ResumedHasQueue

(* The turn at the end of a queue's conversation is one of it.             *)
LEMMA LatestOfQueue ==
  ASSUME StoreInv, NEW r \in Tasks, HasQueue(r)
  PROVE  root[latest[r]] = r
<1>1. PICK t \in assigned : root[t] = r
  BY DEF StoreInv, MessageInv, QueuesHoused, HasQueue
<1>. QED
  BY <1>1 DEF StoreInv, StoreTypeOK, Chain, LatestIsNewest

(* A queue that has ever had a message keeps its row.                      *)
LEMMA QueuesStay ==
  ASSUME StoreInv, [StoreNext]_storeVars, NEW r \in Tasks, HasQueue(r)
  PROVE  HasQueue(r)'
<1>0. PICK m \in Messages : message[m].root = r /\ message[m].status # "absent"
  BY DEF HasQueue, StoreInv, MessageInv, QueuesHoused
<1>1. message \in [Messages -> MessageRow]
  BY DEF StoreInv, StoreTypeOK
<1>2. ASSUME message'[m].root = r PROVE HasQueue(r)'
  BY <1>2 DEF HasQueue
<1>3. CASE UNCHANGED message
  BY <1>0, <1>2, <1>3
<1>4. ASSUME NEW n \in Messages, NEW t \in Tasks, EnqueuePending(n, t) PROVE HasQueue(r)'
  <2>1. /\ message[n].status = "absent"
        /\ message' = [message EXCEPT ![n] = [status |-> "queued", root |-> root[t], turn |-> None]]
    BY <1>4 DEF EnqueuePending, NextMessage
  <2>. QED
    BY <1>0, <1>1, <1>2, <2>1
<1>5. ASSUME NEW n \in Messages, RemovePending(n) PROVE HasQueue(r)'
  <2>1. message' = [message EXCEPT ![n].status = "cancelled"]
    BY <1>5 DEF RemovePending
  <2>. QED
    BY <1>0, <1>1, <1>2, <2>1 DEF MessageRow
<1>6. ASSUME NEW t \in Tasks, NEW n \in Messages, AcceptSteer(t, n) PROVE HasQueue(r)'
  <2>1. message' = [message EXCEPT ![n].status = "dispatched", ![n].turn = t]
    BY <1>6 DEF AcceptSteer
  <2>. QED
    BY <1>0, <1>1, <1>2, <2>1 DEF MessageRow
<1>7. CASE PromotePending
  <2>1. ASSUME NEW q \in Tasks, NEW u \in Tasks, NEW refused, PromoteFrom(q, u, refused)
        PROVE  HasQueue(r)'
    <3>1. message[Head(q)].root = q
      BY <2>1, HeadOfQueue DEF PromoteFrom, Promotable, Candidates, Waiting
    <3>2. message' = [message EXCEPT ![Head(q)] = [status |-> "dispatched", root |-> q, turn |-> u]]
      BY <2>1 DEF PromoteFrom
    <3>. QED
      BY <1>0, <1>1, <1>2, <3>1, <3>2
  <2>2. ASSUME NEW refused, PromoteNone(refused) PROVE HasQueue(r)'
    BY <1>3, <2>2 DEF PromoteNone
  <2>. QED
    BY <1>7, <2>1, <2>2 DEF PromotePending
<1>8. ASSUME \/ UNCHANGED storeVars \/ InterruptRunningTasks
             \/ \E t \in Tasks : \/ CreateTask(t) \/ QueueTask(t) \/ CancelTask(t)
                                 \/ ClaimNextTask(t) \/ CaptureSession(t) \/ ResumePending(t)
             \/ \E t \in Tasks, result \in Results : FinishTask(t, result)
             \/ \E t, u \in Tasks : ContinueTask(t, u)
             \/ \E t \in Tasks, n \in Messages : ClaimPendingSteer(t, n) \/ ReleaseSteer(t, n)
      PROVE  HasQueue(r)'
  <2>1. UNCHANGED message
    BY <1>8 DEF storeVars, InterruptRunningTasks, CreateTask, QueueTask, CancelTask,
       ClaimNextTask, CaptureSession, ResumePending, FinishTask, ContinueTask, queueVars,
       ClaimPendingSteer, ReleaseSteer
  <2>. QED
    BY <1>3, <2>1
<1>. QED
  BY <1>4, <1>5, <1>6, <1>7, <1>8 DEF StoreNext

(* What a step may do to the queues that are resumed: one that it resumes  *)
(* keeps its latest turn; of another the latest turn keeps going or has    *)
(* ended well, or a new one goes on.                                       *)
GoesWell == Live \cup {"succeeded"}
ResumesKept ==
  /\ resumed' \subseteq Tasks
  /\ \A r \in resumed' \ resumed : latest'[r] = latest[r] /\ HasQueue(r)
  /\ \A r \in resumed' \cap resumed :
       \/ latest'[r] = latest[r] /\ (status[latest[r]] = status'[latest[r]]
                                       \/ status'[latest[r]] \in GoesWell)
       \/ status'[latest'[r]] \in GoesWell

LEMMA AdmissionKeepsResumes ==
  ASSUME StoreInv, NEW t \in Tasks, NEW u \in Tasks, AdmitContinuation(t, u),
         resumed' \subseteq resumed
  PROVE  ResumesKept
<1>1. /\ status' = [status EXCEPT ![u] = "queued"] /\ latest' = [latest EXCEPT ![root[t]] = u]
      /\ status \in [Tasks -> TaskStatus] /\ latest \in [Tasks -> Tasks] /\ resumed \subseteq Tasks
  BY DEF AdmitContinuation, StoreInv, StoreTypeOK
<1>. QED
  BY <1>1 DEF ResumesKept, GoesWell, Live

(* Stop and failure take the resume of the queue back.                     *)
LEMMA EndKeepsResumes ==
  ASSUME StoreInv, ResumedHasQueue, NEW t \in Tasks, PauseQueues({root[t]}), latest' = latest,
         \A u \in Tasks \ {t} : status'[u] = status[u]
  PROVE  ResumesKept
<1>1. resumed \subseteq Tasks /\ latest \in [Tasks -> Tasks] /\ root \in [Tasks -> Tasks]
  BY DEF StoreInv, StoreTypeOK
<1>2. resumed' = resumed \ {r \in {root[t]} : HasQueue(r)}
  BY DEF PauseQueues
<1>3. ASSUME NEW r \in resumed, r \in resumed', HasQueue(r) PROVE latest[r] # t
  BY <1>1, <1>2, <1>3, LatestOfQueue
<1>4. ASSUME NEW r \in resumed, HasQueue(r), r \in resumed' PROVE status'[latest[r]] = status[latest[r]]
  BY <1>1, <1>3, <1>4
<1>. QED
  BY <1>1, <1>2, <1>4 DEF ResumesKept, ResumedHasQueue

LEMMA NextKeepsResumes ==
  ASSUME StoreInv, ResumedHasQueue, StoreNext
  PROVE  ResumesKept
<1>0. /\ status \in [Tasks -> TaskStatus] /\ latest \in [Tasks -> Tasks]
      /\ root \in [Tasks -> Tasks] /\ resumed \subseteq Tasks
  BY DEF StoreInv, StoreTypeOK
<1>1. CASE UNCHANGED <<status, latest>> /\ resumed' \subseteq resumed
  BY <1>0, <1>1 DEF ResumesKept
<1>2. ASSUME NEW t \in Tasks, CreateTask(t) \/ QueueTask(t) \/ ClaimNextTask(t)
      PROVE  ResumesKept
  <2>1. UNCHANGED <<latest, resumed>>
    BY <1>2 DEF CreateTask, QueueTask, ClaimNextTask, queueVars
  <2>2. \A u \in Tasks : \/ status'[u] = status[u] \/ status'[u] \in Live
                         \/ status[u] = "absent" /\ status'[u] = "draft"
    BY <1>0, <1>2 DEF CreateTask, NextTask, QueueTask, ClaimNextTask, Live
  <2>3. \A r \in resumed : status[latest[r]] # "absent"
    <3> SUFFICES ASSUME NEW r \in resumed PROVE status[latest[r]] # "absent"
      OBVIOUS
    <3>1. HasQueue(r) /\ root[latest[r]] = r /\ latest[r] \in Tasks
      BY <1>0, LatestOfQueue DEF ResumedHasQueue
    <3>2. PICK a \in assigned : root[a] = r /\ status[a] # "absent"
      BY <1>0, <3>1 DEF StoreInv, MessageInv, QueuesHoused, HasQueue
    <3>3. a \in Tasks
      BY DEF StoreInv, StoreTypeOK
    <3>. QED
      BY <3>1, <3>2, <3>3 DEF StoreInv, Chain, UnstartedAlone, Unstarted
  <2>. QED
    BY <1>0, <2>1, <2>2, <2>3 DEF ResumesKept, GoesWell
<1>3. ASSUME NEW t \in Tasks, CancelTask(t) PROVE ResumesKept
  BY <1>0, <1>3, EndKeepsResumes DEF CancelTask
<1>4. ASSUME NEW t \in Tasks, NEW result \in Results, FinishTask(t, result) PROVE ResumesKept
  <2>1. CASE UNCHANGED storeVars
    BY <1>1, <2>1 DEF storeVars
  <2>2. CASE ~UNCHANGED storeVars /\ result = "succeeded"
    <3>1. status' = [status EXCEPT ![t] = "succeeded"] /\ UNCHANGED <<latest, resumed>>
      BY <1>4, <2>2 DEF FinishTask
    <3>. QED
      BY <1>0, <3>1 DEF ResumesKept, GoesWell
  <2>3. CASE ~UNCHANGED storeVars /\ result # "succeeded"
    <3>1. PauseQueues({root[t]}) /\ latest' = latest /\ status' = [status EXCEPT ![t] = "failed"]
      BY <1>4, <2>3 DEF FinishTask
    <3>. QED
      BY <1>0, <3>1, EndKeepsResumes
  <2>. QED
    BY <2>1, <2>2, <2>3
<1>5. CASE InterruptRunningTasks
  BY <1>5 DEF InterruptRunningTasks, ResumesKept
<1>6. ASSUME NEW t \in Tasks, NEW u \in Tasks, ContinueTask(t, u) PROVE ResumesKept
  BY <1>6, AdmissionKeepsResumes DEF ContinueTask, queueVars
<1>7. ASSUME NEW t \in Tasks, ResumePending(t) PROVE ResumesKept
  BY <1>0, <1>7 DEF ResumePending, taskVars, ResumesKept
<1>8. CASE PromotePending
  <2>1. ASSUME NEW r \in Tasks, NEW u \in Tasks, NEW refused, PromoteFrom(r, u, refused)
        PROVE  ResumesKept
    BY <1>0, <2>1, AdmissionKeepsResumes DEF PromoteFrom
  <2>2. ASSUME NEW refused, PromoteNone(refused) PROVE ResumesKept
    BY <1>1, <2>2 DEF PromoteNone, PauseQueues, taskVars
  <2>. QED
    BY <1>8, <2>1, <2>2 DEF PromotePending
<1>9. ASSUME \/ \E t \in Tasks : CaptureSession(t)
             \/ \E m \in Messages, t \in Tasks : EnqueuePending(m, t)
             \/ \E m \in Messages : RemovePending(m)
             \/ \E t \in Tasks, m \in Messages :
                  ClaimPendingSteer(t, m) \/ ReleaseSteer(t, m) \/ AcceptSteer(t, m)
      PROVE  ResumesKept
  BY <1>1, <1>9 DEF CaptureSession, EnqueuePending, RemovePending, ClaimPendingSteer,
     ReleaseSteer, AcceptSteer, taskVars, queueVars
<1>. QED
  BY <1>2, <1>3, <1>4, <1>5, <1>6, <1>7, <1>8, <1>9 DEF StoreNext

LEMMA NextKeepsGrants ==
  ASSUME StoreInv, GrantInv, GrantNext
  PROVE  GrantInv'
<1>1. ResumesKept /\ StoreNext
  BY NextKeepsResumes DEF GrantNext, GrantInv
<1>2. /\ latest \in [Tasks -> Tasks] /\ latest' \in [Tasks -> Tasks] /\ resumed' \subseteq Tasks
      /\ grant \in [Tasks -> Tasks \cup {None}]
      /\ grant' = [r \in Tasks |-> IF r \notin resumed' THEN None
                                   ELSE IF r \in resumed THEN grant[r] ELSE latest[r]]
  BY <1>1, StoreNextInv DEF GrantNext, GrantInv, StoreInv, StoreTypeOK
<1>3. grant' \in [Tasks -> Tasks \cup {None}]
  BY <1>2
<1>4. ResumedFor'
  <2> SUFFICES ASSUME NEW r \in resumed'
               PROVE  grant'[r] = latest'[r] \/ status'[latest'[r]] \in GoesWell
    BY DEF ResumedFor, GoesWell
  <2>1. CASE r \notin resumed
    BY <1>1, <1>2, <2>1 DEF ResumesKept
  <2>2. CASE r \in resumed
    BY <1>1, <1>2, <2>2 DEF ResumesKept, GrantInv, ResumedFor, GoesWell
  <2>. QED
    BY <2>1, <2>2
<1>5. ResumedHasQueue'
  <2>1. ASSUME NEW r \in resumed' PROVE HasQueue(r)
    BY <1>1, <2>1 DEF ResumesKept, GrantInv, ResumedHasQueue
  <2>2. ASSUME NEW r \in resumed' PROVE HasQueue(r)'
    BY <1>1, <1>2, <2>1, <2>2, QueuesStay
  <2>. QED
    BY <2>2 DEF ResumedHasQueue
<1>. QED
  BY <1>3, <1>4, <1>5 DEF GrantInv

(* The store and its history under any client, without the bound on        *)
(* sessions of the runs.                                                   *)
GrantSpec == MCInit /\ [][GrantNext]_mcVars

(* No message is sent after a turn that failed, was stopped or was         *)
(* interrupted unless the queue was resumed after that very turn.          *)
THEOREM StoreStopHolds == GrantSpec => StopHolds
<1>1. MCInit => StoreInv /\ GrantInv
  BY StoreInitInv DEF MCInit, StoreInit, GrantInv, ResumedFor, ResumedHasQueue
<1>2. StoreInv /\ GrantInv /\ [GrantNext]_mcVars => (StoreInv /\ GrantInv)'
  <2> SUFFICES ASSUME StoreInv, GrantInv, [GrantNext]_mcVars PROVE (StoreInv /\ GrantInv)'
    OBVIOUS
  <2>1. CASE GrantNext
    BY <2>1, StoreNextInv, NextKeepsGrants DEF GrantNext
  <2>2. CASE UNCHANGED mcVars
    <3>1. StoreInv'
      BY <2>2, StoreNextInv DEF mcVars
    <3>2. UNCHANGED <<grant, resumed, latest, status, message>>
      BY <2>2 DEF mcVars, storeVars
    <3>. QED
      BY <3>1, <3>2 DEF GrantInv, ResumedFor, ResumedHasQueue, HasQueue
  <2>. QED
    BY <2>1, <2>2
<1>3. ASSUME StoreInv, GrantInv, GrantNext, NEW m \in Messages, NEW u \in Tasks, Promotes(m, u)
      PROVE  LET r == message[m].root
             IN  status[latest[r]] = "succeeded" \/ grant[r] = latest[r]
  <2>1. PICK r \in Promotable : m = Head(r)
    BY <1>3, PromotesByPromote DEF GrantNext
  <2>2. message[m].root = r
    BY <2>1, HeadOfQueue DEF Promotable, Candidates, Waiting
  <2>3. /\ status[latest[r]] = "succeeded" \/ r \in resumed
        /\ status[latest[r]] \notin Live
    BY DEF Promotable, MayGoOn, Candidates
  <2>. QED
    BY <1>3, <2>2, <2>3 DEF GrantInv, ResumedFor
<1>4. StoreInv /\ GrantInv /\ [GrantNext]_mcVars
        => [\A m \in Messages, u \in Tasks : Promotes(m, u) =>
              LET r == message[m].root IN
                status[latest[r]] = "succeeded" \/ grant[r] = latest[r]]_mcVars
  BY <1>3
<1>. QED
  BY <1>1, <1>2, <1>4, PTL DEF GrantSpec, StopHolds
=============================================================================
