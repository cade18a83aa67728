---------------------------- MODULE RunnerStore ----------------------------
(***************************************************************************)
(* The durable state of the runner: tasks, conversations, the pending      *)
(* message queue of each conversation and the steering claims on its       *)
(* messages, as infrastructure/sqlite keeps them.  One worker thread owns  *)
(* the connection and executes one request at a time, each inside          *)
(* BEGIN IMMEDIATE ... COMMIT, so every operation below is ONE atomic      *)
(* step; a failing request rolls back and changes nothing, which is a      *)
(* stuttering step.                                                        *)
(*                                                                         *)
(* Identifiers are the AUTOINCREMENT sequences: a new row takes the least  *)
(* unused one.  A retry with a known idempotency key returns the stored    *)
(* row and writes nothing, so it is a stuttering step as well.             *)
(***************************************************************************)
EXTENDS Integers, FiniteSets

CONSTANTS Tasks,     \* the task sequences that may be used (bounds creation)
          Messages,  \* the pending-message sequences that may be used
          None       \* no task

ASSUME SequencesAssumption == Tasks \subseteq Nat /\ Messages \subseteq Nat
ASSUME NoneAssumption == None \notin Tasks

VARIABLES
  status,     \* task -> status of its payload
  assigned,   \* tasks whose payload has a projectId (queued at least once)
  root,       \* task -> first task of its conversation (payload.conversationId)
  latest,     \* root -> conversations.latest_id
  session,    \* roots whose conversations row holds a provider session
  ran,        \* tasks with a task.running event
  paused,     \* roots whose pending_queues row has paused=1
  resumed,    \* roots whose pending_queues row has allow_terminal=1
  message,    \* message -> [status, root, turn] of pending_messages
  claim       \* message -> [turn, accepted] of its steering_messages row

storeVars == <<status, assigned, root, latest, session, ran, paused, resumed, message, claim>>
taskVars  == <<status, assigned, root, latest, ran>>
queueVars == <<paused, resumed, message, claim>>

Live     == {"queued", "running"}
Stopped  == {"failed", "cancelled", "interrupted"}
Finished == Stopped \cup {"succeeded"}
TaskStatus    == {"absent", "draft"} \cup Live \cup Finished
MessageStatus == {"absent", "queued", "dispatched", "cancelled"}
MessageRow    == [status: MessageStatus, root: Tasks \cup {None}, turn: Tasks \cup {None}]
ClaimRow      == [turn: Tasks \cup {None}, accepted: BOOLEAN]

NoMessage == [status |-> "absent", root |-> None, turn |-> None]
NoClaim   == [turn |-> None, accepted |-> FALSE]

StoreTypeOK ==
  /\ status  \in [Tasks -> TaskStatus]
  /\ assigned \in SUBSET Tasks
  /\ root    \in [Tasks -> Tasks]
  /\ latest  \in [Tasks -> Tasks]
  /\ session \in SUBSET Tasks
  /\ ran     \in SUBSET Tasks
  /\ paused  \in SUBSET Tasks
  /\ resumed \in SUBSET Tasks
  /\ message \in [Messages -> MessageRow]
  /\ claim   \in [Messages -> ClaimRow]

StoreInit ==
  /\ status  = [t \in Tasks |-> "absent"]
  /\ root    = [t \in Tasks |-> t]
  /\ latest  = [t \in Tasks |-> t]
  /\ assigned = {} /\ session = {} /\ ran = {} /\ paused = {} /\ resumed = {}
  /\ message = [m \in Messages |-> NoMessage]
  /\ claim   = [m \in Messages |-> NoClaim]

----------------------------------------------------------------------------
(* Rows and columns the operations read.                                   *)

NextTask(t) == status[t] = "absent" /\ \A u \in Tasks : status[u] = "absent" => t <= u
NextMessage(m) ==
  message[m].status = "absent"
    /\ \A n \in Messages : message[n].status = "absent" => m <= n

HasQueue(r) == \E m \in Messages : message[m].root = r
Claimed(m) == claim[m].turn # None

(* Mutant: the steering claims are not consulted.                          *)
WaitingClaimedToo(r) == {m \in Messages : message[m].status = "queued" /\ message[m].root = r}

(* SELECT ... status='queued' AND id NOT IN (SELECT pending_id ...)        *)
Waiting(r) == {m \in Messages : message[m].status = "queued" /\ message[m].root = r
                                  /\ ~Claimed(m)}

(* Mutant: the queue is read newest first.                                 *)
HeadNewest(r) == CHOOSE m \in Waiting(r) : \A n \in Waiting(r) : n <= m

Head(r) == CHOOSE m \in Waiting(r) : \A n \in Waiting(r) : m <= n

(* Mutant: any finished turn of a conversation can be continued.           *)
ResumableAnyTurn(t) == status[t] \in Finished /\ root[t] \in session

(* getResumeState: only the latest turn, finished, with a session.         *)
Resumable(t) == /\ latest[root[t]] = t
                /\ status[t] \in Finished
                /\ root[t] \in session

(* pauseTask updates an existing queue row; without one it does nothing.   *)
PauseQueues(roots) ==
  LET rows == {r \in roots : HasQueue(r)} IN
  /\ paused'  = paused \cup rows
  /\ resumed' = resumed \ rows

----------------------------------------------------------------------------
(* Tasks (database.ts).                                                    *)

CreateTask(t) ==
  /\ NextTask(t)
  /\ status' = [status EXCEPT ![t] = "draft"]
  /\ UNCHANGED <<assigned, root, latest, session, ran>> /\ UNCHANGED queueVars

QueueTask(t) ==
  /\ status[t] = "draft"
  /\ status' = [status EXCEPT ![t] = "queued"]
  /\ assigned' = assigned \cup {t}
  /\ UNCHANGED <<root, latest, session, ran>> /\ UNCHANGED queueVars

(* Mutant: Stop forgets the queue.                                         *)
CancelTaskOnly(t) ==
  /\ status[t] # "absent"
  /\ status' = IF status[t] \in Live \cup {"draft"}
                 THEN [status EXCEPT ![t] = "cancelled"] ELSE status
  /\ UNCHANGED <<paused, resumed, assigned, root, latest, session, ran, message, claim>>

(* Pauses the conversation's queue even when the task has already ended.   *)
CancelTask(t) ==
  /\ status[t] # "absent"
  /\ PauseQueues({root[t]})
  /\ status' = IF status[t] \in Live \cup {"draft"}
                 THEN [status EXCEPT ![t] = "cancelled"] ELSE status
  /\ UNCHANGED <<assigned, root, latest, session, ran, message, claim>>

Queued == {t \in Tasks : status[t] = "queued"}
IsNextQueued(t) == t \in Queued /\ \A u \in Queued : t <= u

ClaimNextTask(t) ==
  /\ IsNextQueued(t)
  /\ status' = [status EXCEPT ![t] = "running"]
  /\ ran' = ran \cup {t}
  /\ UNCHANGED <<assigned, root, latest, session>> /\ UNCHANGED queueVars

(* The result of a run: "succeeded", "failed", or "cleanup_failed" for     *)
(* error process_cleanup_failed, the only one a cancelled task accepts.    *)
Results == {"succeeded", "failed", "cleanup_failed"}
Correctable(t, result) == status[t] = "cancelled" /\ result = "cleanup_failed" /\ t \in ran
FinishTask(t, result) ==
  IF status[t] = "running" \/ Correctable(t, result)
  THEN LET ended == IF result = "succeeded" THEN "succeeded" ELSE "failed" IN
       /\ status' = [status EXCEPT ![t] = ended]
       /\ IF ended = "failed" THEN PauseQueues({root[t]}) ELSE UNCHANGED <<paused, resumed>>
       /\ UNCHANGED <<assigned, root, latest, session, ran, message, claim>>
  ELSE UNCHANGED storeVars

(* captureSession writes the session of the latest turn only and never     *)
(* replaces one; reporting another session is refused without a write.     *)
CaptureSession(t) ==
  /\ status[t] # "absent"
  /\ session' = IF latest[root[t]] = t THEN session \cup {root[t]} ELSE session
  /\ UNCHANGED taskVars /\ UNCHANGED queueVars

(* pauseOutstanding, then every running task becomes interrupted.          *)
Outstanding == {r \in Tasks : \E m \in Messages : message[m].status = "queued"
                                                   /\ message[m].root = r}

(* Mutant: a restart puts interrupted turns back into the queue.           *)
InterruptRequeues ==
  /\ status' = [t \in Tasks |-> IF status[t] = "running" THEN "queued" ELSE status[t]]
  /\ paused' = Outstanding
  /\ resumed' = {}
  /\ UNCHANGED <<assigned, root, latest, session, ran, message, claim>>

InterruptRunningTasks ==
  /\ status' = [t \in Tasks |-> IF status[t] = "running" THEN "interrupted" ELSE status[t]]
  /\ paused' = Outstanding
  /\ resumed' = {}
  /\ UNCHANGED <<assigned, root, latest, session, ran, message, claim>>

----------------------------------------------------------------------------
(* Continuations (resume-database.ts).                                     *)

(* Mutant: conversations.latest_id is not advanced.                        *)
AdmitContinuationBehind(t, u) ==
  /\ Resumable(t)
  /\ NextTask(u)
  /\ status' = [status EXCEPT ![u] = "queued"]
  /\ assigned' = assigned \cup {u}
  /\ root'   = [root EXCEPT ![u] = root[t]]
  /\ UNCHANGED <<latest, session, ran>>

AdmitContinuation(t, u) ==
  /\ Resumable(t)
  /\ NextTask(u)
  /\ status' = [status EXCEPT ![u] = "queued"]
  /\ assigned' = assigned \cup {u}
  /\ root'   = [root EXCEPT ![u] = root[t]]
  /\ latest' = [latest EXCEPT ![root[t]] = u]
  /\ UNCHANGED <<session, ran>>

ContinueTask(t, u) == AdmitContinuation(t, u) /\ UNCHANGED queueVars

----------------------------------------------------------------------------
(* The pending queue (pending-database.ts).                                *)

(* The queue of a conversation whose latest turn did not succeed is paused *)
(* on admission; paused=max(paused, excluded.paused) never unpauses.       *)
EnqueuePending(m, t) ==
  /\ t \in assigned
  /\ NextMessage(m)
  /\ message' = [message EXCEPT ![m] = [status |-> "queued", root |-> root[t], turn |-> None]]
  /\ paused' = IF status[latest[root[t]]] \in Stopped THEN paused \cup {root[t]} ELSE paused
  /\ UNCHANGED <<resumed, claim, session>> /\ UNCHANGED taskVars

RemovePending(m) ==
  /\ message[m].status \in {"queued", "cancelled"}
  /\ message' = [message EXCEPT ![m].status = "cancelled"]
  /\ UNCHANGED <<paused, resumed, claim, session>> /\ UNCHANGED taskVars

ResumePending(t) ==
  LET r == root[t] IN
  /\ t \in assigned
  /\ Resumable(latest[r])
  /\ paused' = paused \ {r}
  /\ resumed' = IF HasQueue(r) THEN resumed \cup {r} ELSE resumed
  /\ UNCHANGED <<message, claim, session>> /\ UNCHANGED taskVars

(* promotePending walks the unpaused queues in the order of their head     *)
(* messages.  A queue whose latest turn is live is skipped; one that may   *)
(* not go on is paused; the first other one is promoted, unless admitting  *)
(* the turn is refused (quota, a missing attachment), which rolls back to  *)
(* the savepoint and pauses that queue.  Queues behind a promoted one are  *)
(* not visited.                                                            *)
Candidates == {r \in Tasks \ paused : Waiting(r) # {} /\ status[latest[r]] \notin Live}
MayGoOn(r) == /\ status[latest[r]] = "succeeded" \/ r \in resumed
              /\ Resumable(latest[r])
Promotable == {r \in Candidates : MayGoOn(r)}

PromoteFrom(r, u, refused) ==
  /\ r \in Promotable \ refused
  /\ \A q \in Promotable \ refused : Head(r) <= Head(q)
  /\ AdmitContinuation(latest[r], u)
  /\ message' = [message EXCEPT ![Head(r)] = [status |-> "dispatched", root |-> r, turn |-> u]]
  /\ LET passed == {q \in Candidates \ {r} : Head(q) < Head(r)} IN
       /\ paused'  = paused \cup passed
       /\ resumed' = resumed \ (passed \cup {r})
  /\ UNCHANGED claim

PromoteNone(refused) ==
  /\ Promotable \subseteq refused
  /\ PauseQueues(Candidates)
  /\ UNCHANGED <<message, claim, session>> /\ UNCHANGED taskVars

(* When no task sequence is left every admission is refused as over quota. *)
Refusals == IF \E u \in Tasks : NextTask(u) THEN SUBSET Promotable ELSE {Promotable}
PromotePending ==
  \E refused \in Refusals :
    \/ \E r, u \in Tasks : PromoteFrom(r, u, refused)
    \/ PromoteNone(refused)

----------------------------------------------------------------------------
(* Steering claims on pending messages (steering-database.ts).             *)

(* A turn that is running and the latest of its conversation.              *)
Steerable(t) == status[t] = "running" /\ latest[root[t]] = t

(* With an id the request names the message, without one it takes the head.*)
ClaimPendingSteer(t, m) ==
  /\ Steerable(t)
  /\ root[t] \notin paused
  /\ m \in Waiting(root[t])
  /\ claim' = [claim EXCEPT ![m] = [turn |-> t, accepted |-> FALSE]]
  /\ UNCHANGED <<paused, resumed, message, session>> /\ UNCHANGED taskVars

ReleaseSteer(t, m) ==
  /\ claim[m].turn = t /\ ~claim[m].accepted
  /\ claim' = [claim EXCEPT ![m] = NoClaim]
  /\ UNCHANGED <<paused, resumed, message, session>> /\ UNCHANGED taskVars

AcceptSteer(t, m) ==
  /\ claim[m].turn = t
  /\ claim' = [claim EXCEPT ![m].accepted = TRUE]
  /\ message' = [message EXCEPT ![m].status = "dispatched", ![m].turn = t]
  /\ UNCHANGED <<paused, resumed, session>> /\ UNCHANGED taskVars

----------------------------------------------------------------------------
(* Any client of the store, calling any operation in any order.            *)

StoreNext ==
  \/ \E t \in Tasks : CreateTask(t) \/ QueueTask(t) \/ CancelTask(t) \/ ClaimNextTask(t)
                        \/ CaptureSession(t) \/ ResumePending(t)
  \/ \E t \in Tasks, result \in Results : FinishTask(t, result)
  \/ InterruptRunningTasks
  \/ \E t, u \in Tasks : ContinueTask(t, u)
  \/ \E m \in Messages, t \in Tasks : EnqueuePending(m, t)
  \/ \E m \in Messages : RemovePending(m)
  \/ PromotePending
  \/ \E t \in Tasks, m \in Messages :
       ClaimPendingSteer(t, m) \/ ReleaseSteer(t, m) \/ AcceptSteer(t, m)

StoreSpec == StoreInit /\ [][StoreNext]_storeVars

----------------------------------------------------------------------------
(* What the store promises whatever the order of its clients' calls.       *)

(* A conversation never branches and never has two turns to run: a queued  *)
(* or running turn is the latest of its conversation, so it is the only    *)
(* one (continueTask, promotePending and queueTask against each other).    *)
OneLiveTurn == \A t \in Tasks : status[t] \in Live => latest[root[t]] = t

(* The latest turn is the newest: the turns of a conversation form one     *)
(* chain in the order they were admitted.                                  *)
LatestIsNewest == \A t \in Tasks : t <= latest[root[t]] /\ root[latest[root[t]]] = root[t]

(* The strengthening that makes the two inductive: a task not yet queued   *)
(* is alone in its conversation, and sequences are handed out in order.    *)
Unstarted == {"absent", "draft"}
UnstartedAlone ==
  \A t \in Tasks : status[t] \in Unstarted =>
    root[t] = t /\ latest[t] = t /\ \A u \in Tasks : root[u] = t => u = t
SequencesInOrder ==
  \A t, u \in Tasks : status[t] # "absent" /\ status[u] = "absent" => t < u
Chain == OneLiveTurn /\ LatestIsNewest /\ UnstartedAlone /\ SequencesInOrder

(* A message reaches at most one turn.  A steering claim, accepted or not  *)
(* (also one left uncertain by a lost answer), keeps the message away from *)
(* promotion, and a dispatched message is that of its accepted claim.      *)
ClaimedNeverPromoted ==
  \A m \in Messages : Claimed(m) =>
    IF claim[m].accepted THEN message[m].status = "dispatched" /\ message[m].turn = claim[m].turn
    ELSE message[m].status \in {"queued", "cancelled"} /\ message[m].turn = None

(* A message becomes a turn of its own only after every older message of   *)
(* the conversation that still waits (pending messages are FIFO).          *)
Promotes(m, u) == message[m].status = "queued" /\ status[u] = "absent" /\ message'[m].turn = u
FifoPromotion ==
  [][\A m \in Messages, u \in Tasks :
       Promotes(m, u) => \A n \in Waiting(message[m].root) : m <= n]_storeVars
=============================================================================
