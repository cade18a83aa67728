--------------------------- MODULE MCRunnerStore ---------------------------
(***************************************************************************)
(* RunnerStore driven by any client, with a history variable: the turn     *)
(* that was the latest one when its queue was last resumed.                *)
(***************************************************************************)
EXTENDS RunnerStore

VARIABLE grant   \* root -> latest turn when allow_terminal was set, while it is

mcVars == <<storeVars, grant>>

MCInit == StoreInit /\ grant = [r \in Tasks |-> None]
GrantNext ==
  /\ StoreNext
  /\ grant' = [r \in Tasks |-> IF r \notin resumed' THEN None
                              ELSE IF r \in resumed THEN grant[r] ELSE latest[r]]
(* Bound: a session is reported while its turn is running.                 *)
RunningTurnsReport ==
  session' \ session \subseteq {root[t] : t \in {u \in Tasks : status[u] = "running"}}
MCNext == GrantNext /\ RunningTurnsReport
MCSpec == MCInit /\ [][MCNext]_mcVars

(* Bound: at most two conversations, so that one has several turns.        *)
TwoConversations == Cardinality({root[t] : t \in {u \in Tasks : status[u] # "absent"}}) <= 2

(* A queued message is never sent after a turn that failed, was stopped or *)
(* was interrupted unless the user resumed the queue after that very turn  *)
(* ended: no earlier resume, later continuation or restart carries over    *)
(* (pauseTask, pauseOutstanding and allow_terminal of pending_queues).     *)
StopHolds ==
  [][\A m \in Messages, u \in Tasks : Promotes(m, u) =>
       LET r == message[m].root IN
         status[latest[r]] = "succeeded" \/ grant[r] = latest[r]]_mcVars
=============================================================================
