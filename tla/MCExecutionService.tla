------------------------- MODULE MCExecutionService -------------------------
(* Bounds for the runs of ExecutionService.                                 *)
EXTENDS ExecutionService

(* A single conversation: every task beyond the first is a continuation.    *)
OneConversation == \A t \in Tasks : status[t] # "absent" => root[t] = 1

(* Bound: no lease is held while a message waits.                           *)
LeaseBeforeMessages == fenced => Outstanding = {}

(* Bound: two conversations whose first turns succeed, then a message for   *)
(* each of them; nothing but the promoted turn is stopped.                  *)
TwoQueues ==
  /\ \A t \in {1, 2} : status[t] \notin Stopped /\ root[t] = t
  /\ aborted = {}
  /\ (\E m \in Messages : message[m].status # "absent") =>
        \A t \in {1, 2} : status[t] = "succeeded" /\ phase[t] = "none"
  /\ \A m \in Messages : message[m].status # "cancelled" /\ message[m].root \in {m, None}
  /\ status[3] # "absent" => HasQueue(1) /\ HasQueue(2) /\ root[3] = 1

(* "After a successful settled turn with saved provider identity, the       *)
(* worker atomically promotes one head message into a normal continuation   *)
(* task" (docs/api.md): a runner at rest, that is free to admit and that    *)
(* nothing will wake, holds no such message back.                           *)
AtRest == pump = "idle" /\ Active = {} /\ MayAdmit /\ ~wakeOwed
QueuesMoveOn == AtRest => \A r \in Promotable : status[latest[r]] # "succeeded"
=============================================================================
