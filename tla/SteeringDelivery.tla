-------------------------- MODULE SteeringDelivery --------------------------
(***************************************************************************)
(* Handing a message to the provider of a running turn: SteeringService    *)
(* (application/steering-service.ts) over the claims of                    *)
(* infrastructure/sqlite/steering-database.ts.  The turns of one           *)
(* conversation follow each other; each run opens one owner, which works   *)
(* on one delivery at a time.  A message is steered directly, or waits in  *)
(* the pending queue and is steered or promoted to a turn of its own.      *)
(***************************************************************************)
EXTENDS Integers, FiniteSets

CONSTANTS SteerMessages,   \* messages, direct and pending
          QueuedMessages,  \* those that wait in the pending queue
          WithImages,      \* those with an attachment to stage
          RetainLimit,     \* images kept for one live process (8 in the code)
          MaxTurns,        \* bound: turns of the conversation
          MaxHandlers      \* bound: handlers a provider registers in a turn

ASSUME SteerAssumption ==
  /\ SteerMessages \subseteq Nat \ {0}
  /\ QueuedMessages \subseteq SteerMessages /\ WithImages \subseteq SteerMessages
  /\ RetainLimit \in Nat /\ MaxTurns \in Nat /\ MaxHandlers \in Nat

VARIABLES
  turnNo,      \* the number of the current turn, 0 before the first
  turnActive,  \* its task is running and the latest: claims are accepted
  steerOwner,  \* "none", "open" or "closed": the owner of its run
  runAborted,  \* the signal of its run
  handler,     \* number of the registered handler, 0 for undefined
  handlers,    \* handlers registered so far in this turn
  delivery,    \* the operation of the owner (busy), or NoDelivery
  stagedFor,   \* messages whose staged files the owner retains
  steerRow,    \* message -> its steering_messages row
  held         \* message -> times a provider has, or may have, taken it

deliveryVars == <<turnNo, turnActive, steerOwner, runAborted, handler, handlers,
                  delivery, stagedFor, steerRow, held>>

SteerRows == {"none", "claimed", "accepted", "promoted"}
DeliveryStages == {"claiming", "claimed", "staged", "sending", "accepting", "releasing"}
NoDelivery == [message |-> 0, stage |-> "idle", with |-> 0]
Delivering == delivery # NoDelivery

DeliveryInit ==
  /\ turnNo = 0 /\ turnActive = FALSE /\ steerOwner = "none" /\ runAborted = FALSE
  /\ handler = 0 /\ handlers = 0 /\ delivery = NoDelivery /\ stagedFor = {}
  /\ steerRow = [m \in SteerMessages |-> "none"]
  /\ held = [m \in SteerMessages |-> 0]

ValidOwner == steerOwner = "open" /\ ~runAborted
DeliveryAt(stage) == Delivering /\ delivery.stage = stage
DeliveryGoes(stage) == delivery' = [delivery EXCEPT !.stage = stage]

(* A run opens its owner.  A promoted message is the prompt of the turn.   *)
OpenOwner ==
  /\ steerOwner = "none" /\ ~turnActive /\ turnNo < MaxTurns
  /\ turnNo' = turnNo + 1 /\ turnActive' = TRUE /\ steerOwner' = "open"
  /\ runAborted' = FALSE /\ handler' = 0 /\ handlers' = 0
  /\ \/ UNCHANGED <<steerRow, held>>
     \/ \E m \in QueuedMessages :
          /\ steerRow[m] = "none"
          /\ steerRow' = [steerRow EXCEPT ![m] = "promoted"]
          /\ held' = [held EXCEPT ![m] = @ + 1]
  /\ UNCHANGED <<delivery, stagedFor>>

(* onSteeringReady: each registration is another function; undefined when  *)
(* the provider cannot take input any more.                                *)
RegisterHandler ==
  /\ steerOwner = "open"
  /\ \/ /\ handlers < MaxHandlers
        /\ handlers' = handlers + 1 /\ handler' = handlers'
     \/ handler' = 0 /\ UNCHANGED handlers
  /\ UNCHANGED <<turnNo, turnActive, steerOwner, runAborted, delivery, stagedFor, steerRow, held>>

(* steer, pending and boundary: a valid owner with a handler, not busy.    *)
(* findSteer before it only answers a replay early; the claim looks again. *)
RequestSteer(m) ==
  /\ ValidOwner /\ handler # 0 /\ ~Delivering
  /\ delivery' = [message |-> m, stage |-> "claiming", with |-> handler]
  /\ UNCHANGED <<turnNo, turnActive, steerOwner, runAborted, handler, handlers, stagedFor, steerRow, held>>

(* claimSteer, claimPendingSteer: a new row, or a refusal: a quota, or the *)
(* turn is not running any more, or the message has a row - accepted, a    *)
(* receipt; claimed, delivery_uncertain.  The answer of a dying storage    *)
(* may be lost.                                                            *)
ClaimSteer ==
  /\ DeliveryAt("claiming")
  /\ LET m == delivery.message IN
       \/ delivery' = NoDelivery /\ UNCHANGED steerRow
       \/ /\ turnActive /\ steerRow[m] = "none"
          /\ steerRow' = [steerRow EXCEPT ![m] = "claimed"]
          /\ DeliveryGoes("claimed") \/ delivery' = NoDelivery
  /\ UNCHANGED <<turnNo, turnActive, steerOwner, runAborted, handler, handlers, stagedFor, held>>

(* The owner and the very handler seen before the claim.                   *)
StillOwned == ValidOwner /\ handler = delivery.with

(* Staging of the attachments, which fails over the limit of images.       *)
StageFiles ==
  /\ DeliveryAt("claimed")
  /\ LET m == delivery.message IN
       \/ /\ StillOwned /\ m \notin WithImages
          /\ DeliveryGoes("staged") /\ UNCHANGED stagedFor
       \/ /\ StillOwned /\ m \in WithImages /\ Cardinality(stagedFor) < RetainLimit
          /\ DeliveryGoes("staged") /\ stagedFor' = stagedFor \cup {m}
       \/ DeliveryGoes("releasing") /\ UNCHANGED stagedFor
  /\ UNCHANGED <<turnNo, turnActive, steerOwner, runAborted, handler, handlers, steerRow, held>>

(* The second look and the call of the handler are one turn of the loop.   *)
(* The handler writes to the provider, or finds that it must not.          *)
CallHandler ==
  /\ DeliveryAt("staged")
  /\ LET m == delivery.message IN
       IF StillOwned
       THEN \/ DeliveryGoes("sending") /\ held' = [held EXCEPT ![m] = @ + 1]
            \/ DeliveryGoes("releasing") /\ UNCHANGED held
       ELSE DeliveryGoes("releasing") /\ UNCHANGED held
  /\ UNCHANGED <<turnNo, turnActive, steerOwner, runAborted, handler, handlers, stagedFor, steerRow>>

(* Mutant: every failure of the handler releases the claim for a retry.    *)
HandlerEndsRetried ==
  /\ DeliveryAt("sending")
  /\ LET m == delivery.message IN
       \/ DeliveryGoes("accepting") /\ UNCHANGED held
       \/ DeliveryGoes("releasing") /\ held' = [held EXCEPT ![m] = @ - 1]
       \/ DeliveryGoes("releasing") /\ UNCHANGED held
  /\ UNCHANGED <<turnNo, turnActive, steerOwner, runAborted, handler, handlers, stagedFor, steerRow>>

(* The provider acknowledges, refuses (SteeringNotSent: it has not taken   *)
(* the message), or fails: delivery_uncertain, and the claim stays.        *)
HandlerEnds ==
  /\ DeliveryAt("sending")
  /\ LET m == delivery.message IN
       \/ DeliveryGoes("accepting") /\ UNCHANGED held
       \/ DeliveryGoes("releasing") /\ held' = [held EXCEPT ![m] = @ - 1]
       \/ delivery' = NoDelivery /\ UNCHANGED held
  /\ UNCHANGED <<turnNo, turnActive, steerOwner, runAborted, handler, handlers, stagedFor, steerRow>>

(* acceptSteer commits also after Stop; a failing storage leaves the claim.*)
AcceptSteer ==
  /\ DeliveryAt("accepting")
  /\ delivery' = NoDelivery
  /\ steerRow' = [steerRow EXCEPT ![delivery.message] = "accepted"] \/ UNCHANGED steerRow
  /\ UNCHANGED <<turnNo, turnActive, steerOwner, runAborted, handler, handlers, stagedFor, held>>

(* releaseUndelivered: files first, then the row; either may fail.         *)
ReleaseUndelivered ==
  /\ DeliveryAt("releasing")
  /\ delivery' = NoDelivery
  /\ LET m == delivery.message IN
       \/ stagedFor' = stagedFor \ {m} /\ steerRow' = [steerRow EXCEPT ![m] = "none"]
       \/ stagedFor' = stagedFor \ {m} /\ UNCHANGED steerRow
       \/ UNCHANGED <<stagedFor, steerRow>>
  /\ UNCHANGED <<turnNo, turnActive, steerOwner, runAborted, handler, handlers, held>>

(* The task ends in the store (Stop, or the result of its provider)...     *)
TurnEnds ==
  /\ turnActive /\ turnActive' = FALSE
  /\ UNCHANGED <<turnNo, steerOwner, runAborted, handler, handlers, delivery, stagedFor, steerRow, held>>
(* ... the run is aborted, and closes its owner when its provider is gone. *)
AbortRun ==
  /\ steerOwner = "open" /\ ~runAborted /\ runAborted' = TRUE
  /\ UNCHANGED <<turnNo, turnActive, steerOwner, handler, handlers, delivery, stagedFor, steerRow, held>>
CloseOwner ==
  /\ steerOwner = "open" /\ steerOwner' = "closed" /\ handler' = 0
  /\ UNCHANGED <<turnNo, turnActive, runAborted, handlers, delivery, stagedFor, steerRow, held>>

(* Mutant: the files are cleaned up without waiting for the operation.     *)
CleanUpAtOnce ==
  /\ steerOwner = "closed"
  /\ steerOwner' = "none" /\ stagedFor' = {}
  /\ UNCHANGED <<turnNo, turnActive, runAborted, handler, handlers, delivery, steerRow, held>>

(* close() waits for the operation, then for the cleanup of every input.   *)
CleanUpOwner ==
  /\ steerOwner = "closed" /\ ~Delivering
  /\ steerOwner' = "none" /\ stagedFor' = {}
  /\ UNCHANGED <<turnNo, turnActive, runAborted, handler, handlers, delivery, steerRow, held>>

(* A crash: the rows stay, the restart ends the task; the files belong to  *)
(* nobody any more.                                                        *)
CrashDelivery ==
  /\ steerOwner # "none"
  /\ steerOwner' = "none" /\ turnActive' = FALSE /\ handler' = 0 /\ delivery' = NoDelivery /\ stagedFor' = {}
  /\ UNCHANGED <<turnNo, runAborted, handlers, steerRow, held>>

DeliveryNext ==
  \/ OpenOwner \/ RegisterHandler \/ (\E m \in SteerMessages : RequestSteer(m))
  \/ ClaimSteer \/ StageFiles \/ CallHandler \/ HandlerEnds \/ AcceptSteer \/ ReleaseUndelivered
  \/ TurnEnds \/ AbortRun \/ CloseOwner \/ CleanUpOwner \/ CrashDelivery

DeliverySpec == DeliveryInit /\ [][DeliveryNext]_deliveryVars

----------------------------------------------------------------------------
DeliveryTypeOK ==
  /\ turnNo \in 0..MaxTurns /\ turnActive \in BOOLEAN
  /\ steerOwner \in {"none", "open", "closed"} /\ runAborted \in BOOLEAN
  /\ handler \in 0..MaxHandlers /\ handlers \in 0..MaxHandlers
  /\ delivery \in [message: SteerMessages, stage: DeliveryStages, with: 1..MaxHandlers] \cup {NoDelivery}
  /\ stagedFor \in SUBSET SteerMessages
  /\ steerRow \in [SteerMessages -> SteerRows]
  /\ held \in [SteerMessages -> Int]

(* A message reaches a provider at most once: across retries, a lost       *)
(* answer, Stop, a restart, later turns and its promotion.  What has no    *)
(* row, and so may be delivered again, was taken by no provider.           *)
DeliveredOnce == \A m \in SteerMessages : held[m] <= 1 /\ (steerRow[m] = "none" => held[m] = 0)

(* The files of a message stay while a provider of this turn may still     *)
(* read them: from the hand-over, before and after its acknowledgement, to *)
(* the cleanup of the owner.                                               *)
FilesOutliveDelivery ==
  [][\A m \in WithImages \cap stagedFor :
       held[m] = 1 /\ held'[m] = 1 /\ m \notin stagedFor' => steerOwner' = "none" /\ ~Delivering'
     ]_deliveryVars
=============================================================================
