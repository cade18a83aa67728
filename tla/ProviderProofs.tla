--------------------------- MODULE ProviderProofs ---------------------------
(***************************************************************************)
(* What is proved of the provider's side.  Messages steered into a turn,   *)
(* for any number of messages, turns and handlers: each is delivered once  *)
(* and its files outlive it.  Late replies and late frames of subagents    *)
(* change nothing of what the Codex side reports, and the Claude side ends *)
(* well only with its work done.  Signals reach descendants of the         *)
(* provider or a late comer of their number, none stays frozen or is       *)
(* forgotten, for any number of processes between any two system calls.    *)
(* The output of a run is told as it was written, and a login ends with    *)
(* its own verdict.                                                        *)
(***************************************************************************)
EXTENDS CodexTurn, ClaudeTurn, SteeringDelivery, InteractiveProcess, ProcessTree, CliProcess,
        McpLogins, McpLoginProtocol, SequenceTheorems, FiniteSetTheorems, TLAPS

----------------------------------------------------------------------------
(* Frames and steered messages.                                            *)

(* Types, and with them that a turn once ended stays known: turnsEnded is  *)
(* part of turnsSeen, so that ChildStarted can refuse it.                  *)
FramesInv == CodexTypeOK /\ CodexFrames

LEMMA InitFrames == CodexInit => FramesInv
<1>. SUFFICES ASSUME CodexInit PROVE FramesInv
  OBVIOUS
<1>1. CodexTypeOK
  BY DEF CodexInit, CodexTypeOK
<1>2. SteersAnsweredByTheirReply /\ ChildNotRevived
  BY DEF CodexInit, SteersAnsweredByTheirReply, ChildNotRevived
<1>. QED
  BY <1>1, <1>2 DEF FramesInv, CodexFrames

(* The turn ends: an awaited call is given up, the children stay.          *)
LEMMA DisposesFrames ==
  ASSUME FramesInv, NEW how \in {"success", "failure"}, Disposes(how)
  PROVE  FramesInv'
<1>1. CodexTypeOK'
  BY DEF FramesInv, CodexTypeOK, Disposes, SteerGivenUp, childVars
<1>2. SteersAnsweredByTheirReply'
  BY DEF FramesInv, CodexTypeOK, CodexFrames, SteersAnsweredByTheirReply, Disposes, SteerGivenUp
<1>3. ChildNotRevived'
  BY DEF FramesInv, CodexFrames, ChildNotRevived, Disposes, childVars
<1>. QED
  BY <1>1, <1>2, <1>3 DEF FramesInv, CodexFrames

LEMMA SteerFrames ==
  ASSUME FramesInv, NEW s \in Steers, NEW reply \in {"accepted", "refused", "uncertain"},
         SteerReplied(s, reply)
  PROVE  FramesInv'
<1>1. CodexTypeOK'
  BY DEF FramesInv, CodexTypeOK, SteerReplied, ReplySettles, childVars
<1>2. SteersAnsweredByTheirReply'
  <2>. SUFFICES ASSUME NEW r \in Steers, steerOutcome'[r] \in {"accepted", "refused"}
                PROVE  steerReply'[r] = steerOutcome'[r]
    BY DEF SteersAnsweredByTheirReply
  <2>1. CASE r = s
    BY <2>1 DEF FramesInv, CodexTypeOK, CodexFrames, SteersAnsweredByTheirReply, SteerReplied, ReplySettles
  <2>2. CASE r # s
    BY <2>2 DEF FramesInv, CodexTypeOK, CodexFrames, SteersAnsweredByTheirReply, SteerReplied, ReplySettles
  <2>. QED
    BY <2>1, <2>2
<1>3. ChildNotRevived'
  BY DEF FramesInv, CodexFrames, ChildNotRevived, SteerReplied, childVars
<1>. QED
  BY <1>1, <1>2, <1>3 DEF FramesInv, CodexFrames

(* Frames of a child touch no steering call.                               *)
LEMMA ChildFrames ==
  ASSUME FramesInv, NEW c \in Children, NEW t \in ChildTurns,
         ChildLinked(c) \/ ChildClosed(c) \/ ChildStarted(c, t) \/ ChildCompleted(c, t)
  PROVE  FramesInv'
<1>. USE CodexAssumption
<1>1. CASE Disposes("failure")
  BY <1>1, DisposesFrames
<1>2. CASE ~Disposes("failure") /\ ChildLinked(c)
  BY <1>2 DEF FramesInv, CodexTypeOK, CodexFrames, SteersAnsweredByTheirReply, ChildNotRevived,
     ChildLinked, codexVars, steerVars, Unlinked
<1>3. CASE ~Disposes("failure") /\ ChildClosed(c)
  BY <1>3 DEF FramesInv, CodexTypeOK, CodexFrames, SteersAnsweredByTheirReply, ChildNotRevived,
     ChildClosed, steerVars
<1>4. CASE ~Disposes("failure") /\ ChildStarted(c, t)
  BY <1>4 DEF FramesInv, CodexTypeOK, CodexFrames, SteersAnsweredByTheirReply, ChildNotRevived,
     ChildStarted, steerVars
<1>5. CASE ~Disposes("failure") /\ ChildCompleted(c, t)
  <2>1. /\ turnsSeen' = turnsSeen \cup {<<c, t>>} /\ turnsEnded' = turnsEnded \cup {<<c, t>>}
        /\ childTurn' = IF childTurn[c] = t THEN [childTurn EXCEPT ![c] = "none"] ELSE childTurn
        /\ UNCHANGED <<codexStage, codexBlocked, codexEnd>> /\ UNCHANGED steerVars
    BY <1>5 DEF ChildCompleted, Remembered
  <2>2. CodexTypeOK'
    BY <2>1 DEF FramesInv, CodexTypeOK, steerVars
  <2>3. ChildNotRevived'
    BY <2>1 DEF FramesInv, CodexTypeOK, CodexFrames, ChildNotRevived
  <2>. QED
    BY <2>1, <2>2, <2>3 DEF FramesInv, CodexFrames, SteersAnsweredByTheirReply, steerVars
<1>. QED
  BY <1>1, <1>2, <1>3, <1>4, <1>5

LEMMA StepFrames == FramesInv /\ [CodexNext]_codexVars => FramesInv'
<1>. SUFFICES ASSUME FramesInv, [CodexNext]_codexVars PROVE FramesInv'
  OBVIOUS
<1>. USE DEF FramesInv, CodexTypeOK, CodexFrames, SteersAnsweredByTheirReply, ChildNotRevived
<1>1. CASE Starts
  <2>1. CASE Disposes("failure")
    BY <2>1, DisposesFrames
  <2>. QED
    BY <1>1, <2>1 DEF Starts, StartReply, steerVars, childVars
<1>2. CASE CodexInteraction
  BY <1>2 DEF CodexInteraction, steerVars, childVars
<1>3. CASE QuestionCancelled \/ TurnCompleted \/ Disposed
  BY <1>3, DisposesFrames DEF QuestionCancelled, TurnCompleted, Disposed
<1>4. CASE CodexSteerBegins
  BY <1>4 DEF CodexSteerBegins, childVars
<1>5. CASE CodexSteerSends
  BY <1>5, CodexAssumption DEF CodexSteerSends, childVars
<1>6. CASE SteerTimesOut
  BY <1>6 DEF SteerTimesOut, SteerGivenUp, childVars
<1>7. CASE \E s \in Steers, reply \in {"accepted", "refused", "uncertain"} : SteerReplied(s, reply)
  BY <1>7, SteerFrames
<1>8. CASE \E c \in Children : \E t \in ChildTurns : ChildStarted(c, t) \/ ChildCompleted(c, t)
  BY <1>8, ChildFrames
<1>9. CASE \E c \in Children : ChildLinked(c) \/ ChildClosed(c)
  <2>1. PICK c \in Children : ChildLinked(c) \/ ChildClosed(c)
    BY <1>9
  <2>2. CASE Disposes("failure")
    BY <2>2, DisposesFrames
  <2>. QED
    BY <2>1, <2>2, CodexAssumption DEF ChildLinked, ChildClosed, codexVars, steerVars, Unlinked
<1>10. CASE UNCHANGED codexVars
  BY <1>10 DEF codexVars
<1>. QED
  BY <1>1, <1>2, <1>3, <1>4, <1>5, <1>6, <1>7, <1>8, <1>9, <1>10 DEF CodexNext

(* The fate of a steered message is that of its own call, and no order of  *)
(* frames shows a child at work in a turn that has ended: createCodexProto-*)
(* col of infrastructure/execution/codex-interactive.ts.                   *)
THEOREM CodexFramesHold == CodexSpec => []CodexFrames
<1>1. FramesInv => CodexFrames
  BY DEF FramesInv
<1>. QED
  BY InitFrames, StepFrames, <1>1, PTL DEF CodexSpec

-----------------------------------------------------------------------------

(* The claim of a message under way stands, and says whether a provider    *)
(* may have it: from the call of the handler on, and not before.           *)
HandedOver == {"sending", "accepting"}
NotYet     == {"claimed", "staged", "releasing"}
ClaimStands ==
  /\ delivery.stage \in HandedOver \cup NotYet => steerRow[delivery.message] = "claimed"
  /\ delivery.stage \in HandedOver => held[delivery.message] = 1
  /\ delivery.stage \in NotYet => held[delivery.message] = 0
HeldOnce == \A m \in SteerMessages : held[m] \in {0, 1} /\ (steerRow[m] = "none" => held[m] = 0)

DeliveryInv == DeliveryTypeOK /\ ClaimStands /\ HeldOnce

LEMMA InitDelivery == DeliveryInit => DeliveryInv
<1>. SUFFICES ASSUME DeliveryInit PROVE DeliveryInv
  OBVIOUS
<1>1. DeliveryTypeOK
  <2>1. turnNo \in 0..MaxTurns /\ handler \in 0..MaxHandlers /\ handlers \in 0..MaxHandlers
    BY SteerAssumption DEF DeliveryInit
  <2>2. turnActive \in BOOLEAN /\ runAborted \in BOOLEAN
    BY DEF DeliveryInit
  <2>. QED
    BY <2>1, <2>2 DEF DeliveryInit, DeliveryTypeOK, SteerRows
<1>2. ClaimStands /\ HeldOnce
  BY DEF DeliveryInit, ClaimStands, HeldOnce, HandedOver, NotYet, NoDelivery
<1>. QED
  BY <1>1, <1>2 DEF DeliveryInv

LEMMA StepTypes == DeliveryTypeOK /\ [DeliveryNext]_deliveryVars => DeliveryTypeOK'
<1>. SUFFICES ASSUME DeliveryTypeOK, [DeliveryNext]_deliveryVars PROVE DeliveryTypeOK'
  OBVIOUS
<1>. USE SteerAssumption DEF DeliveryTypeOK, SteerRows, DeliveryStages
<1>0. ASSUME Delivering
      PROVE  /\ delivery.message \in SteerMessages
             /\ \A s \in DeliveryStages :
                  [delivery EXCEPT !.stage = s] \in
                    [message: SteerMessages, stage: DeliveryStages, with: 1..MaxHandlers]
  BY <1>0 DEF Delivering
<1>1. CASE OpenOwner
  <2>1. turnNo' \in 0..MaxTurns /\ handler' \in 0..MaxHandlers /\ handlers' \in 0..MaxHandlers
    BY <1>1 DEF OpenOwner
  <2>2. turnActive' \in BOOLEAN /\ runAborted' \in BOOLEAN
    BY <1>1 DEF OpenOwner
  <2>3. steerRow' \in [SteerMessages -> SteerRows] /\ held' \in [SteerMessages -> Int]
    BY <1>1 DEF OpenOwner
  <2>. QED
    BY <1>1, <2>1, <2>2, <2>3 DEF OpenOwner
<1>2. CASE RegisterHandler
  BY <1>2 DEF RegisterHandler
<1>3. CASE \E m \in SteerMessages : RequestSteer(m)
  BY <1>3 DEF RequestSteer
<1>4. CASE ClaimSteer
  BY <1>4, <1>0 DEF ClaimSteer, DeliveryAt, DeliveryGoes
<1>5. CASE StageFiles
  BY <1>5, <1>0 DEF StageFiles, DeliveryAt, DeliveryGoes
<1>6. CASE CallHandler
  BY <1>6, <1>0 DEF CallHandler, DeliveryAt, DeliveryGoes
<1>7. CASE HandlerEnds
  BY <1>7, <1>0 DEF HandlerEnds, DeliveryAt, DeliveryGoes
<1>8. CASE AcceptSteer
  BY <1>8, <1>0 DEF AcceptSteer, DeliveryAt
<1>9. CASE ReleaseUndelivered
  BY <1>9, <1>0 DEF ReleaseUndelivered, DeliveryAt
<1>10. CASE TurnEnds \/ AbortRun \/ CloseOwner \/ CleanUpOwner \/ CrashDelivery
  <2>1. turnActive' \in BOOLEAN /\ runAborted' \in BOOLEAN /\ steerOwner' \in {"none", "open", "closed"}
    BY <1>10 DEF TurnEnds, AbortRun, CloseOwner, CleanUpOwner, CrashDelivery
  <2>2. handler' \in 0..MaxHandlers
    BY <1>10 DEF TurnEnds, AbortRun, CloseOwner, CleanUpOwner, CrashDelivery
  <2>. QED
    BY <1>10, <2>1, <2>2 DEF TurnEnds, AbortRun, CloseOwner, CleanUpOwner, CrashDelivery
<1>11. CASE UNCHANGED deliveryVars
  BY <1>11 DEF deliveryVars
<1>. QED
  BY <1>1, <1>2, <1>3, <1>4, <1>5, <1>6, <1>7, <1>8, <1>9, <1>10, <1>11 DEF DeliveryNext

LEMMA StepDelivery == DeliveryInv /\ [DeliveryNext]_deliveryVars => DeliveryInv'
<1>. SUFFICES ASSUME DeliveryInv, [DeliveryNext]_deliveryVars PROVE ClaimStands' /\ HeldOnce'
  BY StepTypes DEF DeliveryInv
<1>. USE DEF DeliveryInv, DeliveryTypeOK, ClaimStands, HeldOnce, HandedOver, NotYet
<1>0. ASSUME Delivering PROVE delivery.message \in SteerMessages
  BY <1>0 DEF Delivering
<1>1. CASE OpenOwner
  <2>1. CASE UNCHANGED <<steerRow, held>>
    BY <1>1, <2>1 DEF OpenOwner
  <2>2. CASE ~UNCHANGED <<steerRow, held>>
    <3>1. PICK m \in QueuedMessages :
            /\ steerRow[m] = "none" /\ steerRow' = [steerRow EXCEPT ![m] = "promoted"]
            /\ held' = [held EXCEPT ![m] = @ + 1]
      BY <1>1, <2>2 DEF OpenOwner
    <3>2. delivery' = delivery /\ m \in SteerMessages /\ held[m] = 0
      BY <1>1, <3>1, SteerAssumption DEF OpenOwner
    <3>3. ClaimStands'
      BY <3>1, <3>2 DEF NoDelivery
    <3>. QED
      BY <3>1, <3>2, <3>3
  <2>. QED
    BY <2>1, <2>2
<1>2. CASE RegisterHandler
  BY <1>2 DEF RegisterHandler
<1>3. CASE \E m \in SteerMessages : RequestSteer(m)
  BY <1>3 DEF RequestSteer
<1>4. CASE ClaimSteer
  BY <1>4, <1>0 DEF ClaimSteer, DeliveryAt, DeliveryGoes, NoDelivery, DeliveryStages
<1>5. CASE StageFiles
  BY <1>5, <1>0 DEF StageFiles, DeliveryAt, DeliveryGoes, NoDelivery, DeliveryStages
<1>6. CASE CallHandler
  BY <1>6, <1>0 DEF CallHandler, DeliveryAt, DeliveryGoes, NoDelivery, DeliveryStages
<1>7. CASE HandlerEnds
  BY <1>7, <1>0 DEF HandlerEnds, DeliveryAt, DeliveryGoes, NoDelivery, DeliveryStages
<1>8. CASE AcceptSteer
  BY <1>8, <1>0 DEF AcceptSteer, DeliveryAt, NoDelivery
<1>9. CASE ReleaseUndelivered
  BY <1>9, <1>0 DEF ReleaseUndelivered, DeliveryAt, NoDelivery
<1>10. CASE TurnEnds \/ AbortRun \/ CloseOwner \/ CleanUpOwner \/ CrashDelivery \/ UNCHANGED deliveryVars
  BY <1>10 DEF TurnEnds, AbortRun, CloseOwner, CleanUpOwner, CrashDelivery, deliveryVars, NoDelivery
<1>. QED
  BY <1>1, <1>2, <1>3, <1>4, <1>5, <1>6, <1>7, <1>8, <1>9, <1>10 DEF DeliveryNext

(* A message reaches a provider at most once, through retries, lost        *)
(* answers, Stop, restarts and its promotion: SteeringService.             *)
THEOREM DeliveredOnceHolds == DeliverySpec => []DeliveredOnce
<1>1. DeliveryInv => DeliveredOnce
  BY DEF DeliveryInv, HeldOnce, DeliveredOnce
<1>. QED
  BY InitDelivery, StepDelivery, <1>1, PTL DEF DeliverySpec

(* Files are taken away before the cleanup of the owner only when no       *)
(* provider has the message: releaseUndelivered of SteeringService.        *)
THEOREM FilesOutliveDeliveryHolds == DeliverySpec => FilesOutliveDelivery
<1>1. ASSUME DeliveryInv, DeliveryNext, NEW m \in WithImages \cap stagedFor,
             held[m] = 1, held'[m] = 1, m \notin stagedFor'
      PROVE  steerOwner' = "none" /\ ~Delivering'
  <2>1. CASE ReleaseUndelivered
    BY <1>1, <2>1 DEF DeliveryInv, ClaimStands, NotYet, ReleaseUndelivered, DeliveryAt
  <2>2. CASE CleanUpOwner \/ CrashDelivery
    BY <2>2 DEF CleanUpOwner, CrashDelivery, Delivering, NoDelivery
  <2>3. CASE ~ReleaseUndelivered /\ ~CleanUpOwner /\ ~CrashDelivery
    BY <1>1, <2>3 DEF DeliveryNext, OpenOwner, RegisterHandler, RequestSteer, ClaimSteer, StageFiles,
       CallHandler, HandlerEnds, AcceptSteer, TurnEnds, AbortRun, CloseOwner
  <2>. QED
    BY <2>1, <2>2, <2>3
<1>2. DeliveryInv /\ [DeliveryNext]_deliveryVars =>
      [\A m \in WithImages \cap stagedFor :
         held[m] = 1 /\ held'[m] = 1 /\ m \notin stagedFor' => steerOwner' = "none" /\ ~Delivering'
      ]_deliveryVars
  BY <1>1
<1>. QED
  BY InitDelivery, StepDelivery, <1>2, PTL DEF DeliverySpec, FilesOutliveDelivery

----------------------------------------------------------------------------
(* The processes of a provider.                                            *)

(* The clock is ahead of every start time that is known.                   *)
Clocked == TreeTypeOK /\ \A p \in Pids : identity[p] <= jiffies /\ proc[p].start <= jiffies

(* Where a walk stands.                                                    *)
Positions ==
  /\ parent = 0 => step = "look"
  /\ walk = "signal" => step \in {"look", "send"}
  /\ walk = "idle" => parent = 0 /\ \A p \in Pids : visited[p] = 0
  /\ candidate # NoCandidate => candidate.pid \in Pids /\ step = "adopt" /\ candidate.start <= jiffies

(* Of one number, what was visited is no younger than what is owned, this  *)
(* no younger than the one looked at, and this than the one that runs.     *)
NumbersGrow ==
  /\ \A p \in Pids : visited[p] <= identity[p] /\ (Alive(p) => identity[p] <= proc[p].start)
  /\ candidate # NoCandidate =>
       /\ identity[candidate.pid] <= candidate.start
       /\ Alive(candidate.pid) => candidate.start <= proc[candidate.pid].start

(* What is owned descends from the provider, as the parents do, and as     *)
(* does the child of an owned parent that was looked at.                   *)
OwnedAreOurs == \A p \in Pids : Current(p) => proc[p].ours
LineOf(p) == Alive(p) /\ proc[p].parent # 0 =>
               Alive(proc[p].parent) /\ (proc[proc[p].parent].ours => proc[p].ours)
Lineage == \A p \in Pids : LineOf(p)
CandidateIsOurs ==
  candidate # NoCandidate /\ Current(parent) /\ Alive(candidate.pid)
    /\ proc[candidate.pid].start = candidate.start => proc[candidate.pid].ours

(* A signal on its way reaches the one looked at, nobody, or a late comer; *)
(* the frozen are owned; and what is owned will be signalled.              *)
SendReaches == step = "send" /\ Alive(parent) => Current(parent) \/ proc[parent].raced
FrozenKnown == \A p \in Pids : Frozen(p) => proc[p].raced \/ Current(p)
SignalsAll == walk = "signal" => \A p \in Pids : Current(p) => p \in queue \cup {parent} \cup spared

Descent == OwnedAreOurs /\ Lineage /\ FrozenKnown
OnTheWay == Positions /\ NumbersGrow /\ CandidateIsOurs /\ SendReaches /\ SignalsAll
TreeInv == Clocked /\ Descent /\ OnTheWay

LEMMA RecordFacts ==
  ASSUME NEW r \in Processes \cup {NoProcess}
  PROVE  /\ r = NoProcess <=> r.start = 0
         /\ r = NoProcess => r.stop = "no" /\ r.parent = 0 /\ ~r.ours
         /\ r # NoProcess => r \in Processes
         /\ r.start \in Nat /\ r.parent \in Pids \cup {0}
  BY TreeAssumption DEF Processes, NoProcess

(* A process is alive and owned after a step that leaves its start time    *)
(* and its identity as it was before.                                      *)
LEMMA SameProcess ==
  ASSUME proc \in [Pids -> Processes \cup {NoProcess}], proc' \in [Pids -> Processes \cup {NoProcess}],
         NEW p \in Pids, proc'[p].start = proc[p].start
  PROVE  /\ Alive(p)' <=> Alive(p)
         /\ identity'[p] = identity[p] => (Current(p)' <=> Current(p))
<1>1. (proc[p] = NoProcess <=> proc[p].start = 0) /\ (proc'[p] = NoProcess <=> proc'[p].start = 0)
  BY RecordFacts
<1>. QED
  BY <1>1 DEF Alive, Current

LEMMA InitTree == TreeInit => TreeInv
<1>. SUFFICES ASSUME TreeInit PROVE TreeInv
  OBVIOUS
<1>. USE TreeAssumption
<1>1. \A p \in Pids : proc[p] = IF p = Root
               THEN [start |-> 1, parent |-> 0, stop |-> "no", ours |-> TRUE, lost |-> FALSE, raced |-> FALSE]
               ELSE NoProcess
  BY DEF TreeInit
<1>2. \A p \in Pids : /\ proc[p].start = identity[p] /\ proc[p].start <= 1 /\ proc[p].stop = "no"
                      /\ proc[p].parent = 0 /\ (Current(p) => proc[p].ours)
                      /\ proc[p] \in Processes \cup {NoProcess}
  BY <1>1 DEF TreeInit, Processes, NoProcess, Current, Alive
<1>3. TreeTypeOK
  <2>1. proc \in [Pids -> Processes \cup {NoProcess}]
    BY <1>2 DEF TreeInit
  <2>2. 1 \in 1..JiffyLimit /\ 0 \in 0..JiffyLimit /\ 1 \in 0..JiffyLimit
    OBVIOUS
  <2>3. identity \in [Pids -> 0..JiffyLimit] /\ visited \in [Pids -> 0..JiffyLimit]
    BY <2>2 DEF TreeInit
  <2>. QED
    BY <2>1, <2>2, <2>3 DEF TreeInit, TreeTypeOK, NoCandidate
<1>4. \A p \in Pids : proc[p].start \in Nat
  BY <1>2, RecordFacts
<1>5. Clocked /\ Descent
  BY <1>2, <1>3 DEF TreeInit, Clocked, Descent, OwnedAreOurs, Lineage, LineOf, FrozenKnown, Frozen
<1>6. OnTheWay
  BY <1>2, <1>4 DEF TreeInit, OnTheWay, Positions, NumbersGrow, CandidateIsOurs, SendReaches, SignalsAll
<1>. QED
  BY <1>5, <1>6 DEF TreeInv

----------------------------------------------------------------------------
(* Steps that leave the processes and the identities as they are.          *)
LEMMA QuietDescent ==
  ASSUME TreeInv, UNCHANGED <<proc, identity>>, jiffies' \in jiffies..JiffyLimit
  PROVE  /\ Descent' /\ \A p \in Pids : identity'[p] <= jiffies' /\ proc'[p].start <= jiffies'
         /\ \A p \in Pids \cup {0} : (Current(p)' <=> Current(p)) /\ (Alive(p)' <=> Alive(p))
<1>1. \A p \in Pids : identity[p] \in Nat /\ proc[p].start \in Nat /\ jiffies \in Nat /\ JiffyLimit \in Nat
  BY RecordFacts, TreeAssumption DEF TreeInv, Clocked, TreeTypeOK
<1>2. \A p \in Pids : identity[p] <= jiffies' /\ proc[p].start <= jiffies'
  BY <1>1 DEF TreeInv, Clocked
<1>. QED
  BY <1>2 DEF TreeInv, Descent, OwnedAreOurs, Lineage, LineOf, FrozenKnown, Frozen, Current, Alive
QuietNext ==
  \/ \E p \in Pids : Visit(p) \/ VisitFails(p) \/ LooksAtChild(p) \/ Turns(p)
  \/ LooksOnce \/ StopFails \/ ListsChildren \/ ReadFails \/ Visited \/ WalkEnds \/ KillFails \/ KillEnds

LEMMA QuietTypes ==
  ASSUME TreeTypeOK, QuietNext
  PROVE  TreeTypeOK' /\ UNCHANGED <<proc, identity>> /\ jiffies' \in jiffies..JiffyLimit
<1>. USE TreeAssumption
<1>0. jiffies \in Nat /\ JiffyLimit \in Nat /\ jiffies <= JiffyLimit
  BY DEF TreeTypeOK
<1>1. UNCHANGED <<proc, identity>>
  BY DEF QuietNext, Visit, VisitFails, LooksAtChild, Turns, LooksOnce, StopFails, ListsChildren, ReadFails,
         Visited, WalkEnds, KillFails, KillEnds, Returns, GoesOnToKill, CallFails, systemVars
<1>2. jiffies' = jiffies \/ (jiffies < JiffyLimit /\ jiffies' = jiffies + 1)
  BY DEF QuietNext, Visit, VisitFails, LooksAtChild, Turns, LooksOnce, StopFails, ListsChildren, ReadFails,
         Visited, WalkEnds, KillFails, KillEnds, Returns, GoesOnToKill, CallFails, systemVars
<1>3. jiffies' \in jiffies..JiffyLimit
  BY <1>0, <1>2
<1>4. walk' \in {"idle", "observe", "kill", "signal"} /\ step' \in {"look", "send", "list", "adopt"} /\ failed' \in BOOLEAN
  BY DEF TreeTypeOK, QuietNext, Visit, VisitFails, LooksAtChild, Turns, LooksOnce, StopFails, ListsChildren, ReadFails,
         Visited, WalkEnds, KillFails, KillEnds, Returns, GoesOnToKill, CallFails, systemVars
<1>5. queue' \in SUBSET Pids /\ children' \in SUBSET Pids /\ spared' \in SUBSET Pids /\ parent' \in Pids \cup {0}
  BY DEF TreeTypeOK, QuietNext, Visit, VisitFails, LooksAtChild, Turns, LooksOnce, StopFails, ListsChildren, ReadFails,
         Visited, WalkEnds, KillFails, KillEnds, Returns, GoesOnToKill, CallFails, systemVars, Owned
<1>6. visited' \in [Pids -> 0..JiffyLimit]
  <2>1. \/ visited' = visited \/ visited' = [q \in Pids |-> 0]
        \/ \E p \in Pids : visited' = [visited EXCEPT ![p] = identity[p]]
    BY DEF QuietNext, Visit, VisitFails, LooksAtChild, Turns, LooksOnce, StopFails, ListsChildren, ReadFails,
         Visited, WalkEnds, KillFails, KillEnds, Returns, GoesOnToKill, CallFails, systemVars
  <2>. QED
    BY <2>1 DEF TreeTypeOK
<1>7. candidate'.pid \in Pids \cup {0} /\ candidate'.start \in 0..JiffyLimit
  <2>1. \/ candidate' = candidate \/ candidate' = NoCandidate
        \/ \E c \in Pids : Alive(c) /\ candidate' = [pid |-> c, start |-> proc[c].start]
    BY DEF QuietNext, Visit, VisitFails, LooksAtChild, Turns, LooksOnce, StopFails, ListsChildren, ReadFails,
         Visited, WalkEnds, KillFails, KillEnds, Returns, GoesOnToKill, CallFails, systemVars
  <2>2. \A c \in Pids : Alive(c) => proc[c].start \in 0..JiffyLimit
    BY DEF TreeTypeOK, Alive, Processes
  <2>. QED
    BY <2>1, <2>2 DEF TreeTypeOK, NoCandidate
<1>. QED
  BY <1>0, <1>1, <1>3, <1>4, <1>5, <1>6, <1>7 DEF TreeTypeOK

LEMMA QuietKeeps ==
  ASSUME TreeInv, QuietNext
  PROVE  TreeInv'
<1>. USE TreeAssumption DEF TreeInv
<1>1. TreeTypeOK' /\ UNCHANGED <<proc, identity>> /\ jiffies' \in jiffies..JiffyLimit
  BY QuietTypes DEF Clocked
<1>2. Clocked' /\ Descent'
  BY <1>1, QuietDescent DEF Clocked
<1>3. \A p \in Pids \cup {0} : (Current(p)' <=> Current(p)) /\ (Alive(p)' <=> Alive(p))
  BY <1>1, QuietDescent
<1>4. parent \in Pids \cup {0} /\ queue \in SUBSET Pids /\ walk \in {"idle", "observe", "kill", "signal"}
      /\ step \in {"look", "send", "list", "adopt"} /\ visited \in [Pids -> 0..JiffyLimit]
      /\ jiffies \in Nat /\ (\A p \in Pids : identity[p] \in Nat) /\ candidate.start \in Nat
  BY DEF Clocked, TreeTypeOK
<1>5. \A c \in Pids : proc[c].start \in Nat /\ proc[c].start <= jiffies
  BY RecordFacts DEF Clocked, TreeTypeOK
<1>6. jiffies' \in Nat /\ jiffies <= jiffies'
  BY <1>1, <1>4
<1>7. ASSUME (candidate' = candidate /\ parent' = parent) \/ candidate' = NoCandidate,
             (\A p \in Pids : visited'[p] = visited[p]) \/ (\A p \in Pids : visited'[p] = 0)
      PROVE  NumbersGrow' /\ CandidateIsOurs'
  <2>1. \A p \in Pids : visited'[p] <= identity[p]
    <3>. TAKE p \in Pids
    <3>1. visited[p] <= identity[p] /\ visited'[p] \in {visited[p], 0} /\ identity[p] \in Nat
      BY <1>4, <1>7 DEF OnTheWay, NumbersGrow
    <3>. QED
      BY <3>1
  <2>2. candidate # NoCandidate => candidate.pid \in Pids
    BY DEF OnTheWay, Positions
  <2>3. CASE candidate' = NoCandidate
    BY <1>1, <1>3, <2>1, <2>3 DEF OnTheWay, NumbersGrow, CandidateIsOurs
  <2>4. CASE candidate' = candidate /\ parent' = parent
    BY <1>1, <1>3, <1>4, <2>1, <2>2, <2>4 DEF OnTheWay, NumbersGrow, CandidateIsOurs
  <2>. QED
    BY <1>7, <2>3, <2>4
<1>. SUFFICES OnTheWay'
  BY <1>2
<1>. USE DEF Positions
<1>10. ASSUME NEW p \in Pids, Visit(p) \/ VisitFails(p) PROVE OnTheWay'
  BY <1>1, <1>3, <1>4, <1>5, <1>6, <1>10 DEF Visit, VisitFails, Walking, OnTheWay, NumbersGrow, CandidateIsOurs, SendReaches, SignalsAll
<1>11. ASSUME NEW c \in Pids, LooksAtChild(c) PROVE OnTheWay'
  BY <1>1, <1>3, <1>4, <1>5, <1>6, <1>11 DEF LooksAtChild, AtParent, Descent, OwnedAreOurs, Lineage, LineOf, NoCandidate,
      OnTheWay, NumbersGrow, CandidateIsOurs, SendReaches, SignalsAll
<1>12. ASSUME NEW p \in Pids, Turns(p) PROVE OnTheWay'
  BY <1>1, <1>3, <1>4, <1>5, <1>6, <1>12 DEF Turns, OnTheWay, NumbersGrow, CandidateIsOurs, SendReaches, SignalsAll
<1>13. CASE LooksOnce
  <2>1. UNCHANGED <<jiffies, walk, queue, visited, candidate, spared>> /\ candidate = NoCandidate
        /\ step = "look" /\ parent \in Pids
    BY <1>4, <1>13 DEF LooksOnce, AtParent, OnTheWay, systemVars
  <2>2. Positions' /\ SendReaches' /\ SignalsAll'
    BY <1>1, <1>3, <1>4, <1>13, <2>1 DEF LooksOnce, StillThere, OnTheWay, SendReaches, SignalsAll
  <2>. QED
    BY <1>7, <2>1, <2>2 DEF OnTheWay
<1>14. CASE StopFails \/ ListsChildren \/ Visited
  <2>1. UNCHANGED <<walk, queue, visited, candidate, spared>> /\ candidate = NoCandidate /\ walk # "signal"
        /\ step' # "send" /\ parent # 0
        /\ \/ parent' = parent /\ step' \in {"list", "adopt"}
           \/ parent' = 0 /\ step' = "look"
    BY <1>14 DEF StopFails, ListsChildren, Visited, AtParent, OnTheWay
  <2>2. Positions' /\ SendReaches' /\ SignalsAll'
    BY <1>1, <1>3, <1>4, <2>1 DEF OnTheWay, SendReaches, SignalsAll
  <2>. QED
    BY <1>7, <2>1, <2>2 DEF OnTheWay
<1>15. CASE ReadFails
  <2>1. UNCHANGED <<walk, visited, spared, parent, step>> /\ step = "adopt" /\ candidate' \in {candidate, NoCandidate}
    BY <1>15 DEF ReadFails, AtParent
  <2>2. Positions' /\ SendReaches' /\ SignalsAll'
    BY <1>1, <1>3, <1>4, <1>6, <2>1 DEF OnTheWay, SendReaches, SignalsAll
  <2>. QED
    BY <1>7, <2>1, <2>2 DEF OnTheWay
<1>16. CASE KillFails
  <2>1. UNCHANGED <<walk, queue, visited, candidate>> /\ walk = "signal" /\ parent' = 0 /\ step' = "look"
        /\ spared' = spared \cup {parent} /\ candidate = NoCandidate
    BY <1>16 DEF KillFails, OnTheWay
  <2>2. Positions' /\ SendReaches' /\ SignalsAll'
    BY <1>1, <1>3, <1>4, <1>6, <2>1 DEF OnTheWay, SendReaches, SignalsAll
  <2>. QED
    BY <1>7, <2>1, <2>2 DEF OnTheWay
<1>17. CASE WalkEnds \/ KillEnds
  <2>1. UNCHANGED <<parent, step, candidate>> /\ parent = 0 /\ step = "look" /\ candidate = NoCandidate
        /\ \/ walk' = "idle" /\ visited' = [p \in Pids |-> 0]
           \/ walk' = "signal" /\ visited' = visited /\ queue' = Owned
    BY <1>17 DEF WalkEnds, KillEnds, Returns, GoesOnToKill, OnTheWay
  <2>2. \A p \in Pids : Current(p) => p \in Owned
    BY <1>4, RecordFacts DEF Current, Owned, Alive, Clocked, TreeTypeOK
  <2>3. Positions' /\ SendReaches' /\ SignalsAll'
    BY <1>1, <1>3, <1>4, <1>6, <2>1, <2>2 DEF OnTheWay, SendReaches, SignalsAll
  <2>. QED
    BY <1>7, <2>1, <2>3 DEF OnTheWay
<1>. QED
  BY <1>10, <1>11, <1>12, <1>13, <1>14, <1>15, <1>16, <1>17 DEF QuietNext

----------------------------------------------------------------------------
(* Steps in which processes stop or end.                                   *)

(* A process that runs on is the one it was.                               *)
RunsOn(p) == proc'[p].start = proc[p].start /\ proc'[p].ours = proc[p].ours /\ proc'[p].raced = proc[p].raced

LEMMA FewerKeep ==
  ASSUME TreeInv, TreeTypeOK', UNCHANGED <<jiffies, identity, visited, candidate, queue, walk, spared>>,
         \A p \in Pids : proc'[p] = NoProcess \/ RunsOn(p),
         \/ UNCHANGED <<parent, step>>
         \/ step = "send" /\ parent' = parent /\ step' = "list" /\ walk # "signal"
         \/ step = "send" /\ parent' = 0 /\ step' = "look" /\ proc'[parent] = NoProcess
  PROVE  /\ Clocked' /\ OwnedAreOurs' /\ OnTheWay'
         /\ \A p \in Pids : (Current(p)' => Current(p)) /\ (Alive(p)' => Alive(p) /\ RunsOn(p))
         /\ \A p \in Pids : Alive(p)' => (Current(p)' <=> Current(p))
<1>. USE TreeAssumption DEF TreeInv
<1>1. /\ proc \in [Pids -> Processes \cup {NoProcess}] /\ proc' \in [Pids -> Processes \cup {NoProcess}]
      /\ jiffies \in Nat /\ parent \in Pids \cup {0}
  BY DEF Clocked, TreeTypeOK
<1>2. \A p \in Pids : Alive(p)' => RunsOn(p)
  BY DEF Alive
<1>3. \A p \in Pids : Alive(p)' => Alive(p) /\ (Current(p)' <=> Current(p))
  <2>. SUFFICES ASSUME NEW p \in Pids, Alive(p)' PROVE Alive(p) /\ (Current(p)' <=> Current(p))
    OBVIOUS
  <2>. QED
    BY <1>1, <1>2, SameProcess DEF RunsOn
<1>4. \A p \in Pids : Current(p)' => Current(p) /\ Alive(p)'
  BY <1>3 DEF Current
<1>5. \A p \in Pids : proc'[p].start <= jiffies
  <2>. TAKE p \in Pids
  <2>1. CASE proc'[p] = NoProcess
    BY <1>1, <2>1 DEF NoProcess
  <2>2. CASE RunsOn(p)
    BY <2>2 DEF RunsOn, Clocked
  <2>. QED
    BY <2>1, <2>2
<1>6. Clocked'
  BY <1>5 DEF Clocked
<1>7. OwnedAreOurs'
  BY <1>2, <1>4 DEF Descent, OwnedAreOurs, RunsOn
<1>8. Positions'
  BY DEF OnTheWay, Positions
<1>9. NumbersGrow'
  BY <1>2, <1>3 DEF OnTheWay, Positions, NumbersGrow, RunsOn
<1>10. CandidateIsOurs'
  <2>. SUFFICES ASSUME candidate # NoCandidate, Current(parent)', Alive(candidate.pid)',
                       proc'[candidate.pid].start = candidate.start
                PROVE  proc'[candidate.pid].ours
    BY DEF CandidateIsOurs
  <2>1. candidate.pid \in Pids /\ parent' = parent /\ parent \in Pids
    BY <1>1 DEF OnTheWay, Positions
  <2>. QED
    BY <1>2, <1>3, <1>4, <2>1 DEF OnTheWay, CandidateIsOurs, RunsOn
<1>11. SendReaches'
  <2>. SUFFICES ASSUME step' = "send", Alive(parent)' PROVE Current(parent)' \/ proc'[parent'].raced
    BY DEF SendReaches
  <2>1. parent' = parent /\ step = "send" /\ parent \in Pids
    BY <1>1 DEF OnTheWay, Positions
  <2>. QED
    BY <1>2, <1>3, <2>1 DEF OnTheWay, SendReaches, RunsOn
<1>12. SignalsAll'
  <2>. SUFFICES ASSUME walk = "signal", NEW p \in Pids, Current(p)' PROVE p \in queue \cup {parent'} \cup spared
    BY DEF SignalsAll
  <2>1. p \in queue \cup {parent} \cup spared
    BY <1>4 DEF OnTheWay, SignalsAll
  <2>2. CASE parent' = parent
    BY <2>1, <2>2
  <2>3. CASE proc'[parent] = NoProcess
    BY <1>4, <2>1, <2>3 DEF Alive
  <2>. QED
    BY <2>2, <2>3
<1>. QED
  BY <1>2, <1>3, <1>4, <1>6, <1>7, <1>8, <1>9, <1>10, <1>11, <1>12 DEF OnTheWay

(* A process that is owned, or came late, is stopped.                      *)
LEMMA StopKeeps ==
  ASSUME TreeInv, (\E p \in Pids : Halts(p)) \/ SendsStop
  PROVE  /\ TreeInv' /\ UNCHANGED <<identity, walk, queue, visited, children, candidate, failed, spared, parent>>
         /\ \A p \in Pids : /\ (Alive(p)' <=> Alive(p)) /\ (Current(p)' <=> Current(p))
                            /\ proc'[p].parent = proc[p].parent /\ proc'[p].lost = proc[p].lost
                            /\ RunsOn(p) /\ (Frozen(p) => Frozen(p)')
<1>. USE TreeAssumption DEF TreeInv
<1>1. proc \in [Pids -> Processes \cup {NoProcess}]
  BY DEF Clocked, TreeTypeOK
<1>2. UNCHANGED <<jiffies, identity, walk, queue, visited, children, candidate, failed, spared, parent>>
  BY DEF Halts, SendsStop, walkVars
<1>3. \/ \E p \in Pids : /\ Frozen(p) /\ proc' = [proc EXCEPT ![p].stop = "yes"] /\ step' = step
      \/ /\ step = "send" /\ step' = "list" /\ walk = "kill"
         /\ \/ proc' = proc
            \/ parent \in Pids /\ Alive(parent) /\ proc' = [proc EXCEPT ![parent].stop = "sent"]
  BY DEF Halts, SendsStop, walkVars, Frozen, Clocked, TreeTypeOK, AtParent
<1>4. \A p \in Pids : Frozen(p) => Alive(p)
  BY DEF Frozen, Alive, NoProcess
<1>5. PICK p \in Pids, x \in {"sent", "yes"} :
        \/ proc' = proc
        \/ /\ Alive(p) /\ proc' = [proc EXCEPT ![p].stop = x]
           /\ Frozen(p) \/ (p = parent /\ step = "send")
  BY <1>3, <1>4
<1>6. /\ proc' \in [Pids -> Processes \cup {NoProcess}]
      /\ \A q \in Pids : /\ RunsOn(q) /\ proc'[q].parent = proc[q].parent /\ proc'[q].lost = proc[q].lost
                         /\ Frozen(q) => Frozen(q)'
                         /\ Frozen(q)' => Frozen(q) \/ (q = parent /\ step = "send" /\ Alive(q))
  <2>1. CASE Alive(p) /\ proc' = [proc EXCEPT ![p].stop = x]
    <3>1. proc[p] \in Processes
      BY <1>1, <2>1 DEF Alive
    <3>. QED
      BY <1>1, <1>5, <2>1, <3>1 DEF Processes, Frozen, RunsOn
  <2>2. CASE proc' = proc
    BY <1>1, <2>2 DEF Frozen, RunsOn
  <2>. QED
    BY <1>5, <2>1, <2>2
<1>7. \A q \in Pids : (Alive(q)' <=> Alive(q)) /\ (Current(q)' <=> Current(q))
  BY <1>1, <1>2, <1>6, SameProcess DEF RunsOn
<1>8. TreeTypeOK'
  BY <1>2, <1>3, <1>6 DEF Clocked, TreeTypeOK
<1>9. Clocked' /\ OwnedAreOurs' /\ OnTheWay'
  BY <1>2, <1>3, <1>6, <1>8, FewerKeep
<1>10. Lineage'
  <2>. SUFFICES ASSUME NEW q \in Pids PROVE LineOf(q)'
    BY DEF Lineage
  <2>1. proc[q].parent \in Pids \cup {0}
    BY <1>1, RecordFacts
  <2>. QED
    BY <1>6, <1>7, <2>1 DEF Descent, Lineage, LineOf, RunsOn
<1>11. FrozenKnown'
  <2>. SUFFICES ASSUME NEW q \in Pids, Frozen(q)' PROVE proc[q].raced \/ Current(q)
    BY <1>6, <1>7 DEF FrozenKnown, RunsOn
  <2>1. CASE Frozen(q)
    BY <2>1 DEF Descent, FrozenKnown
  <2>2. CASE q = parent /\ step = "send" /\ Alive(q)
    BY <2>2 DEF OnTheWay, SendReaches
  <2>. QED
    BY <1>6, <2>1, <2>2
<1>. QED
  BY <1>2, <1>6, <1>7, <1>9, <1>10, <1>11 DEF Descent

(* A process that ends leaves the rest as it was, but for the parents.     *)
LEMMA WithoutFacts ==
  ASSUME proc \in [Pids -> Processes \cup {NoProcess}], NEW e \in Pids, NEW unseen, proc' = Without(e, unseen)
  PROVE  /\ proc' \in [Pids -> Processes \cup {NoProcess}] /\ proc'[e] = NoProcess
         /\ \A p \in Pids \ {e} :
              /\ RunsOn(p) /\ proc'[p].stop = proc[p].stop
              /\ \/ proc'[p] = proc[p] /\ (Alive(p) => proc[p].parent # e)
                 \/ /\ Alive(p) /\ proc[p].parent = e /\ proc'[p].parent = 0
                    /\ proc[p].lost \/ (unseen /\ proc[p].ours /\ ~Current(p)) => proc'[p].lost
<1>1. proc'[e] = NoProcess
  BY DEF Without
<1>2. ASSUME NEW p \in Pids \ {e}, Alive(p), proc[p].parent = e
      PROVE  /\ proc'[p] \in Processes
             /\ RunsOn(p) /\ proc'[p].stop = proc[p].stop /\ proc'[p].parent = 0
             /\ proc[p].lost \/ (unseen /\ proc[p].ours /\ ~Current(p)) => proc'[p].lost
  <2>1. proc'[p] = Orphaned(p, unseen)
    BY <1>2 DEF Without
  <2>2. proc[p] \in Processes
    BY <1>2 DEF Alive
  <2>3. (proc[p].lost \/ (unseen /\ proc[p].ours /\ ~Current(p))) \in BOOLEAN
    OBVIOUS
  <2>4. /\ proc'[p] = [proc[p] EXCEPT !.parent = 0, !.lost = proc'[p].lost] /\ proc'[p].lost \in BOOLEAN
        /\ proc'[p].lost = (proc[p].lost \/ (unseen /\ proc[p].ours /\ ~Current(p)))
    BY <2>1, <2>2, <2>3 DEF Orphaned, Processes
  <2>. QED
    BY <2>2, <2>4 DEF Processes, RunsOn
<1>3. ASSUME NEW p \in Pids \ {e}, ~(Alive(p) /\ proc[p].parent = e)
      PROVE  proc'[p] = proc[p]
  BY <1>3 DEF Without
<1>4. proc' \in [Pids -> Processes \cup {NoProcess}]
  <2>1. \A p \in Pids : proc'[p] \in Processes \cup {NoProcess}
    BY <1>1, <1>2, <1>3
  <2>. QED
    BY <2>1 DEF Without
<1>. QED
  BY <1>1, <1>2, <1>3, <1>4 DEF RunsOn

(* Exit and SendsKill: a process has ended.                                *)
EndsNow(e, unseen) ==
  /\ Alive(e) /\ proc' = Without(e, unseen)
  /\ UNCHANGED <<jiffies, identity, walk, queue, visited, children, candidate, failed, spared>>
  /\ \/ UNCHANGED <<parent, step>>
     \/ walk = "signal" /\ step = "send" /\ parent = e /\ parent' = 0 /\ step' = "look"

LEMMA EndKeeps ==
  ASSUME TreeInv, NEW e \in Pids, NEW unseen, EndsNow(e, unseen)
  PROVE  /\ TreeInv'
         /\ ~Alive(e)' /\ ~Current(e)' /\ ~proc'[e].ours
         /\ \A p \in Pids \ {e} :
              /\ (Alive(p)' <=> Alive(p)) /\ (Current(p)' <=> Current(p))
              /\ RunsOn(p) /\ (Frozen(p) => Frozen(p)')
              /\ \/ proc'[p] = proc[p] /\ (Alive(p) => proc[p].parent # e)
                 \/ /\ Alive(p) /\ proc[p].parent = e /\ proc'[p].parent = 0
                    /\ proc[p].lost \/ (unseen /\ proc[p].ours /\ ~Current(p)) => proc'[p].lost
<1>. USE TreeAssumption DEF TreeInv
<1>1. /\ proc \in [Pids -> Processes \cup {NoProcess}] /\ proc' = Without(e, unseen)
      /\ UNCHANGED <<jiffies, identity, walk, queue, visited, children, candidate, failed, spared>>
  BY DEF Clocked, TreeTypeOK, EndsNow
<1>2. /\ proc' \in [Pids -> Processes \cup {NoProcess}] /\ proc'[e] = NoProcess
      /\ \A p \in Pids \ {e} :
              /\ RunsOn(p) /\ proc'[p].stop = proc[p].stop
              /\ \/ proc'[p] = proc[p] /\ (Alive(p) => proc[p].parent # e)
                 \/ /\ Alive(p) /\ proc[p].parent = e /\ proc'[p].parent = 0
                    /\ proc[p].lost \/ (unseen /\ proc[p].ours /\ ~Current(p)) => proc'[p].lost
  BY <1>1, WithoutFacts
<1>3. TreeTypeOK'
  BY <1>1, <1>2 DEF Clocked, TreeTypeOK, EndsNow
<1>4. Clocked' /\ OwnedAreOurs' /\ OnTheWay'
  <2>1. \A p \in Pids : proc'[p] = NoProcess \/ RunsOn(p)
    BY <1>2
  <2>2. UNCHANGED <<parent, step>> \/ (step = "send" /\ parent' = 0 /\ step' = "look" /\ proc'[parent] = NoProcess)
    BY <1>2 DEF EndsNow
  <2>. QED
    BY <1>1, <1>3, <2>1, <2>2, FewerKeep
<1>5. ~Alive(e)' /\ ~Current(e)' /\ ~proc'[e].ours /\ ~Frozen(e)'
  BY <1>2 DEF Alive, Current, Frozen, NoProcess
<1>6. \A p \in Pids \ {e} : (Alive(p)' <=> Alive(p)) /\ (Current(p)' <=> Current(p)) /\ (Frozen(p)' <=> Frozen(p))
  BY <1>1, <1>2, SameProcess DEF RunsOn, Frozen
<1>7. Lineage'
  <2>. SUFFICES ASSUME NEW p \in Pids, Alive(p)', proc'[p].parent # 0 PROVE LineOf(p)'
    BY DEF Lineage, LineOf
  <2>1. p # e /\ Alive(p) /\ proc'[p] = proc[p] /\ proc[p].parent # e
    BY <1>2, <1>5, <1>6
  <2>2. proc[p].parent \in Pids \ {e}
    BY <1>1, <2>1, RecordFacts
  <2>3. Alive(proc[p].parent) /\ (proc[proc[p].parent].ours => proc[p].ours)
    BY <2>1, <2>2, TreeAssumption DEF Descent, Lineage, LineOf
  <2>4. Alive(proc[p].parent)' /\ proc'[proc[p].parent].ours = proc[proc[p].parent].ours
    <3>1. (Alive(proc[p].parent) => proc'[proc[p].parent] # NoProcess) /\ RunsOn(proc[p].parent)
      BY <1>2, <1>6, <2>2 DEF Alive
    <3>. QED
      BY <2>1, <2>3, <3>1 DEF Alive, RunsOn
  <2>. QED
    BY <2>1, <2>3, <2>4 DEF LineOf, Alive
<1>8. FrozenKnown'
  BY <1>2, <1>5, <1>6 DEF Descent, FrozenKnown, RunsOn
<1>. QED
  BY <1>2, <1>4, <1>5, <1>6, <1>7, <1>8 DEF Descent

(* One that is gone already takes a SIGKILL no worse.                      *)
LEMMA KilledEnds ==
  ASSUME TreeInv, SendsKill
  PROVE  \/ /\ EndsNow(parent, failed \/ ~Current(parent) \/ visited[parent] \notin {0, identity[parent]})
            /\ parent \in Pids
         \/ /\ ~Alive(parent) /\ parent \in Pids /\ UNCHANGED <<proc, jiffies, identity>> /\ TreeInv'
            /\ UNCHANGED <<walk, queue, visited, children, candidate, failed, spared>>
            /\ parent' = 0 /\ step' = "look"
<1>1. parent \in Pids /\ walk = "signal" /\ step = "send" /\ parent' = 0 /\ step' = "look"
      /\ UNCHANGED <<jiffies, identity, walk, queue, visited, children, candidate, failed, spared>>
  BY DEF SendsKill, AtParent, TreeInv, Clocked, TreeTypeOK
<1>2. CASE Alive(parent)
  BY <1>1, <1>2 DEF SendsKill, EndsNow
<1>3. CASE ~Alive(parent)
  <2>1. proc' = proc
    BY <1>3 DEF SendsKill
  <2>2. jiffies' \in jiffies..JiffyLimit /\ jiffies \in Nat
    BY <1>1, TreeAssumption DEF TreeInv, Clocked, TreeTypeOK
  <2>3. Descent' /\ \A p \in Pids \cup {0} : (Current(p)' <=> Current(p)) /\ (Alive(p)' <=> Alive(p))
    BY <1>1, <2>1, <2>2, QuietDescent
  <2>4. Clocked'
    BY <1>1, <2>1 DEF TreeInv, Clocked, TreeTypeOK
  <2>5. OnTheWay'
    <3>1. candidate = NoCandidate
      BY <1>1 DEF TreeInv, OnTheWay, Positions
    <3>. QED
      BY <1>1, <1>3, <2>1, <2>3, <3>1 DEF TreeInv, OnTheWay, Positions, NumbersGrow, CandidateIsOurs, SendReaches,
         SignalsAll, Current
  <2>. QED
    BY <1>1, <1>3, <2>1, <2>3, <2>4, <2>5 DEF TreeInv
<1>. QED
  BY <1>2, <1>3

----------------------------------------------------------------------------
(* A process starts.                                                       *)
LEMMA ForkKeeps ==
  ASSUME TreeInv, NEW p \in Pids \cup {0}, NEW c \in Pids, Fork(p, c)
  PROVE  /\ TreeInv' /\ UNCHANGED <<identity, walk, queue, parent, step, visited, children, candidate, failed, spared>>
         /\ ~Alive(c) /\ ~Current(c)' /\ proc'[c].parent = p /\ (p # 0 => p # c /\ Alive(p) /\ proc[p].stop # "yes")
         /\ p = 0 => ~proc'[c].ours
         /\ p # 0 /\ proc[p].ours /\ Slips(p) => proc'[c].lost
         /\ proc'[c].start = jiffies + 1
         /\ \A q \in Pids \ {c} : proc'[q] = proc[q] /\ (Alive(q)' <=> Alive(q)) /\ (Current(q)' <=> Current(q))
<1>. USE TreeAssumption DEF TreeInv
<1>0. /\ proc \in [Pids -> Processes \cup {NoProcess}] /\ jiffies \in Nat /\ JiffyLimit \in Nat
      /\ parent \in Pids \cup {0} /\ candidate.start \in Nat
  BY DEF Clocked, TreeTypeOK
<1>1. /\ ~Alive(c) /\ jiffies' = jiffies + 1 /\ jiffies' \in 1..JiffyLimit
      /\ (p # 0 => Alive(p) /\ p # c /\ proc[p].stop # "yes")
  BY <1>0 DEF Fork
<1>2. PICK o \in BOOLEAN, l \in BOOLEAN, r \in BOOLEAN :
        /\ o <=> p # 0 /\ proc[p].ours
        /\ l <=> p # 0 /\ proc[p].ours /\ Slips(p)
        /\ r <=> parent = c /\ step = "send"
        /\ proc' = [proc EXCEPT ![c] = [start |-> jiffies', parent |-> p, stop |-> "no", ours |-> o, lost |-> l, raced |-> r]]
  <2>1. /\ (p # 0 /\ proc[p].ours) \in BOOLEAN /\ (p # 0 /\ proc[p].ours /\ Slips(p)) \in BOOLEAN
        /\ (parent = c /\ step = "send") \in BOOLEAN
    OBVIOUS
  <2>. QED
    BY <2>1 DEF Fork
<1>3. proc' \in [Pids -> Processes \cup {NoProcess}]
  BY <1>0, <1>1, <1>2 DEF Processes
<1>4. /\ \A q \in Pids \ {c} : proc'[q] = proc[q]
      /\ proc'[c].start = jiffies' /\ proc'[c].parent = p /\ proc'[c].stop = "no" /\ (proc'[c].ours <=> o)
      /\ (proc'[c].lost <=> l) /\ (proc'[c].raced <=> r)
  BY <1>0, <1>2
<1>5. UNCHANGED <<identity, walk, queue, parent, step, visited, children, candidate, failed, spared>>
  BY DEF Fork, walkVars
<1>6. TreeTypeOK'
  BY <1>1, <1>3, <1>5 DEF Clocked, TreeTypeOK
<1>7. \A q \in Pids : identity[q] \in Nat /\ identity[q] <= jiffies /\ visited[q] \in Nat
  BY DEF Clocked, TreeTypeOK
<1>8. Clocked'
  <2>1. \A q \in Pids : proc'[q].start <= jiffies'
    <3>. TAKE q \in Pids
    <3>1. CASE q = c
      BY <1>1, <1>4, <3>1
    <3>2. CASE q # c
      BY <1>0, <1>1, <1>4, <3>2, RecordFacts DEF Clocked
    <3>. QED
      BY <3>1, <3>2
  <2>. QED
    <3>1. \A q \in Pids : identity'[q] <= jiffies'
      BY <1>0, <1>1, <1>5, <1>7
    <3>. QED
      BY <1>6, <2>1, <3>1 DEF Clocked
<1>9. ~Current(c)' /\ ~Current(c) /\ \A q \in Pids \ {c} : (Current(q)' <=> Current(q)) /\ (Alive(q)' <=> Alive(q))
  BY <1>0, <1>1, <1>4, <1>5, <1>7 DEF Current, Alive
<1>10. OwnedAreOurs' /\ FrozenKnown'
  BY <1>4, <1>5, <1>9 DEF Descent, OwnedAreOurs, FrozenKnown, Frozen
<1>11. Lineage'
  <2>. SUFFICES ASSUME NEW q \in Pids, Alive(q)', proc'[q].parent # 0 PROVE LineOf(q)'
    BY DEF Lineage, LineOf
  <2>1. CASE q = c
    <3>1. p \in Pids \ {c} /\ proc'[q].parent = p /\ Alive(p)
      BY <1>1, <1>4, <2>1
    <3>2. proc'[p] = proc[p] /\ (proc'[q].ours <=> proc[p].ours)
      BY <1>2, <1>4, <2>1, <3>1
    <3>. QED
      BY <3>1, <3>2 DEF LineOf, Alive
  <2>2. CASE q # c
    <3>1. Alive(q) /\ proc'[q] = proc[q]
      BY <1>4, <1>9, <2>2
    <3>2. proc[q].parent \in Pids
      BY <1>0, <3>1, RecordFacts
    <3>3. Alive(proc[q].parent) /\ (proc[proc[q].parent].ours => proc[q].ours)
      BY <3>1 DEF Descent, Lineage, LineOf
    <3>4. proc'[proc[q].parent] = proc[proc[q].parent]
      BY <1>1, <1>4, <3>2, <3>3
    <3>. QED
      BY <3>1, <3>3, <3>4 DEF LineOf, Alive
  <2>. QED
    BY <2>1, <2>2
<1>12. Positions'
  BY <1>0, <1>1, <1>5 DEF OnTheWay, Positions
<1>13. NumbersGrow'
  <2>1. \A q \in Pids : visited[q] <= identity[q] /\ (Alive(q)' => identity[q] <= proc'[q].start)
    BY <1>0, <1>1, <1>4, <1>7, <1>9 DEF OnTheWay, NumbersGrow
  <2>2. ASSUME candidate # NoCandidate
        PROVE  /\ identity[candidate.pid] <= candidate.start
               /\ proc'[candidate.pid] # NoProcess => candidate.start <= proc'[candidate.pid].start
    <3>1. candidate.pid \in Pids /\ candidate.start <= jiffies
      BY <2>2 DEF OnTheWay, Positions
    <3>2. CASE candidate.pid = c
      BY <1>0, <1>1, <1>4, <2>2, <3>1, <3>2 DEF OnTheWay, NumbersGrow
    <3>3. CASE candidate.pid # c
      BY <1>4, <2>2, <3>1, <3>3 DEF OnTheWay, NumbersGrow, Alive
    <3>. QED
      BY <3>2, <3>3
  <2>. QED
    BY <1>5, <2>1, <2>2 DEF NumbersGrow, Alive
<1>14. CandidateIsOurs'
  <2>. SUFFICES ASSUME candidate # NoCandidate, Current(parent)', Alive(candidate.pid)',
                       proc'[candidate.pid].start = candidate.start
                PROVE  proc'[candidate.pid].ours
    BY <1>5 DEF CandidateIsOurs
  <2>1. candidate.pid \in Pids /\ candidate.start <= jiffies /\ parent' = parent
        /\ parent # 0
    BY <1>5 DEF OnTheWay, Positions
  <2>2. candidate.pid # c /\ parent # c
    BY <1>0, <1>1, <1>4, <1>9, <2>1
  <2>. QED
    BY <1>0, <1>4, <1>5, <1>9, <2>1, <2>2 DEF OnTheWay, CandidateIsOurs, Alive
<1>15. SendReaches'
  <2>. SUFFICES ASSUME step = "send", Alive(parent)' PROVE Current(parent)' \/ proc'[parent].raced
    BY <1>5 DEF SendReaches
  <2>1. parent' = parent /\ parent \in Pids
    BY <1>0, <1>5 DEF OnTheWay, Positions
  <2>. QED
    BY <1>2, <1>4, <1>9, <2>1 DEF OnTheWay, SendReaches
<1>16. SignalsAll'
  BY <1>5, <1>9 DEF OnTheWay, SignalsAll
<1>17. TreeInv'
  BY <1>8, <1>10, <1>11, <1>12, <1>13, <1>14, <1>15, <1>16 DEF Descent, OnTheWay
<1>. QED
  BY <1>1, <1>2, <1>4, <1>5, <1>9, <1>17

----------------------------------------------------------------------------
(* What is owned changes: the gone are dropped, a child is adopted.        *)
LEMMA WalkKeeps ==
  ASSUME TreeInv, NEW why \in {"observe", "kill"}, Walk(why)
  PROVE  /\ TreeInv' /\ proc' = proc /\ walk' = why
         /\ \A p \in Pids : (Current(p)' <=> Current(p)) /\ (Current(p) => p \in queue')
<1>. USE TreeAssumption DEF TreeInv
<1>0. /\ proc \in [Pids -> Processes \cup {NoProcess}] /\ jiffies \in Nat /\ JiffyLimit \in Nat
      /\ identity \in [Pids -> 0..JiffyLimit] /\ visited \in [Pids -> 0..JiffyLimit]
      /\ \A p \in Pids : identity[p] \in Nat /\ proc[p].start \in Nat
  BY RecordFacts DEF Clocked, TreeTypeOK
<1>1. PICK unread \in SUBSET Owned :
        /\ identity' = [p \in Pids |-> IF Current(p) \/ p \in unread THEN identity[p] ELSE 0]
        /\ failed' = (unread # {}) /\ jiffies' = jiffies + Cardinality(unread) /\ jiffies' <= JiffyLimit
  BY DEF Walk
<1>2. Cardinality(unread) \in Nat
  BY FS_Subset, FS_CardinalityType DEF Owned
<1>3. jiffies' \in jiffies..JiffyLimit
  BY <1>0, <1>1, <1>2
<1>4. /\ UNCHANGED <<proc, parent, step, visited, children, candidate, spared>> /\ walk = "idle" /\ walk' = why
      /\ queue' = {p \in Pids : identity'[p] # 0}
  BY DEF Walk
<1>5. \A p \in Pids : (Alive(p)' <=> Alive(p)) /\ (Current(p)' <=> Current(p)) /\ (Current(p) => p \in queue')
                      /\ identity'[p] \in {identity[p], 0}
  <2>. TAKE p \in Pids
  <2>1. Alive(p) => proc[p].start # 0
    BY <1>0, RecordFacts DEF Alive
  <2>. QED
    BY <1>0, <1>1, <1>4, <2>1 DEF Current, Alive
<1>6. identity' \in [Pids -> 0..JiffyLimit]
  BY <1>0, <1>1
<1>7. TreeTypeOK'
  <2>1. jiffies' \in 1..JiffyLimit
    BY <1>0, <1>3 DEF Clocked, TreeTypeOK
  <2>. QED
    BY <1>1, <1>4, <1>6, <2>1 DEF Clocked, TreeTypeOK
<1>8. Clocked'
  <2>1. \A p \in Pids : identity'[p] <= jiffies' /\ proc[p].start <= jiffies'
    BY <1>0, <1>3, <1>5 DEF Clocked
  <2>. QED
    BY <1>4, <1>7, <2>1 DEF Clocked
<1>9. Descent'
  BY <1>4, <1>5 DEF Descent, OwnedAreOurs, Lineage, LineOf, FrozenKnown, Frozen, Alive
<1>10. parent = 0 /\ step = "look" /\ candidate = NoCandidate /\ \A p \in Pids : visited[p] = 0
  BY <1>4 DEF OnTheWay, Positions
<1>11. \A p \in Pids : identity'[p] \in Nat /\ (Alive(p) => identity'[p] <= proc[p].start)
  BY <1>0, <1>5 DEF OnTheWay, NumbersGrow
<1>12. OnTheWay'
  BY <1>0, <1>4, <1>5, <1>10, <1>11 DEF OnTheWay, Positions, NumbersGrow, CandidateIsOurs, SendReaches, SignalsAll, Alive
<1>. QED
  BY <1>4, <1>5, <1>8, <1>9, <1>12

LEMMA AdoptKeeps ==
  ASSUME TreeInv, NEW c \in Pids, Adopt(c)
  PROVE  /\ TreeInv' /\ UNCHANGED <<proc, walk, parent, step, visited, spared>> /\ candidate' = NoCandidate
         /\ walk # "signal" /\ candidate # NoCandidate /\ step = "adopt" /\ candidate.pid = c
         /\ \A p \in Pids \ {c} : (Current(p)' <=> Current(p)) /\ identity'[p] = identity[p]
         /\ Current(c) => Current(c)'
         /\ Current(c)' => Current(c) \/ (c \in queue' /\ visited[c] # identity'[c])
         /\ ~failed' => /\ ~failed /\ UNCHANGED children /\ queue \subseteq queue'
                        /\ Current(parent) /\ Alive(c) /\ proc[c].start = candidate.start => Current(c)'
<1>. USE TreeAssumption DEF TreeInv
<1>0. /\ proc \in [Pids -> Processes \cup {NoProcess}] /\ jiffies \in Nat /\ JiffyLimit \in Nat
      /\ identity \in [Pids -> 0..JiffyLimit] /\ candidate.start \in 0..JiffyLimit /\ parent \in Pids \cup {0}
      /\ visited \in [Pids -> 0..JiffyLimit] /\ failed \in BOOLEAN
      /\ \A p \in Pids : identity[p] \in Nat /\ proc[p].start \in Nat
  BY RecordFacts DEF Clocked, TreeTypeOK
<1>1. UNCHANGED <<proc, jiffies, parent, walk, step, visited, spared>> /\ candidate' = NoCandidate
  BY DEF Adopt, systemVars
<1>2. candidate # NoCandidate /\ candidate.pid = c /\ step = "adopt" /\ candidate.start <= jiffies
      /\ walk # "signal" /\ parent # 0 /\ identity[c] <= candidate.start
      /\ (Alive(c) => candidate.start <= proc[c].start) /\ visited[c] <= identity[c]
  BY DEF Adopt, OnTheWay, Positions, NumbersGrow
<1>3. children' \in SUBSET Pids /\ queue' \in SUBSET Pids /\ failed' \in BOOLEAN
  BY DEF Adopt, Clocked, TreeTypeOK
<1>4. \/ identity' = identity
      \/ identity' = [identity EXCEPT ![c] = candidate.start] /\ IsChild(c) /\ c \in queue'
  BY DEF Adopt
<1>5. identity' \in [Pids -> 0..JiffyLimit] /\ \A p \in Pids : identity'[p] <= jiffies /\ identity'[p] \in Nat
  BY <1>0, <1>2, <1>4 DEF Clocked
<1>6. \A p \in Pids \ {c} : (Current(p)' <=> Current(p)) /\ identity'[p] = identity[p]
  BY <1>0, <1>1, <1>4 DEF Current, Alive
<1>7. Current(c) => Current(c)'
  BY <1>0, <1>1, <1>2, <1>4 DEF Current, Alive, IsChild
<1>8. Current(c)' => Current(c) \/ (c \in queue' /\ visited[c] # identity'[c])
  BY <1>0, <1>1, <1>2, <1>4 DEF Current, Alive, IsChild
<1>9. ~failed' => /\ ~failed /\ UNCHANGED children /\ queue \subseteq queue'
                  /\ Current(parent) /\ Alive(c) /\ proc[c].start = candidate.start => Current(c)'
  BY <1>0, <1>1 DEF Adopt, IsChild, Current, Alive
<1>10. \A p \in Pids : Alive(p)' <=> Alive(p)
  BY <1>1 DEF Alive
<1>11. Clocked'
  <2>1. TreeTypeOK'
    BY <1>1, <1>3, <1>5 DEF Clocked, TreeTypeOK, NoCandidate
  <2>. QED
    BY <1>1, <1>5, <2>1 DEF Clocked
<1>12. OwnedAreOurs'
  <2>. SUFFICES ASSUME Current(c)', ~Current(c) PROVE proc[c].ours
    BY <1>1, <1>6 DEF Descent, OwnedAreOurs
  <2>1. IsChild(c) /\ Alive(c) /\ proc[c].start = candidate.start
    BY <1>0, <1>1, <1>4 DEF Current, Alive
  <2>. QED
    BY <1>2, <2>1 DEF OnTheWay, CandidateIsOurs, IsChild
<1>13. Lineage' /\ FrozenKnown'
  BY <1>1, <1>6, <1>7, <1>10 DEF Descent, Lineage, LineOf, FrozenKnown, Frozen, Alive
<1>14. Positions' /\ CandidateIsOurs' /\ SendReaches' /\ SignalsAll'
  BY <1>1, <1>2 DEF OnTheWay, Positions, CandidateIsOurs, SendReaches, SignalsAll
<1>15. NumbersGrow'
  <2>1. \A p \in Pids : visited[p] <= identity'[p] /\ (Alive(p) => identity'[p] <= proc[p].start)
    <3>. TAKE p \in Pids
    <3>1. CASE p = c
      BY <1>0, <1>2, <1>4, <3>1
    <3>2. CASE p # c
      BY <1>6, <3>2 DEF OnTheWay, NumbersGrow
    <3>. QED
      BY <3>1, <3>2
  <2>. QED
    BY <1>1, <1>10, <2>1 DEF NumbersGrow
<1>. QED
  BY <1>1, <1>2, <1>6, <1>7, <1>8, <1>9, <1>11, <1>12, <1>13, <1>14, <1>15 DEF Descent, OnTheWay

LEMMA StepTree == TreeInv /\ [TreeNext]_treeVars => TreeInv'
<1>. SUFFICES ASSUME TreeInv, [TreeNext]_treeVars PROVE TreeInv'
  OBVIOUS
<1>1. CASE \E p \in Pids \cup {0}, c \in Pids : Fork(p, c)
  BY <1>1, ForkKeeps
<1>2. ASSUME NEW p \in Pids, Exit(p) PROVE TreeInv'
  BY <1>2, EndKeeps DEF Exit, EndsNow, walkVars
<1>3. CASE SendsKill
  BY <1>3, KilledEnds, EndKeeps
<1>4. CASE (\E p \in Pids : Halts(p)) \/ SendsStop
  BY <1>4, StopKeeps
<1>5. CASE Walk("observe") \/ Walk("kill")
  BY <1>5, WalkKeeps
<1>6. CASE \E p \in Pids : Adopt(p)
  BY <1>6, AdoptKeeps
<1>7. CASE QuietNext
  BY <1>7, QuietKeeps
<1>8. CASE UNCHANGED treeVars
  BY <1>8 DEF treeVars, TreeInv, Clocked, TreeTypeOK, Descent, OwnedAreOurs, Lineage, LineOf, FrozenKnown, Frozen,
     OnTheWay, Positions, NumbersGrow, CandidateIsOurs, SendReaches, SignalsAll, Current, Alive
<1>. QED
  BY <1>1, <1>2, <1>3, <1>4, <1>5, <1>6, <1>7, <1>8 DEF TreeNext, QuietNext

(* A kill ends when all it owned was signalled or spared.                  *)
LEMMA KillEndsAll ==
  ASSUME TreeInv, TreeNext, walk \in {"kill", "signal"}, walk' = "idle"
  PROVE  UNCHANGED <<proc, identity>> /\ \A p \in Pids : Current(p) => p \in spared
<1>1. KillEnds
  <2>1. ASSUME NEW p \in Pids PROVE ~(Halts(p) \/ Exit(p) \/ Visit(p) \/ VisitFails(p) \/ LooksAtChild(p) \/ Adopt(p) \/ Turns(p))
    BY DEF Halts, Exit, Visit, VisitFails, LooksAtChild, Adopt, Turns, walkVars
  <2>2. ~(LooksOnce \/ SendsStop \/ StopFails \/ ListsChildren \/ ReadFails \/ Visited \/ SendsKill \/ KillFails)
    BY DEF LooksOnce, SendsStop, StopFails, ListsChildren, ReadFails, Visited, SendsKill, KillFails
  <2>3. ~(Walk("observe") \/ Walk("kill") \/ WalkEnds)
    BY DEF Walk, WalkEnds, GoesOnToKill, Returns, Walking
  <2>4. \A p \in Pids \cup {0}, c \in Pids : ~Fork(p, c)
    BY DEF Fork, walkVars
  <2>. QED
    BY <2>1, <2>2, <2>3, <2>4 DEF TreeNext
<1>. QED
  BY <1>1, TreeAssumption DEF KillEnds, Returns, systemVars, TreeInv, OnTheWay, SignalsAll

(* A signal of collect() and kill() of LinuxProcessTree that is sent right *)
(* after the look reaches the process looked at or one that came between;  *)
(* and of the processes that were frozen a kill leaves only such ones or   *)
(* those it could not signal.                                              *)
THEOREM StopsOnlyItsOwnHolds == TreeSpec => StopsOnlyItsOwn
<1>. DEFINE Reached == step = "send" /\ step' # "send" /\ Alive(parent) => proc[parent].ours \/ proc[parent].raced
            Thawed  == walk \in {"kill", "signal"} /\ walk' = "idle" =>
                         \A p \in Pids : Frozen(p) => proc[p].raced \/ p \in spared
<1>1. ASSUME TreeInv PROVE Reached
  <2>. SUFFICES ASSUME step = "send", Alive(parent) PROVE proc[parent].ours \/ proc[parent].raced
    OBVIOUS
  <2>1. parent \in Pids
    BY <1>1 DEF TreeInv, Clocked, TreeTypeOK, OnTheWay, Positions
  <2>. QED
    BY <1>1, <2>1 DEF TreeInv, OnTheWay, SendReaches, Descent, OwnedAreOurs
<1>2. ASSUME TreeInv, TreeNext PROVE Thawed
  BY <1>2, KillEndsAll DEF TreeInv, Descent, FrozenKnown
<1>3. TreeInv /\ [TreeNext]_treeVars => [Reached /\ Thawed]_treeVars
  BY <1>1, <1>2
<1>. QED
  BY <1>3, InitTree, StepTree, PTL DEF TreeSpec, StopsOnlyItsOwn

----------------------------------------------------------------------------
(* InteractiveProcess                                                      *)

LEMMA FinishStands ==
  ASSUME NEW value, Finish(value), result # "none" PROVE UNCHANGED result
BY DEF Finish

(* FirstResultStands, for any output and any failures of the observation.  *)
THEOREM FirstResultStandsHolds == InvocationSpec => FirstResultStands
<1>. DEFINE A == /\ result # "none" => result' \in {result, "process_cleanup_failed"}
                 /\ resolved' # resolved => /\ resolved = "none"
                                            /\ resolved' = "ok" => result = "ok" \/ (provided /\ exitCode = 0)
<1>1. InvocationNext => A
  <2>. SUFFICES ASSUME InvocationNext PROVE A
    OBVIOUS
  <2>1. CASE Write \/ Read
    BY <2>1 DEF Write, Read
  <2>2. CASE Exits \/ Closes
    BY <2>2 DEF Exits, Closes
  <2>3. CASE Received
    BY <2>3, FinishStands DEF Received
  <2>4. CASE Interrupted
    BY <2>4 DEF Interrupted
  <2>5. CASE Observe
    BY <2>5, FinishStands DEF Observe
  <2>6. CASE Resolve
    BY <2>6 DEF Resolve, Outcome
  <2>. QED
    BY <2>1, <2>2, <2>3, <2>4, <2>5, <2>6 DEF InvocationNext
<1>2. UNCHANGED invocationVars => A \/ UNCHANGED invocationVars
  OBVIOUS
<1>3. [InvocationNext]_invocationVars => [A]_invocationVars
  BY <1>1
<1>. QED
  BY <1>3, PTL DEF InvocationSpec, FirstResultStands

----------------------------------------------------------------------------
(* ClaudeTurn                                                              *)

ClaudeCommands == [state: CommandStates, acknowledged: BOOLEAN, startedAt: Int, completed: BOOLEAN]
ClaudeTyped ==
  /\ command \in [Commands -> ClaudeCommands]
  /\ seen \in [Commands -> SUBSET {"queued", "started", "completed", "result"}]
  /\ generation \in Int /\ steerCall \in Commands \cup {"none"}

(* What the record of a command says the CLI has said.                     *)
Reports(r, g, s) ==
  /\ r.completed => "completed" \in s
  /\ r.startedAt # 0 - 1 => "started" \in s /\ (g > r.startedAt => "result" \in s)
WorkKnown == \A c \in Commands : Reports(command[c], generation, seen[c])

(* As long as nothing has ended, a command that was acknowledged leaves    *)
(* the map only when it is done with.                                      *)
WorkDone(cs, told) ==
  \A c \in Commands : cs[c].acknowledged /\ cs[c].state # "kept" =>
                        {"started", "completed", "result"} \subseteq told[c]

ClaudeInv == ClaudeTyped /\ WorkKnown /\ (~claudeDone => WorkDone(command, seen))

LEMMA InitClaude == ClaudeInit => ClaudeInv
<1>. SUFFICES ASSUME ClaudeInit PROVE ClaudeInv
  OBVIOUS
<1>1. NewCommand \in ClaudeCommands /\ ~NewCommand.acknowledged /\ ~NewCommand.completed /\ NewCommand.startedAt = 0 - 1
  BY DEF NewCommand, ClaudeCommands, CommandStates
<1>2. ClaudeTyped
  BY <1>1 DEF ClaudeInit, ClaudeTyped
<1>3. WorkKnown /\ WorkDone(command, seen)
  BY <1>1 DEF ClaudeInit, WorkKnown, WorkDone, Reports
<1>. QED
  BY <1>2, <1>3 DEF ClaudeInv

(* What is settled has been reported to the end.                           *)
LEMMA SettledDone ==
  ASSUME NEW cs \in [Commands -> ClaudeCommands], NEW g \in Int, NEW told,
         \A c \in Commands : Reports(cs[c], g, told[c])
  PROVE  /\ Settled(cs, g) \in [Commands -> ClaudeCommands] /\ (WorkDone(cs, told) => WorkDone(Settled(cs, g), told))
         /\ \A c \in Commands : /\ Reports(Settled(cs, g)[c], g, told[c])
                                 /\ Settled(cs, g)[c].acknowledged = cs[c].acknowledged
<1>. DEFINE S == Settled(cs, g)
<1>0. \A c \in Commands : S[c] = cs[c]
                          \/ /\ S[c] = [cs[c] EXCEPT !.state = "gone"]
                             /\ cs[c].completed /\ cs[c].startedAt # 0 - 1 /\ g > cs[c].startedAt
  BY DEF Settled
<1>. S = [c \in Commands |-> S[c]]
  BY DEF Settled
<1>. HIDE DEF S
<1>1. \A r \in ClaudeCommands : LET u == [r EXCEPT !.state = "gone"] IN
        /\ u \in ClaudeCommands /\ u.acknowledged = r.acknowledged
        /\ u.startedAt = r.startedAt /\ u.completed = r.completed
  BY DEF ClaudeCommands, CommandStates
<1>2. S \in [Commands -> ClaudeCommands]
  BY <1>0, <1>1
<1>3. \A c \in Commands : Reports(S[c], g, told[c]) /\ S[c].acknowledged = cs[c].acknowledged
  BY <1>0, <1>1 DEF Reports
<1>4. WorkDone(cs, told) => WorkDone(S, told)
  BY <1>0, <1>1 DEF WorkDone, Reports
<1>. QED
  BY <1>2, <1>3, <1>4 DEF S

(* A report of a command, and a result, leave on record what was said.     *)
LEMMA ReportDone ==
  ASSUME ClaudeInv, NEW c \in Commands, NEW state \in {"queued", "started", "completed"}, CommandReported(c, state)
  PROVE  /\ ClaudeTyped' /\ WorkKnown' /\ (~claudeDone => WorkDone(command', seen'))
         /\ \A d \in Commands : command[d].acknowledged => command'[d].acknowledged
<1>. DEFINE u == [command[c] EXCEPT !.acknowledged = TRUE,
                    !.startedAt = IF state = "started" /\ @ = 0 - 1 THEN generation ELSE @,
                    !.completed = @ \/ state = "completed"]
<1>. DEFINE cs == [command EXCEPT ![c] = u]
<1>1. command' = Settled(cs, generation) /\ seen' = [seen EXCEPT ![c] = @ \cup {state}] /\ command[c].state = "kept"
  BY DEF CommandReported, InMap
<1>2. UNCHANGED <<generation, steerCall>>
  BY DEF CommandReported
<1>t. /\ command \in [Commands -> ClaudeCommands] /\ command[c] \in ClaudeCommands /\ generation \in Int
      /\ seen \in [Commands -> SUBSET {"queued", "started", "completed", "result"}]
  BY DEF ClaudeInv, ClaudeTyped
<1>3. /\ u \in ClaudeCommands /\ u.state = "kept" /\ u.acknowledged
      /\ u.startedAt = IF state = "started" /\ command[c].startedAt = 0 - 1 THEN generation ELSE command[c].startedAt
      /\ u.completed = (command[c].completed \/ state = "completed")
  BY <1>1, <1>t DEF ClaudeCommands
<1>. HIDE DEF u
<1>4. cs \in [Commands -> ClaudeCommands] /\ cs[c] = u /\ \A d \in Commands \ {c} : cs[d] = command[d]
  BY <1>3, <1>t
<1>r. command' = Settled(cs, generation) /\ cs \in [Commands -> ClaudeCommands]
  BY <1>1, <1>4 DEF u
<1>. HIDE DEF cs
<1>5. seen' \in [Commands -> SUBSET {"queued", "started", "completed", "result"}]
      /\ seen'[c] = seen[c] \cup {state} /\ \A d \in Commands \ {c} : seen'[d] = seen[d]
  BY <1>1, <1>t
<1>6. Reports(u, generation, seen'[c])
  <2>1. Reports(command[c], generation, seen[c])
    BY DEF ClaudeInv, WorkKnown
  <2>2. command[c].startedAt \in Int
    BY <1>t DEF ClaudeCommands
  <2>3. u.completed => "completed" \in seen'[c]
    BY <1>3, <1>5, <2>1 DEF Reports
  <2>4. u.startedAt # 0 - 1 => "started" \in seen'[c] /\ (generation > u.startedAt => "result" \in seen'[c])
    <3>1. CASE state = "started" /\ command[c].startedAt = 0 - 1
      BY <1>3, <1>5, <1>t, <3>1
    <3>2. CASE ~(state = "started" /\ command[c].startedAt = 0 - 1)
      BY <1>3, <1>5, <2>1, <3>2 DEF Reports
    <3>. QED
      BY <3>1, <3>2
  <2>. QED
    BY <2>3, <2>4 DEF Reports
<1>7. \A d \in Commands : Reports(cs[d], generation, seen'[d])
  BY <1>4, <1>5, <1>6 DEF ClaudeInv, WorkKnown
<1>8. ~claudeDone => WorkDone(cs, seen')
  BY <1>3, <1>4, <1>5 DEF ClaudeInv, WorkDone
<1>9. /\ command' \in [Commands -> ClaudeCommands] /\ (~claudeDone => WorkDone(command', seen'))
      /\ \A d \in Commands : /\ Reports(command'[d], generation, seen'[d])
                              /\ command'[d].acknowledged = cs[d].acknowledged
  <2>1. \A d \in Commands : /\ Reports(Settled(cs, generation)[d], generation, seen'[d])
                            /\ Settled(cs, generation)[d].acknowledged = cs[d].acknowledged
    BY <1>7, <1>r, <1>t, SettledDone
  <2>2. /\ Settled(cs, generation) \in [Commands -> ClaudeCommands]
        /\ WorkDone(cs, seen') => WorkDone(Settled(cs, generation), seen')
    BY <1>7, <1>r, <1>t, SettledDone
  <2>. QED
    BY <1>8, <1>r, <2>1, <2>2
<1>10. \A d \in Commands : command[d].acknowledged => command'[d].acknowledged
  BY <1>3, <1>4, <1>9
<1>. QED
  BY <1>2, <1>5, <1>9, <1>10 DEF ClaudeInv, ClaudeTyped, WorkKnown

LEMMA ResultDone ==
  ASSUME ClaudeInv, NEW success \in BOOLEAN, ResultArrives(success)
  PROVE  /\ ClaudeTyped' /\ WorkKnown' /\ (~claudeDone => WorkDone(command', seen'))
         /\ \A d \in Commands : command[d].acknowledged => command'[d].acknowledged
<1>1. /\ command' = Settled(command, generation + 1) /\ generation' = generation + 1 /\ UNCHANGED steerCall
      /\ seen' = [c \in Commands |-> IF "started" \in seen[c] THEN seen[c] \cup {"result"} ELSE seen[c]]
  BY DEF ResultArrives
<1>t. /\ command \in [Commands -> ClaudeCommands] /\ generation \in Int
      /\ seen \in [Commands -> SUBSET {"queued", "started", "completed", "result"}]
  BY DEF ClaudeInv, ClaudeTyped
<1>2. seen' \in [Commands -> SUBSET {"queued", "started", "completed", "result"}]
  BY <1>1, <1>t
<1>3. \A c \in Commands : Reports(command[c], generation + 1, seen'[c])
  BY <1>1, <1>t DEF ClaudeInv, WorkKnown, Reports
<1>4. ~claudeDone => WorkDone(command, seen')
  BY <1>1, <1>t DEF ClaudeInv, WorkDone
<1>5. generation + 1 \in Int
  BY <1>t
<1>6. /\ command' \in [Commands -> ClaudeCommands] /\ (~claudeDone => WorkDone(command', seen'))
      /\ \A c \in Commands : /\ Reports(command'[c], generation + 1, seen'[c])
                              /\ command'[c].acknowledged = command[c].acknowledged
  <2>1. \A c \in Commands : /\ Reports(Settled(command, generation + 1)[c], generation + 1, seen'[c])
                            /\ Settled(command, generation + 1)[c].acknowledged = command[c].acknowledged
    BY <1>3, <1>5, <1>t, SettledDone
  <2>2. /\ Settled(command, generation + 1) \in [Commands -> ClaudeCommands]
        /\ WorkDone(command, seen') => WorkDone(Settled(command, generation + 1), seen')
    BY <1>3, <1>5, <1>t, SettledDone
  <2>. QED
    BY <1>1, <1>4, <2>1, <2>2
<1>. QED
  BY <1>1, <1>2, <1>5, <1>6 DEF ClaudeInv, ClaudeTyped, WorkKnown

(* Giving up leaves what is on record of a command, but for its state.     *)
LEMMA StateOnly ==
  ASSUME ClaudeTyped, NEW cs, cs = [c \in Commands |-> cs[c]],
         \A c \in Commands : cs[c] = command[c] \/ \E s \in CommandStates : cs[c] = [command[c] EXCEPT !.state = s]
  PROVE  /\ cs \in [Commands -> ClaudeCommands]
         /\ \A c \in Commands : /\ cs[c].acknowledged = command[c].acknowledged
                                /\ cs[c].startedAt = command[c].startedAt /\ cs[c].completed = command[c].completed
<1>2. \A c \in Commands : command[c] \in ClaudeCommands
  BY DEF ClaudeTyped
<1>3. ASSUME NEW c \in Commands
      PROVE  /\ cs[c] \in ClaudeCommands /\ cs[c].acknowledged = command[c].acknowledged
             /\ cs[c].startedAt = command[c].startedAt /\ cs[c].completed = command[c].completed
  <2>1. CASE cs[c] = command[c]
    BY <1>2, <2>1
  <2>2. ASSUME NEW s \in CommandStates, cs[c] = [command[c] EXCEPT !.state = s]
        PROVE  /\ cs[c] \in ClaudeCommands /\ cs[c].acknowledged = command[c].acknowledged
               /\ cs[c].startedAt = command[c].startedAt /\ cs[c].completed = command[c].completed
    <3>. DEFINE r == command[c]
    <3>1. r \in ClaudeCommands
      BY <1>2
    <3>2. cs[c] = [r EXCEPT !.state = s]
      BY <2>2
    <3>. HIDE DEF r
    <3>3. cs[c] \in ClaudeCommands /\ cs[c].acknowledged = r.acknowledged
          /\ cs[c].startedAt = r.startedAt /\ cs[c].completed = r.completed
      BY <3>1, <3>2 DEF ClaudeCommands
    <3>. QED
      BY <3>3 DEF r
  <2>. QED
    BY <2>1, <2>2
<1>. QED
  BY <1>3

LEMMA ClearedTyped ==
  ASSUME ClaudeInv, command' = Cleared \/ command' = command, UNCHANGED <<seen, generation, steerCall>>
  PROVE  ClaudeTyped' /\ WorkKnown'
<1>1. /\ command' = [c \in Commands |-> command'[c]]
      /\ \A c \in Commands : command'[c] = command[c] \/ \E s \in CommandStates : command'[c] = [command[c] EXCEPT !.state = s]
  BY DEF Cleared, CommandStates, ClaudeInv, ClaudeTyped
<1>2. /\ command' \in [Commands -> ClaudeCommands]
      /\ \A c \in Commands : /\ command'[c].startedAt = command[c].startedAt
                             /\ command'[c].completed = command[c].completed
  BY <1>1, StateOnly DEF ClaudeInv
<1>. QED
  BY <1>2 DEF ClaudeInv, ClaudeTyped, WorkKnown, Reports

LEMMA RefusedDone ==
  ASSUME ClaudeInv, NEW c \in Commands, CommandRefused(c)
  PROVE  /\ ClaudeTyped' /\ WorkKnown'
         /\ ~claudeDone /\ ~(claudeDone' /\ claudeEnd' = "failure") => WorkDone(command', seen')
         /\ \A d \in Commands : command[d].acknowledged => command'[d].acknowledged
<1>. UNCHANGED <<seen, generation, steerCall>>
  BY DEF CommandRefused
<1>t. command \in [Commands -> ClaudeCommands]
  BY DEF ClaudeInv, ClaudeTyped
<1>1. CASE command[c].acknowledged
  <2>1. claudeDone' /\ claudeEnd' = "failure" /\ command' = Cleared
    BY <1>1 DEF CommandRefused, Ends
  <2>2. \A d \in Commands : command[d].acknowledged => command'[d].acknowledged
    BY <1>t, <2>1 DEF Cleared, ClaudeCommands
  <2>. QED
    BY <2>1, <2>2, ClearedTyped
<1>2. CASE ~command[c].acknowledged
  <2>1. command' = [command EXCEPT ![c].state = "gone"]
    BY <1>2 DEF CommandRefused
  <2>2. /\ command' = [d \in Commands |-> command'[d]] /\ command'[c] = [command[c] EXCEPT !.state = "gone"]
        /\ \A d \in Commands \ {c} : command'[d] = command[d]
    BY <1>t, <2>1
  <2>3. \A d \in Commands : command'[d] = command[d] \/ \E s \in CommandStates : command'[d] = [command[d] EXCEPT !.state = s]
    BY <2>2 DEF CommandStates
  <2>4. /\ command' \in [Commands -> ClaudeCommands]
        /\ \A d \in Commands : /\ command'[d].acknowledged = command[d].acknowledged
                               /\ command'[d].startedAt = command[d].startedAt
                               /\ command'[d].completed = command[d].completed
    BY <2>2, <2>3, StateOnly DEF ClaudeInv
  <2>5. ClaudeTyped' /\ WorkKnown'
    BY <2>4 DEF ClaudeInv, ClaudeTyped, WorkKnown, Reports
  <2>6. ~claudeDone => WorkDone(command', seen')
    BY <1>2, <2>2, <2>4 DEF ClaudeInv, WorkDone
  <2>. QED
    BY <2>4, <2>5, <2>6
<1>. QED
  BY <1>1, <1>2

LEMMA ClaudeStepKeeps == ClaudeInv /\ [ClaudeNext]_claudeVars => ClaudeInv'
<1>. SUFFICES ASSUME ClaudeInv, [ClaudeNext]_claudeVars PROVE ClaudeInv'
  OBVIOUS
<1>1. ASSUME UNCHANGED <<command, generation, seen>>, steerCall' \in Commands \cup {"none"}, claudeDone => claudeDone'
      PROVE  ClaudeInv'
  BY <1>1 DEF ClaudeInv, ClaudeTyped, WorkKnown, WorkDone
<1>t. steerCall \in Commands \cup {"none"}
  BY DEF ClaudeInv, ClaudeTyped
<1>2. CASE Initialized \/ SessionKnown \/ Interaction \/ ResultUnanswered \/ UNCHANGED claudeVars
  BY <1>1, <1>2, <1>t DEF Initialized, SessionKnown, Interaction, ResultUnanswered, Ends, claudeVars
<1>3. ASSUME NEW b \in BackgroundTasks, TaskStarted(b) \/ TaskEnded(b) PROVE ClaudeInv'
  BY <1>1, <1>3, <1>t DEF TaskStarted, TaskEnded
<1>4. ASSUME NEW c \in Commands, SteerBegins(c) PROVE ClaudeInv'
  BY <1>1, <1>4 DEF SteerBegins
<1>5. CASE PromptLifecycle
  <2>1. UNCHANGED <<generation, steerCall, seen>>
    BY <1>5 DEF PromptLifecycle
  <2>2. \/ UNCHANGED <<claudeDone, command>>
        \/ claudeDone' = TRUE /\ command' = Cleared
    BY <1>5 DEF PromptLifecycle, GoesOn, Ends
  <2>. QED
    BY <1>1, <1>t, <2>1, <2>2, ClearedTyped DEF ClaudeInv
<1>6. CASE Dispose
  BY <1>6, ClearedTyped DEF Dispose, ClaudeInv
<1>7. CASE SteerWrites
  <2>1. steerCall' = "none" /\ UNCHANGED <<generation, seen, claudeDone>> /\ steerCall \in Commands
    BY <1>7, <1>t DEF SteerWrites
  <2>2. CASE UNCHANGED command
    BY <1>1, <2>1, <2>2
  <2>3. CASE command' = [command EXCEPT ![steerCall].state = "kept"]
    <3>1. command \in [Commands -> ClaudeCommands]
      BY DEF ClaudeInv, ClaudeTyped
    <3>2. /\ command' = [d \in Commands |-> command'[d]]
          /\ \A d \in Commands : command'[d] = command[d] \/ command'[d] = [command[d] EXCEPT !.state = "kept"]
      BY <2>1, <2>3, <3>1
    <3>3. \A d \in Commands : command'[d] = command[d] \/ \E s \in CommandStates : command'[d] = [command[d] EXCEPT !.state = s]
      BY <3>2 DEF CommandStates
    <3>4. /\ command' \in [Commands -> ClaudeCommands]
          /\ \A d \in Commands : /\ command'[d].acknowledged = command[d].acknowledged
                                 /\ command'[d].startedAt = command[d].startedAt
                                 /\ command'[d].completed = command[d].completed
      BY <3>2, <3>3, StateOnly DEF ClaudeInv
    <3>5. \A d \in Commands : command'[d].state # "kept" => command'[d] = command[d]
      <4>1. \A r \in ClaudeCommands : [r EXCEPT !.state = "kept"].state = "kept"
        BY DEF ClaudeCommands
      <4>. QED
        BY <3>1, <3>2, <4>1
    <3>6. ClaudeTyped' /\ WorkKnown'
      BY <2>1, <3>4 DEF ClaudeInv, ClaudeTyped, WorkKnown, Reports
    <3>7. ~claudeDone' => WorkDone(command', seen')
      BY <2>1, <3>5 DEF ClaudeInv, WorkDone
    <3>. QED
      BY <3>6, <3>7 DEF ClaudeInv, WorkDone
  <2>. QED
    BY <1>7, <2>2, <2>3 DEF SteerWrites
<1>8. ASSUME NEW c \in Commands, CommandRefused(c) PROVE ClaudeInv'
  <2>1. ~claudeDone' => ~claudeDone
    BY <1>8 DEF CommandRefused, Ends, GoesOn
  <2>. QED
    BY <1>8, <2>1, RefusedDone DEF ClaudeInv, WorkDone
<1>9. ASSUME NEW c \in Commands, NEW state \in {"queued", "started", "completed"}, CommandReported(c, state)
      PROVE  ClaudeInv'
  <2>1. ~claudeDone' => ~claudeDone
    BY <1>9 DEF CommandReported, Ends, GoesOn
  <2>. QED
    BY <1>9, <2>1, ReportDone DEF ClaudeInv, WorkDone
<1>10. ASSUME NEW success \in BOOLEAN, ResultArrives(success) PROVE ClaudeInv'
  <2>1. ~claudeDone' => ~claudeDone
    BY <1>10 DEF ResultArrives, Ends, GoesOn
  <2>. QED
    BY <1>10, <2>1, ResultDone DEF ClaudeInv, WorkDone
<1>. QED
  BY <1>2, <1>3, <1>4, <1>5, <1>6, <1>7, <1>8, <1>9, <1>10 DEF ClaudeNext

(* EndsWithWorkDone, for any number of commands and of results.            *)
THEOREM EndsWithWorkDoneHolds == ClaudeSpec => EndsWithWorkDone
<1>. DEFINE W == claudeEnd' = "success" /\ claudeEnd # "success" /\ ~claudeDone
<1>. DEFINE P == /\ liveTasks' = {}
                 /\ \A c \in Commands : command[c].acknowledged \/ command'[c].acknowledged => Answered(c)'
<1>1. ASSUME WorkDone(command', seen'), Kept(command') = {}, liveTasks' = {},
             \A d \in Commands : command[d].acknowledged => command'[d].acknowledged
      PROVE  P
  BY <1>1 DEF WorkDone, Kept, Answered
<1>2. ASSUME ClaudeInv, ClaudeNext, W PROVE P
  <2>1. claudeEnd' # claudeEnd /\ claudeEnd' # "failure" /\ ~claudeDone
    BY <1>2
  <2>2. ASSUME NEW c \in Commands, CommandRefused(c) PROVE P
    <3>1. command' = [command EXCEPT ![c].state = "gone"] /\ ReturnsLastSuccess(command')
      BY <2>1, <2>2 DEF CommandRefused, Ends, GoesOn
    <3>2. Kept(command') = {} /\ liveTasks' = {}
      BY <2>2, <3>1 DEF CommandRefused, ReturnsLastSuccess
    <3>. QED
      BY <1>1, <1>2, <2>1, <2>2, <3>2, RefusedDone
  <2>3. ASSUME NEW c \in Commands, NEW state \in {"queued", "started", "completed"}, CommandReported(c, state) PROVE P
    <3>1. ReturnsLastSuccess(command')
      BY <2>1, <2>3 DEF CommandReported, GoesOn
    <3>2. Kept(command') = {} /\ liveTasks' = {}
      BY <2>3, <3>1 DEF CommandReported, ReturnsLastSuccess
    <3>. QED
      BY <1>1, <1>2, <2>1, <2>3, <3>2, ReportDone
  <2>4. ASSUME NEW success \in BOOLEAN, ResultArrives(success) PROVE P
    <3>1. Kept(command') = {} /\ liveTasks' = {}
      BY <2>1, <2>4 DEF ResultArrives, Ends, GoesOn
    <3>. QED
      BY <1>1, <1>2, <2>1, <2>4, <3>1, ResultDone
  <2>5. ~(\/ Initialized \/ SessionKnown \/ PromptLifecycle \/ Interaction \/ SteerWrites \/ ResultUnanswered \/ Dispose)
    BY <2>1 DEF Initialized, SessionKnown, PromptLifecycle, Interaction, SteerWrites, ResultUnanswered, Dispose,
                Ends, GoesOn
  <2>6. /\ \A c \in Commands : ~SteerBegins(c)
        /\ \A b \in BackgroundTasks : ~TaskStarted(b) /\ ~TaskEnded(b)
    BY <2>1 DEF SteerBegins, TaskStarted, TaskEnded
  <2>. QED
    BY <1>2, <2>2, <2>3, <2>4, <2>5, <2>6 DEF ClaudeNext
<1>3. ClaudeInv /\ [ClaudeNext]_claudeVars => [W => P]_claudeVars
  BY <1>2
<1>. QED
  BY <1>3, InitClaude, ClaudeStepKeeps, PTL DEF ClaudeSpec, EndsWithWorkDone

----------------------------------------------------------------------------
(* ProcessTree: a kill is complete                                         *)

(* A descendant without a parent is owned, or was lost.                    *)
OrphansKnown == \A p \in Pids : proc[p].ours /\ proc[p].parent = 0 => Current(p) \/ proc[p].lost

(* A walk to kill that has not failed has every process it owns still      *)
(* before it, or is at it and has not listed its children, or has stopped  *)
(* it and owns its children, but for the lost and those it has in hand;    *)
(* or it has passed by another process of the same number.                 *)
StillListed(q, c) == /\ walk = "kill" /\ parent = q /\ step = "adopt"
                     /\ \/ c \in children
                        \/ candidate # NoCandidate /\ candidate.pid = c /\ candidate.start = proc[c].start
ChildrenOwned(q) ==
  \A c \in Pids : Alive(c) /\ proc[c].parent = q => Current(c) \/ proc[c].lost \/ StillListed(q, c)
IsAt(q, what) == walk = "kill" /\ parent = q /\ step = what
Handled(q) == \/ IsAt(q, "look") \/ IsAt(q, "send")
              \/ Frozen(q) /\ (IsAt(q, "list") \/ ChildrenOwned(q))
CoveredOne(q) == /\ visited[q] = 0 => walk = "kill" /\ q \in queue
                 /\ visited[q] = identity[q] => Handled(q)
Covered ==
  walk \in {"kill", "signal"} /\ ~failed => \A q \in Pids : Current(q) => CoveredOne(q)

KillInv == TreeInv /\ OrphansKnown /\ Covered

LEMMA InitKill == TreeInit => KillInv
<1>. SUFFICES ASSUME TreeInit PROVE KillInv
  OBVIOUS
<1>1. TreeInv
  BY InitTree
<1>2. Covered
  BY DEF TreeInit, Covered
<1>3. OrphansKnown
  BY TreeAssumption DEF TreeInit, OrphansKnown, Current, Alive, NoProcess
<1>. QED
  BY <1>1, <1>2, <1>3 DEF KillInv

LEMMA ForkKills ==
  ASSUME KillInv, NEW p \in Pids \cup {0}, NEW c \in Pids, Fork(p, c) PROVE KillInv'
<1>. USE TreeAssumption DEF KillInv
<1>1. /\ TreeInv' /\ UNCHANGED <<identity, walk, queue, parent, step, visited, children, candidate, failed, spared>>
      /\ ~Alive(c) /\ ~Current(c)' /\ proc'[c].parent = p /\ (p # 0 => p # c /\ Alive(p) /\ proc[p].stop # "yes")
      /\ p = 0 => ~proc'[c].ours
      /\ p # 0 /\ proc[p].ours /\ Slips(p) => proc'[c].lost
      /\ \A q \in Pids \ {c} : proc'[q] = proc[q] /\ (Alive(q)' <=> Alive(q)) /\ (Current(q)' <=> Current(q))
  BY ForkKeeps
<1>2. OrphansKnown'
  BY <1>1 DEF OrphansKnown
<1>3. ASSUME walk \in {"kill", "signal"}, ~failed, NEW q \in Pids \ {c}, Current(q), visited[q] = identity[q]
      PROVE  Handled(q)'
  <2>1. Handled(q)
    BY <1>3 DEF Covered, CoveredOne
  <2>2. CASE IsAt(q, "look") \/ IsAt(q, "send") \/ (Frozen(q) /\ IsAt(q, "list"))
    BY <1>1, <2>2 DEF Handled, IsAt, Frozen
  <2>3. CASE Frozen(q) /\ ChildrenOwned(q) /\ ~IsAt(q, "look") /\ ~IsAt(q, "send") /\ ~IsAt(q, "list")
    <3>1. ASSUME NEW d \in Pids \ {c}, Alive(d)', proc'[d].parent = q
          PROVE  Current(d)' \/ proc'[d].lost \/ StillListed(q, d)'
      BY <1>1, <2>3, <3>1 DEF ChildrenOwned, StillListed
    <3>2. ASSUME p = q PROVE proc'[c].lost
      <4>1. proc[p].ours /\ Alive(p) /\ identity[p] # 0
        BY <1>3, <3>2, RecordFacts DEF TreeInv, Clocked, TreeTypeOK, Descent, OwnedAreOurs, Current, Alive
      <4>2. proc[p].stop = "sent"
        <5>1. proc[p] \in Processes
          BY <4>1, <3>2 DEF TreeInv, Clocked, TreeTypeOK, Alive
        <5>. QED
          BY <1>1, <2>3, <3>2, <5>1 DEF Frozen, Processes
      <4>3. walk = "kill" /\ parent = p => step = "adopt"
        BY <2>3, <3>2 DEF IsAt, TreeInv, Clocked, TreeTypeOK
      <4>. QED
        BY <1>1, <1>3, <3>2, <4>1, <4>2, <4>3 DEF Slips, Listed
    <3>3. ChildrenOwned(q)'
      BY <1>1, <3>1, <3>2 DEF ChildrenOwned
    <3>. QED
      BY <1>1, <2>3, <3>3 DEF Handled, Frozen
  <2>. QED
    BY <2>1, <2>2, <2>3 DEF Handled
<1>4. Covered'
  BY <1>1, <1>3 DEF Covered, CoveredOne
<1>. QED
  BY <1>1, <1>2, <1>4

LEMMA StopKills ==
  ASSUME KillInv, (\E p \in Pids : Halts(p)) \/ SendsStop PROVE KillInv'
<1>. USE DEF KillInv
<1>1. /\ TreeInv' /\ UNCHANGED <<identity, walk, queue, visited, children, candidate, failed, spared, parent>>
      /\ \A p \in Pids : /\ (Alive(p)' <=> Alive(p)) /\ (Current(p)' <=> Current(p))
                         /\ proc'[p].parent = proc[p].parent /\ proc'[p].lost = proc[p].lost
                         /\ RunsOn(p) /\ (Frozen(p) => Frozen(p)')
  BY StopKeeps
<1>2. OrphansKnown'
  BY <1>1 DEF OrphansKnown, RunsOn
<1>3. step' = step \/ (SendsStop /\ step = "send" /\ step' = "list" /\ walk = "kill" /\ parent \in Pids)
  BY DEF Halts, SendsStop, walkVars, AtParent, TreeInv, Clocked, TreeTypeOK
<1>4. ASSUME NEW q \in Pids, ChildrenOwned(q) PROVE ChildrenOwned(q)'
  BY <1>1, <1>3, <1>4 DEF ChildrenOwned, StillListed, RunsOn
<1>5. ASSUME NEW q \in Pids, Handled(q), Current(q) PROVE Handled(q)'
  <2>1. CASE step' = step
    BY <1>1, <1>4, <1>5, <2>1 DEF Handled, IsAt
  <2>2. CASE SendsStop /\ step = "send" /\ step' = "list" /\ walk = "kill" /\ q = parent
    <3>1. Alive(parent) /\ proc[parent] \in Processes
      BY <1>5, <2>2 DEF Current, TreeInv, Clocked, TreeTypeOK, Alive
    <3>2. Frozen(parent)'
      BY <2>2, <3>1 DEF SendsStop, Frozen, Processes, TreeInv, Clocked, TreeTypeOK
    <3>. QED
      BY <1>1, <2>2, <3>2 DEF Handled, IsAt, Frozen
  <2>3. CASE step = "send" /\ step' = "list" /\ q # parent
    BY <1>1, <1>4, <1>5, <2>3 DEF Handled, IsAt
  <2>. QED
    BY <1>3, <2>1, <2>2, <2>3
<1>6. Covered'
  BY <1>1, <1>5 DEF Covered, CoveredOne
<1>. QED
  BY <1>1, <1>2, <1>6

(* When the inspection has not failed, the children of the one that is     *)
(* killed are known.                                                       *)
LEMMA EndKills ==
  ASSUME KillInv, NEW e \in Pids, NEW unseen, EndsNow(e, unseen),
         unseen \/ (walk = "signal" /\ ~failed /\ Current(e) /\ visited[e] \in {0, identity[e]})
  PROVE  KillInv'
<1>. USE TreeAssumption DEF KillInv
<1>1. /\ TreeInv' /\ ~Alive(e)' /\ ~Current(e)' /\ ~proc'[e].ours
      /\ \A p \in Pids \ {e} :
              /\ (Alive(p)' <=> Alive(p)) /\ (Current(p)' <=> Current(p))
              /\ RunsOn(p) /\ (Frozen(p) => Frozen(p)')
              /\ \/ proc'[p] = proc[p] /\ (Alive(p) => proc[p].parent # e)
                 \/ /\ Alive(p) /\ proc[p].parent = e /\ proc'[p].parent = 0
                    /\ proc[p].lost \/ (unseen /\ proc[p].ours /\ ~Current(p)) => proc'[p].lost
  BY EndKeeps
<1>2. /\ UNCHANGED <<identity, walk, queue, visited, children, candidate, failed, spared>>
      /\ UNCHANGED <<parent, step>> \/ walk = "signal"
  BY DEF EndsNow
<1>3. OrphansKnown'
  <2>. SUFFICES ASSUME NEW p \in Pids, proc'[p].ours, proc'[p].parent = 0 PROVE Current(p)' \/ proc'[p].lost
    BY DEF OrphansKnown
  <2>1. p # e /\ proc[p].ours
    BY <1>1 DEF RunsOn
  <2>2. CASE proc'[p] = proc[p]
    BY <1>1, <2>1, <2>2 DEF OrphansKnown
  <2>3. CASE Alive(p) /\ proc[p].parent = e /\ (proc[p].lost \/ (unseen /\ proc[p].ours /\ ~Current(p)) => proc'[p].lost)
    <3>1. CASE unseen
      BY <1>1, <2>1, <2>3, <3>1
    <3>2. CASE walk = "signal" /\ ~failed /\ Current(e) /\ visited[e] \in {0, identity[e]}
      <4>1. ChildrenOwned(e)
        BY <3>2 DEF Covered, CoveredOne, Handled, IsAt
      <4>. QED
        BY <1>1, <2>1, <2>3, <3>2, <4>1 DEF ChildrenOwned, StillListed
    <3>. QED
      BY <3>1, <3>2
  <2>. QED
    BY <1>1, <2>1, <2>2, <2>3
<1>4. ASSUME NEW q \in Pids, ChildrenOwned(q) PROVE ChildrenOwned(q)'
  <2>. SUFFICES ASSUME NEW c \in Pids, Alive(c)', proc'[c].parent = q
                PROVE  Current(c)' \/ proc'[c].lost \/ StillListed(q, c)'
    BY DEF ChildrenOwned
  <2>1. c # e /\ q # 0 /\ Alive(c) /\ proc'[c] = proc[c]
    BY <1>1
  <2>. QED
    BY <1>1, <1>2, <1>4, <2>1 DEF ChildrenOwned, StillListed
<1>5. ASSUME NEW q \in Pids \ {e}, Handled(q) PROVE Handled(q)'
  BY <1>1, <1>2, <1>4, <1>5 DEF Handled, IsAt
<1>6. Covered'
  BY <1>1, <1>2, <1>5 DEF Covered, CoveredOne
<1>. QED
  BY <1>1, <1>3, <1>6

LEMMA AdoptKills ==
  ASSUME KillInv, NEW c \in Pids, Adopt(c) PROVE KillInv'
<1>. USE TreeAssumption DEF KillInv
<1>1. /\ TreeInv' /\ UNCHANGED <<proc, walk, parent, step, visited, spared>> /\ candidate' = NoCandidate
      /\ walk # "signal" /\ candidate # NoCandidate /\ step = "adopt" /\ candidate.pid = c
      /\ \A p \in Pids \ {c} : (Current(p)' <=> Current(p)) /\ identity'[p] = identity[p]
      /\ Current(c) => Current(c)'
      /\ Current(c)' => Current(c) \/ (c \in queue' /\ visited[c] # identity'[c])
      /\ ~failed' => /\ ~failed /\ UNCHANGED children /\ queue \subseteq queue'
                     /\ Current(parent) /\ Alive(c) /\ proc[c].start = candidate.start => Current(c)'
  BY AdoptKeeps
<1>2. \A p \in Pids : (Alive(p)' <=> Alive(p)) /\ (Frozen(p)' <=> Frozen(p)) /\ (Current(p) => Current(p)')
  BY <1>1 DEF Alive, Frozen
<1>3. OrphansKnown'
  BY <1>1, <1>2 DEF OrphansKnown
<1>4. Covered'
  <2>. SUFFICES ASSUME walk = "kill", ~failed', NEW q \in Pids, Current(q)' PROVE CoveredOne(q)'
    BY <1>1 DEF Covered
  <2>1. CASE ~Current(q)
    BY <1>1, <2>1 DEF CoveredOne
  <2>2. CASE Current(q)
    <3>1. CoveredOne(q) /\ identity'[q] = identity[q]
      BY <1>1, <1>2, <2>2 DEF Covered, Current
    <3>2. ASSUME ChildrenOwned(q) PROVE ChildrenOwned(q)'
      <4>. SUFFICES ASSUME NEW d \in Pids, Alive(d), proc[d].parent = q, ~Current(d), StillListed(q, d)
                    PROVE  Current(d)' \/ StillListed(q, d)'
        BY <1>1, <1>2, <3>2 DEF ChildrenOwned
      <4>1. CASE d \in children
        BY <1>1, <4>1 DEF StillListed
      <4>2. CASE d = c /\ candidate.start = proc[c].start
        BY <1>1, <2>2, <4>2 DEF StillListed
      <4>. QED
        BY <1>1, <4>1, <4>2 DEF StillListed
    <3>3. visited[q] = identity[q] => Handled(q)'
      BY <1>1, <1>2, <3>1, <3>2 DEF CoveredOne, Handled, IsAt
    <3>. QED
      BY <1>1, <3>1, <3>3 DEF CoveredOne
  <2>. QED
    BY <2>1, <2>2
<1>. QED
  BY <1>1, <1>3, <1>4

LEMMA QuietKills ==
  ASSUME KillInv, QuietNext PROVE KillInv'
<1>. USE TreeAssumption DEF KillInv
<1>1. TreeInv' /\ UNCHANGED <<proc, identity>>
  BY QuietKeeps, QuietTypes DEF TreeInv, Clocked
<1>2. \A p \in Pids : (Alive(p)' <=> Alive(p)) /\ (Frozen(p)' <=> Frozen(p)) /\ (Current(p)' <=> Current(p))
  BY <1>1 DEF Alive, Frozen, Current
<1>3. OrphansKnown'
  BY <1>1, <1>2 DEF OrphansKnown
<1>. SUFFICES ASSUME walk' \in {"kill", "signal"}, ~failed' PROVE \A q \in Pids : Current(q) => CoveredOne(q)'
  BY <1>1, <1>2, <1>3 DEF Covered
<1>4. parent \in Pids \cup {0} /\ identity \in [Pids -> 0..JiffyLimit] /\ visited \in [Pids -> 0..JiffyLimit]
      /\ queue \in SUBSET Pids
  BY DEF TreeInv, Clocked, TreeTypeOK
<1>5. \A q \in Pids : Current(q) => identity[q] # 0
  BY RecordFacts DEF Current, Alive, TreeInv, Clocked, TreeTypeOK
<1>6. ASSUME walk' = walk \/ (walk = "kill" /\ walk' = "signal" /\ parent = 0 /\ queue = {}), failed' = failed
      PROVE  \A q \in Pids : Current(q) => CoveredOne(q) /\ q # 0
  BY <1>6 DEF Covered
<1>7. ASSUME NEW p \in Pids, Visit(p) PROVE \A q \in Pids : Current(q) => CoveredOne(q)'
  <2>1. UNCHANGED <<walk, failed, children, candidate>> /\ parent = 0 /\ queue' = queue \ {p} /\ walk = "kill"
    BY <1>7 DEF Visit, Walking
  <2>2. SUFFICES ASSUME NEW q \in Pids, Current(q) PROVE CoveredOne(q)'
    OBVIOUS
  <2>3. CoveredOne(q)
    BY <1>6, <2>1, <2>2
  <2>4. CASE q = p /\ visited[p] = 0
    BY <1>1, <1>4, <1>5, <1>7, <2>1, <2>2, <2>4 DEF Visit, CoveredOne, Handled, IsAt
  <2>5. CASE ~(q = p /\ visited[p] = 0)
    <3>1. visited'[q] = visited[q]
      BY <1>4, <1>7, <2>5 DEF Visit
    <3>2. Handled(q) => Handled(q)'
      BY <1>1, <1>2, <2>1 DEF Handled, IsAt, ChildrenOwned, StillListed
    <3>. QED
      BY <1>1, <2>1, <2>3, <2>5, <3>1, <3>2 DEF CoveredOne
  <2>. QED
    BY <2>4, <2>5
<1>8. ASSUME NEW c \in Pids, LooksAtChild(c) PROVE \A q \in Pids : Current(q) => CoveredOne(q)'
  <2>1. /\ UNCHANGED <<walk, failed, queue, parent, step, visited>> /\ children' = children \ {c} /\ candidate = NoCandidate
        /\ candidate' = IF Alive(c) /\ proc[c].parent = parent
                  THEN [pid |-> c, start |-> proc[c].start] ELSE NoCandidate
        /\ step = "adopt"
    BY <1>8 DEF LooksAtChild, AtParent
  <2>2. [pid |-> c, start |-> proc[c].start] # NoCandidate
    BY DEF NoCandidate
  <2>3. SUFFICES ASSUME NEW q \in Pids, Current(q) PROVE CoveredOne(q)'
    OBVIOUS
  <2>4. CoveredOne(q)
    BY <1>6, <2>1, <2>3
  <2>5. ChildrenOwned(q) => ChildrenOwned(q)'
    BY <1>1, <1>2, <2>1, <2>2 DEF ChildrenOwned, StillListed
  <2>. QED
    BY <1>1, <1>2, <2>1, <2>4, <2>5 DEF CoveredOne, Handled, IsAt
<1>9. ASSUME NEW p \in Pids, Turns(p) PROVE \A q \in Pids : Current(q) => CoveredOne(q)'
  BY <1>1, <1>2, <1>6, <1>9 DEF Turns, CoveredOne, Handled, IsAt, ChildrenOwned, StillListed
<1>10. CASE LooksOnce
  <2>1. UNCHANGED <<walk, failed, queue, children, candidate, visited>> /\ step = "look"
        /\ (Current(parent) => parent' = parent /\ step' = "send")
        /\ (walk = "kill" => parent' = parent)
    BY <1>10 DEF LooksOnce, AtParent, StillThere
  <2>2. ASSUME NEW q \in Pids, Current(q), Handled(q) PROVE Handled(q)'
    BY <1>1, <1>2, <2>1, <2>2 DEF Handled, IsAt, ChildrenOwned, StillListed
  <2>. QED
    BY <1>1, <1>6, <2>1, <2>2 DEF CoveredOne
<1>11. CASE ListsChildren
  <2>1. UNCHANGED <<walk, failed, queue, candidate, visited, parent>> /\ step = "list" /\ step' = "adopt"
        /\ children' = {c \in Pids : Alive(c) /\ proc[c].parent = parent}
    BY <1>11 DEF ListsChildren, AtParent
  <2>2. ASSUME NEW q \in Pids, Handled(q) PROVE Handled(q)'
    <3>1. walk = walk'
      BY <2>1
    <3>2. CASE parent = q /\ walk = "kill"
      BY <1>1, <1>2, <2>1, <2>2, <3>2 DEF Handled, IsAt, ChildrenOwned, StillListed
    <3>3. CASE ~(parent = q /\ walk = "kill")
      BY <1>1, <1>2, <2>1, <2>2, <3>3 DEF Handled, IsAt, ChildrenOwned, StillListed
    <3>. QED
      BY <3>2, <3>3
  <2>. QED
    BY <1>1, <1>6, <2>1, <2>2 DEF CoveredOne
<1>12. CASE Visited
  <2>1. UNCHANGED <<walk, failed, queue, candidate, visited, children>> /\ step = "adopt"
        /\ children = {} /\ candidate = NoCandidate
    BY <1>12 DEF Visited, AtParent
  <2>2. ASSUME NEW q \in Pids, Handled(q) PROVE Handled(q)'
    BY <1>1, <1>2, <2>1, <2>2 DEF Handled, IsAt, ChildrenOwned, StillListed
  <2>. QED
    BY <1>1, <1>6, <2>1, <2>2 DEF CoveredOne
<1>13. CASE WalkEnds
  <2>1. /\ walk = "kill" /\ walk' = "signal" /\ parent = 0 /\ queue = {} /\ failed' = failed /\ visited' = visited
    BY <1>13 DEF WalkEnds, GoesOnToKill, Returns
  <2>2. ASSUME NEW q \in Pids, Current(q) PROVE CoveredOne(q)'
    <3>1. CoveredOne(q) /\ q # 0
      BY <1>6, <2>1, <2>2
    <3>2. visited[q] # 0
      BY <2>1, <3>1 DEF CoveredOne
    <3>. QED
      BY <1>1, <1>2, <2>1, <3>1, <3>2 DEF CoveredOne, Handled, IsAt, ChildrenOwned, StillListed
  <2>. QED
    BY <2>2
<1>14. CASE KillFails
  <2>1. UNCHANGED <<walk, failed, queue, visited>> /\ walk = "signal"
    BY <1>14 DEF KillFails
  <2>. QED
    BY <1>1, <1>2, <1>6, <2>1 DEF CoveredOne, Handled, IsAt, ChildrenOwned, StillListed
<1>15. ~KillEnds /\ ~StopFails /\ ~ReadFails /\ \A p \in Pids : ~VisitFails(p)
  BY DEF KillEnds, Returns, StopFails, ReadFails, VisitFails
<1>. QED
  BY <1>7, <1>8, <1>9, <1>10, <1>11, <1>12, <1>13, <1>14, <1>15 DEF QuietNext

LEMMA KillStep == KillInv /\ [TreeNext]_treeVars => KillInv'
<1>. SUFFICES ASSUME KillInv, [TreeNext]_treeVars PROVE KillInv'
  OBVIOUS
<1>. USE DEF KillInv
<1>1. CASE \E p \in Pids \cup {0}, c \in Pids : Fork(p, c)
  BY <1>1, ForkKills
<1>2. ASSUME NEW p \in Pids, Exit(p) PROVE KillInv'
  BY <1>2, EndKills DEF Exit, EndsNow, walkVars
<1>3. CASE SendsKill
  <2>1. walk = "signal" /\ failed \in BOOLEAN
    BY <1>3 DEF SendsKill, TreeInv, Clocked, TreeTypeOK
  <2>2. CASE \E e \in Pids : e = parent /\ EndsNow(e, failed \/ ~Current(e) \/ visited[e] \notin {0, identity[e]})
    BY <2>1, <2>2, EndKills
  <2>3. CASE TreeInv' /\ UNCHANGED <<proc, identity, walk, queue, visited, failed>>
    BY <2>1, <2>3 DEF OrphansKnown, Covered, CoveredOne, Handled, IsAt, ChildrenOwned, StillListed, Current, Alive, Frozen
  <2>. QED
    BY <1>3, <2>2, <2>3, KilledEnds
<1>4. CASE (\E p \in Pids : Halts(p)) \/ SendsStop
  BY <1>4, StopKills
<1>5. ASSUME NEW why \in {"observe", "kill"}, Walk(why) PROVE KillInv'
  <2>1. /\ TreeInv' /\ proc' = proc /\ walk' = why
        /\ \A p \in Pids : (Current(p)' <=> Current(p)) /\ (Current(p) => p \in queue') /\ visited'[p] = 0
    BY <1>5, WalkKeeps DEF Walk, TreeInv, OnTheWay, Positions
  <2>2. \A p \in Pids : Current(p)' => identity'[p] # 0
    BY <2>1, RecordFacts DEF Current, Alive, TreeInv, Clocked, TreeTypeOK
  <2>. QED
    BY <1>5, <2>1, <2>2 DEF OrphansKnown, Covered, CoveredOne
<1>6. CASE \E p \in Pids : Adopt(p)
  BY <1>6, AdoptKills
<1>7. CASE QuietNext
  BY <1>7, QuietKills
<1>8. CASE UNCHANGED treeVars
  <2>1. TreeInv'
    BY <1>8, StepTree
  <2>. QED
    BY <1>8, <2>1 DEF treeVars, OrphansKnown, Covered, CoveredOne, Handled, IsAt, ChildrenOwned, StillListed, Current, Alive, Frozen
<1>. QED
  BY <1>1, <1>2, <1>3, <1>4, <1>5, <1>6, <1>7, <1>8 DEF TreeNext, QuietNext

(* KillIsComplete, for any number of processes, of forks and of exits      *)
(* between two system calls.                                               *)
THEOREM KillIsCompleteHolds == TreeSpec => KillIsComplete
<1>. DEFINE W == walk = "signal" /\ walk' = "idle" /\ ~failed /\ spared = {}
            D == \A p \in Pids : proc[p].ours => proc[p].lost \/ proc[p].parent # 0
<1>1. ASSUME KillInv, TreeNext, W PROVE D
  BY <1>1, KillEndsAll DEF KillInv, OrphansKnown
<1>2. KillInv /\ [TreeNext]_treeVars => [W => D]_treeVars
  BY <1>1
<1>. QED
  BY <1>2, InitKill, KillStep, PTL DEF TreeSpec, KillIsComplete

(* TreeTypeOK is part of TreeInv.                                          *)
LEMMA TreeWellTyped == TreeSpec => []TreeTypeOK
<1>1. TreeInv => TreeTypeOK
  BY DEF TreeInv, Clocked
<1>. QED
  BY <1>1, InitTree, StepTree, PTL DEF TreeSpec

(* InvocationTypeOK: the chunks of a child are bounded together.           *)
InvocationTyped == InvocationTypeOK /\ toWrite + inPipe <= Chunks

LEMMA FinishTyped ==
  ASSUME InvocationTyped, NEW value \in Results, Finish(value)
  PROVE  result' \in Results /\ child' \in {"running", "killed", "exited", "closed"}
         /\ pipe' \in {"flowing", "paused", "destroyed"}
  BY DEF InvocationTyped, InvocationTypeOK, Finish, Kill, Results

LEMMA InvocationWellTyped ==
  InvocationInit /\ [][InvocationNext]_invocationVars => []InvocationTypeOK
<1>1. InvocationInit => InvocationTyped
  <2>. SUFFICES ASSUME InvocationInit PROVE InvocationTyped
    OBVIOUS
  <2>1. provided \in BOOLEAN
    BY Zenon DEF InvocationInit
  <2>. QED
    BY <2>1, InvocationAssumption DEF InvocationInit, InvocationTyped, InvocationTypeOK, Results
<1>2. ASSUME InvocationTyped, [InvocationNext]_invocationVars PROVE InvocationTyped'
  <2>. USE <1>2, InvocationAssumption DEF InvocationTyped, InvocationTypeOK
  <2>1. provided' \in BOOLEAN
    <3>1. UNCHANGED provided \/ provided' = TRUE
      BY Zenon, <1>2 DEF InvocationNext, invocationVars, Write, Exits, Read, Received, Interrupted, Observe, Closes, Resolve
    <3>. QED
      BY <3>1
  <2>2. CASE Write \/ Exits \/ Read \/ Closes \/ UNCHANGED invocationVars
    BY <2>1, <2>2 DEF Write, Exits, Read, Closes, invocationVars, Results
  <2>3. CASE Received
    BY <2>1, <2>3, FinishTyped DEF Received, Resumed, Results
  <2>4. CASE Interrupted
    BY <2>1, <2>4, FinishTyped DEF Interrupted, Results
  <2>5. CASE Observe
    BY <2>1, <2>5, FinishTyped DEF Observe, Results
  <2>6. CASE Resolve
    BY <2>1, <2>6 DEF Resolve, processVars, Outcome, Results
  <2>. QED
    BY <1>2, <2>2, <2>3, <2>4, <2>5, <2>6 DEF InvocationNext
<1>3. InvocationTyped => InvocationTypeOK
  BY DEF InvocationTyped
<1>. QED
  BY <1>1, <1>2, <1>3, PTL

(* ClaudeTypeOK: a command started at a result that has been.              *)
ClaudeBounded ==
  /\ claudeStage \in {"initialize", "prompt", "session"}
  /\ lifecycle \in BOOLEAN /\ promptStarted \in BOOLEAN /\ lastSuccess \in BOOLEAN
  /\ blocked \in BOOLEAN /\ claudeDone \in BOOLEAN
  /\ liveTasks \subseteq BackgroundTasks /\ endedTasks \subseteq BackgroundTasks
  /\ claudeEnd \in {"none", "success", "failure"}
StartedWithin ==
  generation \in 0..MaxResults /\ \A c \in Commands : command[c].startedAt \in (0 - 1)..generation

LEMMA ClearedStarted ==
  ASSUME ClaudeTyped
  PROVE  \A c \in Commands : Cleared[c].startedAt = command[c].startedAt
BY DEF ClaudeTyped, Cleared, ClaudeCommands

LEMMA SettledStarted ==
  ASSUME NEW cs \in [Commands -> ClaudeCommands], NEW g
  PROVE  \A c \in Commands : Settled(cs, g)[c].startedAt = cs[c].startedAt
BY DEF Settled, ClaudeCommands

LEMMA StepStarted ==
  ASSUME ClaudeTyped, StartedWithin, [ClaudeNext]_claudeVars
  PROVE  StartedWithin'
<1>. USE ClaudeAssumption
<1>1. ASSUME UNCHANGED generation,
             \A c \in Commands : command'[c].startedAt \in {command[c].startedAt, generation}
      PROVE  StartedWithin'
  BY <1>1 DEF StartedWithin
<1>2. CASE UNCHANGED command /\ UNCHANGED generation
  BY <1>1, <1>2
<1>3. CASE UNCHANGED generation /\ command' = Cleared
  BY <1>1, <1>3, ClearedStarted
<1>4. CASE SteerWrites
  <2>1. UNCHANGED generation /\ \A c \in Commands : command'[c].startedAt = command[c].startedAt
    BY <1>4 DEF SteerWrites, ClaudeTyped, ClaudeCommands
  <2>. QED
    BY <1>1, <2>1
<1>5. ASSUME NEW c \in Commands, CommandRefused(c) PROVE StartedWithin'
  <2>1. CASE command[c].acknowledged
    BY <1>3, <1>5, <2>1 DEF CommandRefused
  <2>2. CASE ~command[c].acknowledged
    <3>1. UNCHANGED generation /\ command' = [command EXCEPT ![c].state = "gone"]
      BY <1>5, <2>2 DEF CommandRefused
    <3>2. \A d \in Commands : command'[d].startedAt = command[d].startedAt
      BY <3>1 DEF ClaudeTyped, ClaudeCommands
    <3>. QED
      BY <1>1, <3>1, <3>2
  <2>. QED
    BY <2>1, <2>2
<1>6. ASSUME NEW c \in Commands, NEW state \in {"queued", "started", "completed"}, CommandReported(c, state)
      PROVE  StartedWithin'
  <2>. DEFINE u == [command[c] EXCEPT !.acknowledged = TRUE,
                      !.startedAt = IF state = "started" /\ @ = 0 - 1 THEN generation ELSE @,
                      !.completed = @ \/ state = "completed"]
  <2>. DEFINE cs == [command EXCEPT ![c] = u]
  <2>1. UNCHANGED generation /\ command' = Settled(cs, generation)
    BY <1>6 DEF CommandReported
  <2>2. command[c] \in ClaudeCommands /\ generation \in Int
    BY DEF ClaudeTyped
  <2>3. u \in ClaudeCommands /\ u.startedAt \in {command[c].startedAt, generation}
    BY <2>2 DEF ClaudeCommands
  <2>. HIDE DEF u
  <2>4. cs \in [Commands -> ClaudeCommands] /\ \A d \in Commands : cs[d].startedAt \in {command[d].startedAt, generation}
    BY <2>3 DEF ClaudeTyped
  <2>. HIDE DEF cs
  <2>. QED
    BY <1>1, <2>1, <2>4, SettledStarted
<1>7. ASSUME NEW success \in BOOLEAN, ResultArrives(success) PROVE StartedWithin'
  <2>1. generation < MaxResults /\ generation' = generation + 1 /\ command' = Settled(command, generation + 1)
    BY <1>7 DEF ResultArrives
  <2>2. \A c \in Commands : command'[c].startedAt = command[c].startedAt
    BY <2>1, SettledStarted DEF ClaudeTyped
  <2>. QED
    BY <2>1, <2>2 DEF StartedWithin
<1>8. \/ UNCHANGED <<command, generation>> \/ (UNCHANGED generation /\ command' = Cleared) \/ SteerWrites
      \/ \E c \in Commands : CommandRefused(c) \/ \E state \in {"queued", "started", "completed"} : CommandReported(c, state)
      \/ \E success \in BOOLEAN : ResultArrives(success)
  BY DEF ClaudeNext, claudeVars, turnVars, Initialized, SessionKnown, PromptLifecycle, Interaction, ResultUnanswered, Dispose,
         SteerBegins, TaskStarted, TaskEnded
<1>. QED
  BY <1>2, <1>3, <1>4, <1>5, <1>6, <1>7, <1>8

LEMMA StepBounded ==
  ASSUME ClaudeBounded, [ClaudeNext]_claudeVars
  PROVE  ClaudeBounded'
<1>1. /\ lifecycle' = lifecycle \/ lifecycle' = TRUE
      /\ promptStarted' = promptStarted \/ promptStarted' = TRUE \/ \E b \in BOOLEAN : promptStarted' = (promptStarted \/ b)
      /\ lastSuccess' = lastSuccess \/ \E b \in BOOLEAN : lastSuccess' = (lastSuccess \/ b)
      /\ blocked' = blocked \/ blocked' = ~blocked \/ blocked' = FALSE
      /\ claudeDone' = claudeDone \/ claudeDone' = TRUE
  BY Zenon DEF ClaudeNext, claudeVars, turnVars, Initialized, SessionKnown, PromptLifecycle, Interaction, ResultUnanswered, Dispose,
         SteerBegins, TaskStarted, TaskEnded, SteerWrites, CommandRefused, CommandReported, ResultArrives, Ends, GoesOn
<1>2. /\ lifecycle' \in BOOLEAN /\ promptStarted' \in BOOLEAN /\ lastSuccess' \in BOOLEAN
      /\ blocked' \in BOOLEAN /\ claudeDone' \in BOOLEAN
  BY <1>1 DEF ClaudeBounded
<1>3. /\ liveTasks' \subseteq BackgroundTasks /\ endedTasks' \subseteq BackgroundTasks
      /\ claudeStage' \in {"initialize", "prompt", "session"} /\ claudeEnd' \in {"none", "success", "failure"}
  BY DEF ClaudeBounded, ClaudeNext, claudeVars, turnVars, Initialized, SessionKnown, PromptLifecycle, Interaction, ResultUnanswered,
         Dispose, SteerBegins, TaskStarted, TaskEnded, SteerWrites, CommandRefused, CommandReported, ResultArrives, Ends, GoesOn
<1>. QED
  BY <1>2, <1>3 DEF ClaudeBounded

LEMMA ClaudeWellTyped == ClaudeSpec => []ClaudeTypeOK
<1>1. ClaudeInit => ClaudeBounded /\ StartedWithin
  <2>. SUFFICES ASSUME ClaudeInit PROVE ClaudeBounded /\ StartedWithin
    OBVIOUS
  <2>1. /\ lifecycle \in BOOLEAN /\ promptStarted \in BOOLEAN /\ lastSuccess \in BOOLEAN
        /\ blocked \in BOOLEAN /\ claudeDone \in BOOLEAN
    BY Zenon DEF ClaudeInit
  <2>. QED
    BY <2>1, ClaudeAssumption DEF ClaudeInit, ClaudeBounded, StartedWithin, NewCommand
<1>2. ClaudeInv /\ ClaudeBounded /\ StartedWithin /\ [ClaudeNext]_claudeVars => ClaudeBounded' /\ StartedWithin'
  BY StepBounded, StepStarted DEF ClaudeInv
<1>3. ASSUME ClaudeInv, ClaudeBounded, StartedWithin PROVE ClaudeTypeOK
  <2>1. \A c \in Commands : command[c] \in ClaudeCommands /\ command[c].startedAt \in (0 - 1)..MaxResults
    BY <1>3, ClaudeAssumption DEF ClaudeInv, ClaudeTyped, StartedWithin
  <2>2. \A c \in Commands : command[c] \in [state: CommandStates, acknowledged: BOOLEAN,
                                            startedAt: (0 - 1)..MaxResults, completed: BOOLEAN]
    BY <2>1 DEF ClaudeCommands
  <2>3. command \in [Commands -> [state: CommandStates, acknowledged: BOOLEAN,
                                  startedAt: (0 - 1)..MaxResults, completed: BOOLEAN]]
    BY <1>3, <2>2 DEF ClaudeInv, ClaudeTyped
  <2>. QED
    BY <1>3, <2>3 DEF ClaudeInv, ClaudeTyped, ClaudeBounded, StartedWithin, ClaudeTypeOK
<1>. QED
  BY <1>1, <1>2, <1>3, InitClaude, ClaudeStepKeeps, PTL DEF ClaudeSpec

(***************************************************************************)
(* CliProcess                                                              *)
(***************************************************************************)
(* What stands in a sequence, as it grows and is taken from.               *)
LEMMA AppendMembers ==
  ASSUME NEW S, NEW s \in Seq(S), NEW e \in S
  PROVE  /\ Append(s, e) \in Seq(S) /\ Len(Append(s, e)) = Len(s) + 1 /\ Len(s) \in Nat
         /\ \A k \in 1..Len(s) : Append(s, e)[k] = s[k]
         /\ Append(s, e)[Len(s) + 1] = e
  BY AppendProperties, LenProperties

LEMMA TailMembers ==
  ASSUME NEW S, NEW s \in Seq(S), s # <<>>
  PROVE  /\ Tail(s) \in Seq(S) /\ Len(Tail(s)) = Len(s) - 1 /\ Len(s) \in Nat \ {0}
         /\ \A k \in 1..Len(Tail(s)) : Tail(s)[k] = s[k + 1]
         /\ Head(s) = s[1] /\ Head(s) \in S
  BY HeadTailProperties, LenProperties, EmptySeq

(* The pieces being stored are the last taken of the channels that are     *)
(* held, one of each.                                                      *)
Pieces == Channels \X Nat
HeldInLine ==
  /\ \A i \in 1..Len(line) : line[i][1] \in heldBack /\ line[i][2] = consumed[line[i][1]] /\ line[i][2] > 0
  /\ \A i, j \in 1..Len(line) : line[i][1] = line[j][1] => i = j
  /\ \A c \in heldBack : \E i \in 1..Len(line) : line[i][1] = c

(* What was stored of a channel is in order, and before what is held.      *)
KeptInOrder ==
  /\ \A i, j \in 1..Len(kept) : i < j /\ kept[i][1] = kept[j][1] => kept[i][2] < kept[j][2]
  /\ \A i \in 1..Len(kept) : kept[i][2] \in 1..consumed[kept[i][1]]
  /\ \A i \in 1..Len(kept) : kept[i][1] \in heldBack => kept[i][2] < consumed[kept[i][1]]

(* As long as nothing failed, all that was taken is stored or held.        *)
KeptOrHeld ==
  failure = "none" =>
    \A c \in Channels : \A n \in 1..consumed[c] :
      (c \in heldBack /\ n = consumed[c]) \/ \E i \in 1..Len(kept) : kept[i] = <<c, n>>

(* The end of a run.                                                       *)
CliOver ==
  /\ stopAsked => failure # "none"
  /\ cli # "running" /\ failure = "none" => offspring \subseteq {"lost"}
  /\ cli = "closed" => consumed = written /\ line = <<>> /\ heldBack = {}
  /\ cliResult # "pending" => cli = "closed" /\ cliResult = failure

CliInv == CliTypeOK /\ HeldInLine /\ KeptInOrder /\ KeptOrHeld /\ CliOver

LEMMA CliTyped ==
  ASSUME CliInv
  PROVE  /\ line \in Seq(Pieces) /\ kept \in Seq(Pieces) /\ Len(line) \in Nat /\ Len(kept) \in Nat
         /\ line = <<>> <=> Len(line) = 0
         /\ \A i \in 1..Len(line) : line[i] \in Pieces
         /\ \A i \in 1..Len(kept) : kept[i] \in Pieces
         /\ \A c \in Channels : consumed[c] \in Nat /\ written[c] \in Nat
  BY LenProperties, EmptySeq, ElementOfSeq, CliAssumption DEF CliInv, CliTypeOK, Pieces

LEMMA InitCli == CliInit => CliInv
<1>. SUFFICES ASSUME CliInit PROVE CliInv
  OBVIOUS
<1>1. line \in Seq(Channels \X Nat) /\ kept \in Seq(Channels \X Nat) /\ Len(line) = 0 /\ Len(kept) = 0
  BY EmptySeq DEF CliInit
<1>2. CliTypeOK
  <2>1. 0 \in 0..PiecesWritten
    BY CliAssumption
  <2>2. written \in [Channels -> 0..PiecesWritten] /\ consumed \in [Channels -> 0..PiecesWritten]
    BY <2>1 DEF CliInit
  <2>3. failure \in Reasons /\ stopAsked \in BOOLEAN /\ cliResult \in Reasons \cup {"pending"}
    BY DEF CliInit, Reasons
  <2>4. cli \in {"running", "exited", "closed"} /\ offspring \subseteq {"group", "tree", "lost"} /\ heldBack \subseteq Channels
    BY DEF CliInit
  <2>. QED
    BY <1>1, <2>2, <2>3, <2>4 DEF CliTypeOK
<1>3. HeldInLine /\ KeptInOrder
  BY <1>1 DEF CliInit, HeldInLine, KeptInOrder
<1>4. KeptOrHeld /\ CliOver
  BY <1>1 DEF CliInit, KeptOrHeld, CliOver
<1>. QED
  BY <1>2, <1>3, <1>4 DEF CliInv

(* Killing what a run started leaves nothing of it, or the run has failed; *)
(* a run that has failed stays so.                                         *)
LEMMA Kills ==
  ASSUME CliInv, NEW reason \in Reasons, KillGroup(reason)
  PROVE  /\ failure' \in Reasons /\ offspring' \subseteq {"group", "tree", "lost"}
         /\ failure' = "none" => offspring' \subseteq {"lost"} /\ reason = "none"
  BY DEF CliInv, CliTypeOK, KillGroup, Reasons

LEMMA FirstReason == ASSUME CliInv, NEW reason \in Reasons \ {"none"} PROVE First(reason) \in Reasons \ {"none"}
  BY DEF CliInv, CliTypeOK, First

(* A step that leaves the pieces alone.                                    *)
LEMMA PiecesStay ==
  ASSUME CliInv, UNCHANGED <<consumed, heldBack, line, kept>>, failure' = "none" => failure = "none"
  PROVE  HeldInLine' /\ KeptInOrder' /\ KeptOrHeld'
<1>1. HeldInLine'
  BY DEF CliInv, HeldInLine
<1>2. KeptInOrder'
  BY DEF CliInv, KeptInOrder
<1>3. KeptOrHeld'
  BY DEF CliInv, KeptOrHeld
<1>. QED
  BY <1>1, <1>2, <1>3

LEMMA TakesKeeps == ASSUME CliInv, NEW c \in Channels, Takes(c) PROVE CliInv'
<1>1. /\ UNCHANGED <<cli, written, kept, stopAsked, cliResult>>
      /\ c \notin heldBack /\ consumed[c] < written[c] /\ consumed[c] \in Nat
      /\ consumed' = [consumed EXCEPT ![c] = consumed[c] + 1] /\ consumed'[c] = consumed[c] + 1
      /\ \A d \in Channels : d # c => consumed'[d] = consumed[d]
      /\ consumed' \in [Channels -> 0..PiecesWritten]
  BY CliAssumption DEF Takes, CliInv, CliTypeOK
<1>2. \A i \in 1..Len(line) : line[i][1] \in Channels /\ line[i][1] # c
  BY <1>1, CliTyped DEF CliInv, HeldInLine, Pieces
<1>3. KeptInOrder /\ KeptOrHeld /\ HeldInLine /\ CliOver /\ CliTypeOK
  BY DEF CliInv
<1>4. \A i \in 1..Len(kept) : kept[i][1] \in Channels /\ kept[i][2] \in Nat
  BY CliTyped DEF Pieces
<1>5. cli # "closed"
  BY <1>1, <1>3 DEF CliOver
<1>6. KeptInOrder' /\ \A i \in 1..Len(kept) : kept[i][1] = c => kept[i][2] < consumed'[c]
  <2>1. \A i \in 1..Len(kept) : kept[i][2] \in 1..consumed'[kept[i][1]]
    BY <1>1, <1>3, <1>4, CliTyped DEF KeptInOrder
  <2>2. \A i \in 1..Len(kept) : kept[i][1] = c => kept[i][2] < consumed'[c]
    BY <1>1, <1>3, <1>4 DEF KeptInOrder
  <2>3. heldBack' \subseteq heldBack \cup {c}
    BY DEF Takes
  <2>4. \A i \in 1..Len(kept) : kept[i][1] \in heldBack' => kept[i][2] < consumed'[kept[i][1]]
    BY <1>1, <1>3, <1>4, <2>2, <2>3 DEF KeptInOrder
  <2>. QED
    BY <1>1, <1>3, <2>1, <2>2, <2>4 DEF KeptInOrder
<1>7. ASSUME failure' # "none", failure' \in Reasons, offspring' \subseteq {"group", "tree", "lost"},
             UNCHANGED <<heldBack, line>>
      PROVE  CliInv'
  <2>1. HeldInLine'
    BY <1>1, <1>2, <1>3, <1>7 DEF HeldInLine
  <2>2. CliTypeOK'
    BY <1>1, <1>3, <1>7 DEF CliTypeOK
  <2>3. CliOver'
    BY <1>1, <1>3, <1>5, <1>7 DEF CliOver
  <2>. QED
    BY <1>6, <1>7, <2>1, <2>2, <2>3 DEF CliInv, KeptOrHeld
<1>8. CASE failure # "none" /\ UNCHANGED <<offspring, failure, heldBack, line>>
  BY <1>3, <1>7, <1>8 DEF CliTypeOK
<1>9. CASE KillGroup("output_limit_exceeded") /\ UNCHANGED <<heldBack, line>>
  <2>1. "output_limit_exceeded" \in Reasons
    BY DEF Reasons
  <2>2. failure' # "none" /\ failure' \in Reasons /\ offspring' \subseteq {"group", "tree", "lost"}
    BY <1>9, <2>1, Kills
  <2>. QED
    BY <1>7, <1>9, <2>2
<1>10. ASSUME failure = "none", heldBack' = heldBack \cup {c}, line' = Append(line, <<c, consumed[c] + 1>>),
              UNCHANGED <<offspring, failure>>
       PROVE  CliInv'
  <2>1. <<c, consumed[c] + 1>> \in Pieces
    BY <1>1 DEF Pieces
  <2>2. /\ line' \in Seq(Pieces) /\ Len(line') = Len(line) + 1 /\ Len(line) \in Nat
        /\ \A k \in 1..Len(line) : line'[k] = line[k]
        /\ line'[Len(line) + 1] = <<c, consumed[c] + 1>>
    BY <1>10, <2>1, CliTyped, AppendMembers
  <2>3. \A k \in 1..Len(line') : k \in 1..Len(line) \/ k = Len(line) + 1
    BY <2>2
  <2>4. HeldInLine'
    <3>1. \A i \in 1..Len(line') : line'[i][1] \in heldBack' /\ line'[i][2] = consumed'[line'[i][1]] /\ line'[i][2] > 0
      BY <1>1, <1>2, <1>3, <1>10, <2>2, <2>3 DEF HeldInLine
    <3>2. \A i, j \in 1..Len(line') : line'[i][1] = line'[j][1] => i = j
      BY <1>2, <1>3, <2>2, <2>3 DEF HeldInLine
    <3>3. \A d \in heldBack' : \E i \in 1..Len(line') : line'[i][1] = d
      <4>1. Len(line) + 1 \in 1..Len(line') /\ \A i \in 1..Len(line) : i \in 1..Len(line')
        BY <2>2
      <4>2. line'[Len(line) + 1][1] = c
        BY <2>2
      <4>3. \A d \in heldBack : \E i \in 1..Len(line') : line'[i][1] = d
        BY <1>3, <2>2, <4>1 DEF HeldInLine
      <4>. QED
        BY <1>10, <4>1, <4>2, <4>3
    <3>. QED
      BY <3>1, <3>2, <3>3 DEF HeldInLine
  <2>5. KeptOrHeld'
    <3>1. \A d \in Channels : \A n \in 1..consumed'[d] :
            (d \in heldBack' /\ n = consumed'[d]) \/ (d # c /\ n \in 1..consumed[d]) \/ (d = c /\ n \in 1..consumed[c])
      BY <1>1, <1>10
    <3>2. \A n \in 1..consumed[c] : \E i \in 1..Len(kept) : kept[i] = <<c, n>>
      BY <1>1, <1>3, <1>10 DEF KeptOrHeld
    <3>3. \A d \in Channels : d # c => \A n \in 1..consumed[d] :
            (d \in heldBack' /\ n = consumed'[d]) \/ \E i \in 1..Len(kept) : kept[i] = <<d, n>>
      BY <1>1, <1>3, <1>10 DEF KeptOrHeld
    <3>. QED
      BY <1>1, <3>1, <3>2, <3>3 DEF KeptOrHeld
  <2>6. CliTypeOK'
    BY <1>1, <1>3, <1>10, <2>2 DEF CliTypeOK, Pieces
  <2>7. CliOver'
    BY <1>1, <1>3, <1>5, <1>10 DEF CliOver
  <2>. QED
    BY <1>6, <2>4, <2>5, <2>6, <2>7 DEF CliInv
<1>. QED
  BY <1>8, <1>9, <1>10 DEF Takes

LEMMA StoresKeeps == ASSUME CliInv, Stores PROVE CliInv'
<1>1. UNCHANGED <<cli, written, consumed, stopAsked, cliResult>> /\ line # <<>>
  BY DEF Stores
<1>2. PICK p : p = Head(line)
  OBVIOUS
<1>3. /\ line' \in Seq(Pieces) /\ Len(line') = Len(line) - 1 /\ Len(line) \in Nat \ {0}
      /\ \A k \in 1..Len(line') : line'[k] = line[k + 1]
      /\ p = line[1] /\ p \in Pieces
  BY <1>1, <1>2, CliTyped, TailMembers DEF Stores
<1>4. PICK c \in Channels, n \in Nat : p = <<c, n>>
  BY <1>3 DEF Pieces
<1>5. heldBack' = heldBack \ {c}
  BY <1>2, <1>4 DEF Stores
<1>6. KeptInOrder /\ KeptOrHeld /\ HeldInLine /\ CliOver /\ CliTypeOK
  BY DEF CliInv
<1>7. /\ \A k \in 1..Len(line') : k + 1 \in 1..Len(line) /\ k + 1 # 1
      /\ \A k \in 1..Len(line) : k = 1 \/ (k - 1 \in 1..Len(line') /\ line'[k - 1] = line[k])
      /\ 1 \in 1..Len(line)
  BY <1>3
<1>13. line[1][1] = c /\ line[1][2] = n
  BY <1>3, <1>4
<1>8. c \in heldBack /\ n = consumed[c] /\ n > 0
  BY <1>6, <1>7, <1>13 DEF HeldInLine
<1>9. HeldInLine'
  <2>1. \A i \in 1..Len(line') : line'[i][1] # c
    <3>1. \A i \in 1..Len(line') : line'[i] = line[i + 1] /\ i + 1 \in 1..Len(line) /\ i + 1 # 1
      BY <1>3, <1>7
    <3>2. \A k \in 1..Len(line) : line[k][1] = c => k = 1
      BY <1>6, <1>7, <1>13 DEF HeldInLine
    <3>. QED
      BY <3>1, <3>2
  <2>2. \A i \in 1..Len(line') : line'[i][1] \in heldBack' /\ line'[i][2] = consumed'[line'[i][1]] /\ line'[i][2] > 0
    BY <1>1, <1>3, <1>5, <1>6, <1>7, <2>1 DEF HeldInLine
  <2>3. \A i, j \in 1..Len(line') : line'[i][1] = line'[j][1] => i = j
    <3>. SUFFICES ASSUME NEW i \in 1..Len(line'), NEW j \in 1..Len(line'), line'[i][1] = line'[j][1] PROVE i = j
      OBVIOUS
    <3>1. line[i + 1][1] = line[j + 1][1] /\ i + 1 \in 1..Len(line) /\ j + 1 \in 1..Len(line)
      BY <1>3, <1>7
    <3>2. i + 1 = j + 1
      BY <1>6, <3>1 DEF HeldInLine
    <3>. QED
      BY <3>2
  <2>4. \A d \in heldBack' : \E i \in 1..Len(line') : line'[i][1] = d
    <3>. SUFFICES ASSUME NEW d \in heldBack' PROVE \E i \in 1..Len(line') : line'[i][1] = d
      OBVIOUS
    <3>1. PICK i \in 1..Len(line) : line[i][1] = d
      BY <1>5, <1>6 DEF HeldInLine
    <3>2. i # 1
      BY <1>5, <1>13, <3>1
    <3>. QED
      BY <1>7, <3>1, <3>2
  <2>. QED
    BY <2>2, <2>3, <2>4 DEF HeldInLine
<1>10. ASSUME UNCHANGED kept, failure' # "none", failure' \in Reasons, offspring' \subseteq {"group", "tree", "lost"}
       PROVE  CliInv'
  <2>1. KeptInOrder'
    BY <1>1, <1>5, <1>6, <1>10 DEF KeptInOrder
  <2>2. CliTypeOK'
    BY <1>1, <1>3, <1>5, <1>6, <1>10 DEF CliTypeOK, Pieces
  <2>3. CliOver'
    BY <1>1, <1>6, <1>10 DEF CliOver
  <2>. QED
    BY <1>9, <1>10, <2>1, <2>2, <2>3 DEF CliInv, KeptOrHeld
<1>11. CASE kept' = Append(kept, p) /\ UNCHANGED <<offspring, failure>>
  <2>1. /\ kept' \in Seq(Pieces) /\ Len(kept') = Len(kept) + 1 /\ Len(kept) \in Nat
        /\ \A k \in 1..Len(kept) : kept'[k] = kept[k]
        /\ kept'[Len(kept) + 1] = <<c, n>>
    BY <1>3, <1>4, <1>11, CliTyped, AppendMembers
  <2>2. \A k \in 1..Len(kept') : k \in 1..Len(kept) \/ k = Len(kept) + 1
    BY <2>1
  <2>3. \A i \in 1..Len(kept) : kept[i][1] \in Channels /\ kept[i][2] \in Nat
    BY CliTyped DEF Pieces
  <2>4. \A i \in 1..Len(kept) : kept[i][1] = c => kept[i][2] < n
    BY <1>6, <1>8 DEF KeptInOrder
  <2>5. KeptInOrder'
    <3>1. \A i, j \in 1..Len(kept') : i < j /\ kept'[i][1] = kept'[j][1] => kept'[i][2] < kept'[j][2]
      <4>. SUFFICES ASSUME NEW i \in 1..Len(kept'), NEW j \in 1..Len(kept'), i < j, kept'[i][1] = kept'[j][1]
                    PROVE  kept'[i][2] < kept'[j][2]
        OBVIOUS
      <4>1. i \in 1..Len(kept)
        BY <2>1, <2>2
      <4>2. CASE j \in 1..Len(kept)
        BY <1>6, <2>1, <4>1, <4>2 DEF KeptInOrder
      <4>3. CASE j = Len(kept) + 1
        BY <2>1, <2>4, <4>1, <4>3
      <4>. QED
        BY <2>2, <4>2, <4>3
    <3>2. \A i \in 1..Len(kept') : kept'[i][2] \in 1..consumed'[kept'[i][1]]
      BY <1>1, <1>6, <1>8, <2>1, <2>2 DEF KeptInOrder
    <3>3. \A i \in 1..Len(kept') : kept'[i][1] \in heldBack' => kept'[i][2] < consumed'[kept'[i][1]]
      BY <1>1, <1>5, <1>6, <2>1, <2>2 DEF KeptInOrder
    <3>. QED
      BY <3>1, <3>2, <3>3 DEF KeptInOrder
  <2>6. KeptOrHeld'
    <3>1. \A d \in Channels, m \in Nat : (\E i \in 1..Len(kept) : kept[i] = <<d, m>>) => \E i \in 1..Len(kept') : kept'[i] = <<d, m>>
      <4>1. \A i \in 1..Len(kept) : i \in 1..Len(kept')
        BY <2>1
      <4>. QED
        BY <2>1, <4>1
    <3>2. \E i \in 1..Len(kept') : kept'[i] = <<c, n>>
      <4>1. Len(kept) + 1 \in 1..Len(kept')
        BY <2>1
      <4>. QED
        BY <2>1, <4>1
    <3>. SUFFICES ASSUME failure = "none", NEW d \in Channels, NEW m \in 1..consumed[d]
                  PROVE  (d \in heldBack' /\ m = consumed[d]) \/ \E i \in 1..Len(kept') : kept'[i] = <<d, m>>
      BY <1>1, <1>11 DEF KeptOrHeld
    <3>3. m \in Nat
      BY CliTyped
    <3>4. (d \in heldBack /\ m = consumed[d]) \/ \E i \in 1..Len(kept) : kept[i] = <<d, m>>
      BY <1>6 DEF KeptOrHeld
    <3>5. CASE d = c /\ m = consumed[d]
      BY <1>8, <3>2, <3>5
    <3>6. CASE d # c /\ d \in heldBack /\ m = consumed[d]
      BY <1>5, <3>6
    <3>. QED
      BY <3>1, <3>3, <3>4, <3>5, <3>6
  <2>7. CliTypeOK'
    BY <1>1, <1>3, <1>5, <1>6, <1>11, <2>1 DEF CliTypeOK, Pieces
  <2>8. CliOver'
    BY <1>1, <1>6, <1>11 DEF CliOver
  <2>. QED
    BY <1>9, <2>5, <2>6, <2>7, <2>8 DEF CliInv
<1>12. CASE UNCHANGED kept /\ KillGroup(First("output_persistence_failed"))
  <2>1. First("output_persistence_failed") \in Reasons \ {"none"}
    BY FirstReason DEF Reasons
  <2>2. failure' # "none" /\ failure' \in Reasons /\ offspring' \subseteq {"group", "tree", "lost"}
    BY <1>12, <2>1, Kills
  <2>. QED
    BY <1>10, <1>12, <2>2
<1>. QED
  BY <1>2, <1>11, <1>12 DEF Stores

(* The other steps leave the pieces as they are.                           *)
LEMMA CliStepKeeps == ASSUME CliInv, CliNext PROVE CliInv'
<1>1. KeptInOrder /\ KeptOrHeld /\ HeldInLine /\ CliOver /\ CliTypeOK
  BY DEF CliInv
<1>2. ASSUME Spawn PROVE CliInv'
  <2>1. HeldInLine' /\ KeptInOrder' /\ KeptOrHeld'
    BY <1>2, PiecesStay DEF Spawn
  <2>2. CliTypeOK'
    BY <1>1, <1>2 DEF Spawn, CliTypeOK
  <2>3. CliOver'
    BY <1>1, <1>2 DEF Spawn, CliOver
  <2>. QED
    BY <2>1, <2>2, <2>3 DEF CliInv
<1>3. ASSUME NEW c \in Channels, Writes(c) PROVE CliInv'
  <2>1. HeldInLine' /\ KeptInOrder' /\ KeptOrHeld'
    BY <1>3, PiecesStay DEF Writes
  <2>2. CliTypeOK'
    BY <1>1, <1>3, CliAssumption DEF Writes, CliTypeOK
  <2>3. CliOver'
    BY <1>1, <1>3 DEF Writes, CliOver
  <2>. QED
    BY <2>1, <2>2, <2>3 DEF CliInv
<1>4. ASSUME NEW reason \in Reasons, KillGroup(reason), reason = "none" => failure = "none",
             stopAsked' => stopAsked \/ reason # "none", stopAsked' \in BOOLEAN,
             UNCHANGED <<written, consumed, heldBack, line, kept, cliResult>>,
             cli # "closed", cli' \in {cli, "exited"}
      PROVE  CliInv'
  <2>1. /\ failure' \in Reasons /\ offspring' \subseteq {"group", "tree", "lost"}
        /\ failure' = "none" => offspring' \subseteq {"lost"} /\ reason = "none" /\ failure = "none"
    BY <1>4, Kills
  <2>2. HeldInLine' /\ KeptInOrder' /\ KeptOrHeld'
    BY <1>4, <2>1, PiecesStay
  <2>3. CliTypeOK'
    BY <1>1, <1>4, <2>1 DEF CliTypeOK
  <2>4. CliOver'
    BY <1>1, <1>4, <2>1 DEF CliOver, CliTypeOK
  <2>. QED
    BY <2>2, <2>3, <2>4 DEF CliInv
<1>5. /\ First("cancelled") \in Reasons \ {"none"} /\ First("execution_timeout") \in Reasons \ {"none"}
      /\ First("process_cleanup_failed") \in Reasons \ {"none"}
      /\ First("provider_unavailable") \in Reasons \ {"none"}
  BY FirstReason DEF Reasons
<1>6. ASSUME ChildExits PROVE CliInv'
  <2>1. PICK reason \in {failure, First("provider_unavailable")} : KillGroup(reason)
    BY <1>6 DEF ChildExits
  <2>2. reason \in Reasons /\ (reason = "none" => failure = "none")
    BY <1>1, <1>5, <2>1 DEF CliTypeOK
  <2>. QED
    BY <1>1, <1>4, <1>6, <2>1, <2>2 DEF ChildExits, CliTypeOK
<1>7. ASSUME Stops("cancelled") \/ Stops("execution_timeout") \/ TrackingFails PROVE CliInv'
  <2>1. CASE Stops("cancelled")
    BY <1>4, <1>5, <2>1 DEF Stops
  <2>2. CASE Stops("execution_timeout")
    BY <1>4, <1>5, <2>2 DEF Stops
  <2>3. CASE TrackingFails
    BY <1>1, <1>4, <1>5, <2>3 DEF TrackingFails, CliTypeOK
  <2>. QED
    BY <1>7, <2>1, <2>2, <2>3
<1>8. ASSUME PipesClose PROVE CliInv'
  <2>1. failure \in Reasons /\ KillGroup(failure) /\ cli' = "closed"
        /\ UNCHANGED <<written, consumed, heldBack, line, kept, stopAsked, cliResult>>
    BY <1>1, <1>8 DEF PipesClose, CliTypeOK
  <2>2. /\ failure' \in Reasons /\ offspring' \subseteq {"group", "tree", "lost"}
        /\ failure' = "none" => offspring' \subseteq {"lost"} /\ failure = "none"
    BY <2>1, Kills
  <2>3. line = <<>>
    <3>1. \A i \in 1..Len(line) : FALSE
      BY <1>1, <1>8 DEF PipesClose, HeldInLine
    <3>2. Len(line) \in Nat /\ (line = <<>> <=> Len(line) = 0)
      BY CliTyped
    <3>3. Len(line) = 0
      BY <3>1, <3>2
    <3>. QED
      BY <3>2, <3>3
  <2>4. HeldInLine' /\ KeptInOrder' /\ KeptOrHeld'
    BY <2>1, <2>2, PiecesStay
  <2>5. CliTypeOK'
    BY <1>1, <2>1, <2>2 DEF CliTypeOK
  <2>6. CliOver'
    BY <1>1, <1>8, <2>1, <2>2, <2>3 DEF PipesClose, CliOver
  <2>. QED
    BY <2>4, <2>5, <2>6 DEF CliInv
<1>9. ASSUME RunResolves PROVE CliInv'
  <2>1. failure' \in Reasons /\ (failure' = "none" => failure = "none")
    BY <1>1, <1>9 DEF RunResolves, CliTypeOK, Reasons
  <2>2. HeldInLine' /\ KeptInOrder' /\ KeptOrHeld'
    BY <1>9, <2>1, PiecesStay DEF RunResolves
  <2>3. CliTypeOK'
    BY <1>1, <1>9, <2>1 DEF RunResolves, CliTypeOK
  <2>4. CliOver'
    BY <1>1, <1>9, <2>1 DEF RunResolves, CliOver
  <2>. QED
    BY <2>2, <2>3, <2>4 DEF CliInv
<1>. QED
  BY <1>2, <1>3, <1>6, <1>7, <1>8, <1>9, TakesKeeps, StoresKeeps DEF CliNext

LEMMA CliInvTells == CliInv => ResultTellsAll
<1>. SUFFICES ASSUME CliInv PROVE ResultTellsAll
  OBVIOUS
<1>1. cliResult # "pending" => line = <<>> /\ consumed = written /\ heldBack = {} /\ cliResult = failure /\ cli = "closed"
  BY DEF CliInv, CliOver
<1>2. cliResult = "none" => offspring \subseteq {"lost"} /\ ~stopAsked
  BY <1>1 DEF CliInv, CliOver
<1>3. cliResult = "none" => \A c \in Channels : \A n \in 1..written[c] : \E i \in 1..Len(kept) : kept[i] = <<c, n>>
  BY <1>1 DEF CliInv, KeptOrHeld
<1>. QED
  BY <1>1, <1>2, <1>3 DEF CliInv, KeptInOrder, ResultTellsAll

(* When a run of a provider's program has resolved, all of its output has  *)
(* been stored in order, and of a run without error nothing is left, for   *)
(* any channels and any amount of output: process-runner.ts.               *)
THEOREM ResultTellsAllHolds == CliSpec => []ResultTellsAll
<1>1. CliInit => CliInv
  BY InitCli
<1>2. ASSUME CliInv, [CliNext]_cliVars PROVE CliInv'
  <2>1. CASE CliNext
    BY <1>2, <2>1, CliStepKeeps
  <2>2. CASE UNCHANGED cliVars
    BY <1>2, <2>2 DEF cliVars, CliInv, CliTypeOK, HeldInLine, KeptInOrder, KeptOrHeld, CliOver
  <2>. QED
    BY <1>2, <2>1, <2>2
<1>. QED
  BY <1>1, <1>2, CliInvTells, PTL DEF CliSpec

(***************************************************************************)
(* McpLoginProtocol: grounds of a verdict                                  *)
(***************************************************************************)
Whats == {"initialize", "clear", "auth", "login", "read", "write", "poll", "callback", "completed"}
ServerStatuses == {"starting", "connected", "failed"}
AnswerOutcomes == ServerStatuses \cup {"success", "notFound", "refused", "error"}
AskedRequests == [what : Whats, n : Int]
AnswerLines == [what : Whats, n : Int, outcome : AnswerOutcomes, fresh : BOOLEAN]
UnreadLines == answers \cup {said[i] : i \in DOMAIN said}

ConversationTyped ==
  /\ mcpMachine \in Machines /\ attempts \in Int /\ polls \in Int /\ submissions \in Int /\ acceptedAfterPoll \in Int
  /\ asked \subseteq AskedRequests /\ answers \subseteq AnswerLines /\ said \in Seq(AnswerLines)
  /\ serverStatus \in ServerStatuses /\ callbackTaken \in BOOLEAN

(* Who was told of an accepted callback was told the truth, and of the     *)
(* polls still to be read after it only the last one asked may be older.   *)
AcceptanceTrue ==
  /\ acceptedAfterPoll # -1 => callbackTaken
  /\ \A l \in UnreadLines : l.what = "callback" /\ l.outcome = "success" => callbackTaken
PollsFresh ==
  acceptedAfterPoll # -1 => \A l \in UnreadLines : l.what = "poll" => l.fresh \/ polls <= acceptedAfterPoll

ConversationInv == ConversationTyped /\ AcceptanceTrue /\ PollsFresh /\ VerdictIsOwn

LEMMA InitConversation == ProtocolInit => ConversationInv
<1>. SUFFICES ASSUME ProtocolInit PROVE ConversationInv
  OBVIOUS
<1>1. Request("initialize", 1) \in AskedRequests
  BY DEF Request, AskedRequests, Whats
<1>2. ConversationTyped
  <2>1. said \in Seq(AnswerLines)
    BY DEF ProtocolInit
  <2>2. asked \subseteq AskedRequests /\ answers \subseteq AnswerLines
    BY <1>1 DEF ProtocolInit
  <2>3. serverStatus \in ServerStatuses /\ acceptedAfterPoll \in Int
    BY DEF ProtocolInit, ServerStatuses
  <2>4. callbackTaken \in BOOLEAN
    BY Zenon DEF ProtocolInit
  <2>. QED
    BY <2>1, <2>2, <2>3, <2>4 DEF ProtocolInit, ConversationTyped
<1>3. UnreadLines = {}
  BY DEF ProtocolInit, UnreadLines
<1>. QED
  BY <1>2, <1>3 DEF ProtocolInit, ConversationInv, AcceptanceTrue, PollsFresh, VerdictIsOwn

(* Reading a line leaves fewer of them.                                    *)
LEMMA HeadUnread ==
  ASSUME ConversationInv, said # <<>>, said' = Tail(said), UNCHANGED answers
  PROVE  /\ Head(said) \in UnreadLines /\ Head(said) \in AnswerLines
         /\ said' \in Seq(AnswerLines) /\ UnreadLines' \subseteq UnreadLines
<1>. said \in Seq(AnswerLines)
  BY DEF ConversationInv, ConversationTyped
<1>0. Len(said) \in Nat /\ Len(said) # 0 /\ DOMAIN said = 1..Len(said)
  OBVIOUS
<1>1. Head(said) = said[1] /\ 1 \in DOMAIN said
  BY <1>0
<1>2. Head(said) \in UnreadLines /\ Head(said) \in AnswerLines
  BY <1>1 DEF UnreadLines
<1>3. said' \in Seq(AnswerLines) /\ Len(said') = Len(said) - 1
  BY <1>0
<1>4. \A i \in DOMAIN said' : i + 1 \in DOMAIN said /\ said'[i] = said[i + 1]
  BY <1>0, <1>3
<1>5. UnreadLines' \subseteq UnreadLines
  BY <1>4 DEF UnreadLines
<1>. QED
  BY <1>2, <1>3, <1>5

(* A line is written behind those before it.                               *)
LEMMA AppendUnread ==
  ASSUME ConversationInv, NEW l \in AnswerLines, said' = Append(said, l)
  PROVE  said' \in Seq(AnswerLines) /\ {said'[i] : i \in DOMAIN said'} \subseteq {said[i] : i \in DOMAIN said} \cup {l}
<1>. said \in Seq(AnswerLines)
  BY DEF ConversationInv, ConversationTyped
<1>1. said' \in Seq(AnswerLines) /\ Len(said') = Len(said) + 1
  OBVIOUS
<1>2. \A i \in 1..Len(said) : said'[i] = said[i]
  OBVIOUS
<1>3. said'[Len(said) + 1] = l
  OBVIOUS
<1>. QED
  BY <1>1, <1>2, <1>3

(* What is asked for next is a request.                                    *)
LEMMA SendsTyped ==
  ASSUME asked \subseteq AskedRequests, NEW w \in Whats, NEW n \in Int, Sends(w, n)
  PROVE  asked' \subseteq AskedRequests
BY DEF Sends, Request, AskedRequests

(* A line that ends no status poll and tells of no callback leaves the     *)
(* count of polls and callbacks as it was.                                 *)
LEMMA OtherLinesKeep ==
  ASSUME ConversationInv, said # <<>>, said' = Tail(said), UNCHANGED <<mcpMachine, answers, serverStatus, callbackTaken>>,
         UnchangedByStage, attempts' \in Int, asked' \subseteq AskedRequests, verdict' # "stale"
  PROVE  ConversationInv'
<1>1. said' \in Seq(AnswerLines) /\ UnreadLines' \subseteq UnreadLines
  BY HeadUnread
<1>2. ConversationTyped'
  BY <1>1 DEF ConversationInv, ConversationTyped, UnchangedByStage
<1>3. AcceptanceTrue' /\ PollsFresh'
  BY <1>1 DEF ConversationInv, AcceptanceTrue, PollsFresh, UnchangedByStage
<1>. QED
  BY <1>2, <1>3 DEF ConversationInv, VerdictIsOwn

LEMMA ReadsKeep == ASSUME ConversationInv, ReadsLine PROVE ConversationInv'
<1>. DEFINE l == Head(said)
<1>. said # <<>> /\ said' = Tail(said) /\ UNCHANGED <<mcpMachine, answers, serverStatus, callbackTaken>>
  BY DEF ReadsLine
<1>h. l \in UnreadLines /\ l \in AnswerLines /\ said' \in Seq(AnswerLines) /\ UnreadLines' \subseteq UnreadLines
  BY HeadUnread
<1>f. l.what \in Whats /\ l.n \in Int /\ l.outcome \in AnswerOutcomes /\ l.fresh \in BOOLEAN
  BY <1>h DEF AnswerLines
<1>m. UNCHANGED mcpMachine /\ mcpMachine \in Machines
  BY DEF ReadsLine, ConversationInv, ConversationTyped
<1>t. attempts \in Int /\ asked \subseteq AskedRequests /\ verdict # "stale"
  BY DEF ConversationInv, ConversationTyped, VerdictIsOwn
<1>e. \A stage, what : Enters(stage, what) /\ what \in Whats =>
        attempts' \in Int /\ asked' \subseteq AskedRequests /\ verdict' # "stale"
  BY <1>t, SendsTyped DEF Enters
<1>w. {"auth", "clear", "login", "read", "write"} \subseteq Whats
  BY DEF Whats
<1>v. \A how : VerdictFalls(how, "own") => attempts' \in Int /\ asked' \subseteq AskedRequests /\ verdict' # "stale"
  BY <1>t DEF VerdictFalls
<1>1. ASSUME Handshaken(l) PROVE ConversationInv'
  <2>1. attempts' \in Int /\ asked' \subseteq AskedRequests /\ verdict' # "stale"
    <3>1. CASE l.outcome # "success"
      BY <1>1, <1>v, <3>1 DEF Handshaken
    <3>2. CASE l.outcome = "success"
      BY <1>1, <1>e, <1>w, <1>m, <3>2 DEF Handshaken, Machines
    <3>. QED
      BY <3>1, <3>2
  <2>. QED
    BY <1>1, <2>1, OtherLinesKeep DEF Handshaken
<1>2. ASSUME Located(l) PROVE ConversationInv'
  <2>1. attempts' \in Int /\ asked' \subseteq AskedRequests /\ verdict' # "stale"
    <3>1. CASE attempts' = attempts + 1 /\ Sends(l.what, attempts') /\ UNCHANGED verdict
      BY <1>f, <1>t, <3>1, SendsTyped
    <3>2. CASE \E how : VerdictFalls(how, "own")
      BY <1>v, <3>2
    <3>3. CASE Enters("authenticating", "auth")
      BY <1>e, <1>w, <3>3
    <3>4. CASE UNCHANGED <<verdict, attempts, asked>>
      BY <1>t, <3>4
    <3>. QED
      BY <1>2, <3>1, <3>2, <3>3, <3>4 DEF Located
  <2>. QED
    BY <1>2, <2>1, OtherLinesKeep DEF Located
<1>3. ASSUME CodexAnswered(l) PROVE ConversationInv'
  <2>1. attempts' \in Int /\ asked' \subseteq AskedRequests /\ verdict' # "stale"
    <3>1. CASE \E how : VerdictFalls(how, "own")
      BY <1>v, <3>1
    <3>2. CASE Enters("writing", "write")
      BY <1>e, <1>w, <3>2
    <3>3. CASE UNCHANGED <<verdict, attempts, asked>>
      BY <1>t, <3>3
    <3>. QED
      BY <1>3, <3>1, <3>2, <3>3 DEF CodexAnswered
  <2>. QED
    BY <1>3, <2>1, OtherLinesKeep DEF CodexAnswered
<1>4. ASSUME Completed(l) PROVE ConversationInv'
  <2>1. l.n = 1
    BY <1>4 DEF Completed
  <2>2. attempts' \in Int /\ asked' \subseteq AskedRequests /\ verdict' # "stale"
    BY <1>4, <1>v, <2>1 DEF Completed
  <2>. QED
    BY <1>4, <2>2, OtherLinesKeep DEF Completed
<1>5. ASSUME Awaited(l) PROVE ConversationInv'
  <2>1. CASE l.what = "callback"
    <3>. UNCHANGED <<mcpStage, mcpEnd, verdict, attempts, asked, polls, submissions>>
      BY <1>5, <2>1 DEF Awaited, Continues
    <3>1. \/ acceptedAfterPoll' = acceptedAfterPoll
          \/ l.outcome = "success" /\ acceptedAfterPoll' = polls
      BY <1>5, <2>1 DEF Awaited
    <3>2. ConversationTyped'
      BY <1>h, <3>1 DEF ConversationInv, ConversationTyped
    <3>3. AcceptanceTrue'
      BY <1>h, <2>1, <3>1 DEF ConversationInv, AcceptanceTrue
    <3>4. PollsFresh'
      BY <1>h, <3>1 DEF ConversationInv, ConversationTyped, PollsFresh
    <3>. QED
      BY <3>2, <3>3, <3>4 DEF ConversationInv, VerdictIsOwn
  <2>2. CASE l.what # "callback"
    <3>1. UnchangedByStage /\ l.what = "poll"
      BY <1>5, <2>2 DEF Awaited, UnchangedByStage
    <3>2. ASSUME l.outcome = "failed", FailedSince(l) PROVE l.fresh
      BY <1>h, <3>1, <3>2 DEF ConversationInv, ConversationTyped, PollsFresh, FailedSince
    <3>3. (\E how : VerdictFalls(how, "own")) \/ Continues
      BY <1>5, <2>2, <3>2 DEF Awaited
    <3>4. attempts' \in Int /\ asked' \subseteq AskedRequests /\ verdict' # "stale"
      BY <1>t, <1>v, <3>3 DEF Continues
    <3>. QED
      BY <3>1, <3>4, OtherLinesKeep
  <2>. QED
    BY <2>1, <2>2
<1>6. ASSUME Continues, UnchangedByStage PROVE ConversationInv'
  BY <1>6, <1>t, OtherLinesKeep DEF Continues
<1>. QED
  BY <1>1, <1>2, <1>3, <1>4, <1>5, <1>6 DEF ReadsLine

LEMMA AnswerKeeps ==
  ASSUME ConversationInv, NEW r \in asked, ProviderAnswers(r) PROVE ConversationInv'
<1>1. r \in AskedRequests /\ r.what \in Whats /\ r.n \in Int
  BY DEF ConversationInv, ConversationTyped, AskedRequests
<1>2. PICK outcome \in AnswerOutcomes :
        /\ answers' = answers \cup {Line(r.what, r.n, outcome)}
        /\ callbackTaken' = (callbackTaken \/ (r.what = "callback" /\ outcome = "success"))
        /\ serverStatus' = IF r.what = "callback" /\ outcome = "success" THEN "starting" ELSE serverStatus
  BY DEF ProviderAnswers, ConversationInv, ConversationTyped, AnswerOutcomes, ServerStatuses
<1>. DEFINE m == Line(r.what, r.n, outcome)
<1>. asked' = asked \ {r}
  BY DEF ProviderAnswers
<1>. UNCHANGED <<mcpMachine, attempts, polls, submissions, acceptedAfterPoll, said, verdict>>
  BY DEF ProviderAnswers
<1>3. m \in AnswerLines /\ m.what = r.what /\ m.outcome = outcome /\ m.fresh = callbackTaken
  BY <1>1 DEF Line, AnswerLines, ConversationInv, ConversationTyped
<1>4. UnreadLines' = UnreadLines \cup {m}
  BY <1>2 DEF UnreadLines
<1>5. ConversationTyped'
  BY <1>2, <1>3 DEF ConversationInv, ConversationTyped, ServerStatuses
<1>6. AcceptanceTrue'
  BY <1>2, <1>3, <1>4 DEF ConversationInv, AcceptanceTrue
<1>7. PollsFresh'
  BY <1>3, <1>4 DEF ConversationInv, PollsFresh, AcceptanceTrue
<1>. QED
  BY <1>5, <1>6, <1>7 DEF ConversationInv, VerdictIsOwn

LEMMA ConversationStepKeeps == ConversationInv /\ [ProtocolNext]_protocolVars => ConversationInv'
<1>. SUFFICES ASSUME ConversationInv, [ProtocolNext]_protocolVars PROVE ConversationInv'
  OBVIOUS
<1>1. ASSUME NEW r \in asked, ProviderAnswers(r) PROVE ConversationInv'
  BY <1>1, AnswerKeeps
<1>2. ASSUME NEW l \in answers, ProviderWrites(l) PROVE ConversationInv'
  <2>. UNCHANGED <<mcpMachine, attempts, polls, submissions, acceptedAfterPoll, asked, serverStatus, callbackTaken, verdict>>
    BY <1>2 DEF ProviderWrites
  <2>1. l \in AnswerLines /\ answers' = answers \ {l} /\ said' = Append(said, l)
    BY <1>2 DEF ProviderWrites, ConversationInv, ConversationTyped
  <2>2. said' \in Seq(AnswerLines) /\ UnreadLines' \subseteq UnreadLines
    BY <2>1, AppendUnread DEF UnreadLines
  <2>3. ConversationTyped'
    BY <2>1, <2>2 DEF ConversationInv, ConversationTyped
  <2>. QED
    BY <2>2, <2>3 DEF ConversationInv, AcceptanceTrue, PollsFresh, VerdictIsOwn
<1>3. ASSUME ServerSettles PROVE ConversationInv'
  <2>. UNCHANGED <<mcpMachine, attempts, polls, submissions, acceptedAfterPoll, asked, answers, said, callbackTaken, verdict>>
    BY <1>3 DEF ServerSettles
  <2>1. ConversationTyped' /\ UnreadLines' = UnreadLines
    BY <1>3 DEF ServerSettles, ServerStatuses, ConversationInv, ConversationTyped, UnreadLines
  <2>. QED
    BY <2>1 DEF ConversationInv, AcceptanceTrue, PollsFresh, VerdictIsOwn
<1>4. ASSUME LoginCompletes PROVE ConversationInv'
  <2>. UNCHANGED <<mcpMachine, attempts, polls, submissions, acceptedAfterPoll, asked, answers, serverStatus, callbackTaken, verdict>>
    BY <1>4 DEF LoginCompletes
  <2>1. PICK own \in {1, 2}, outcome \in {"success", "error"} : said' = Append(said, Line("completed", own, outcome))
    BY <1>4 DEF LoginCompletes
  <2>. DEFINE m == Line("completed", own, outcome)
  <2>2. m \in AnswerLines /\ m.what = "completed"
    BY DEF Line, AnswerLines, Whats, AnswerOutcomes, ConversationInv, ConversationTyped
  <2>3. said' \in Seq(AnswerLines) /\ UnreadLines' \subseteq UnreadLines \cup {m}
    BY <2>1, <2>2, AppendUnread DEF UnreadLines
  <2>4. ConversationTyped'
    BY <2>3 DEF ConversationInv, ConversationTyped
  <2>. QED
    BY <2>2, <2>3, <2>4 DEF ConversationInv, AcceptanceTrue, PollsFresh, VerdictIsOwn
<1>5. ASSUME ReadsLine PROVE ConversationInv'
  BY <1>5, ReadsKeep
<1>6. ASSUME StartTimesOut PROVE ConversationInv'
  <2>1. UNCHANGED <<mcpMachine, attempts, asked, polls, submissions, acceptedAfterPoll, answers, said, serverStatus, callbackTaken>>
    BY <1>6 DEF StartTimesOut, VerdictFalls, UnchangedByStage
  <2>2. verdict' = "own"
    BY <1>6 DEF StartTimesOut, VerdictFalls
  <2>3. ConversationTyped' /\ UnreadLines' = UnreadLines
    BY <2>1 DEF ConversationInv, ConversationTyped, UnreadLines
  <2>. QED
    BY <2>1, <2>2, <2>3 DEF ConversationInv, AcceptanceTrue, PollsFresh, VerdictIsOwn
<1>7. ASSUME PollStatus PROVE ConversationInv'
  <2>. UNCHANGED <<mcpMachine, attempts, submissions, acceptedAfterPoll, answers, said, serverStatus, callbackTaken, verdict>>
    BY <1>7 DEF PollStatus
  <2>1. polls' = polls + 1 /\ Sends("poll", polls')
    BY <1>7 DEF PollStatus
  <2>2. polls' \in Int /\ asked' \subseteq AskedRequests
    BY <2>1, SendsTyped DEF ConversationInv, ConversationTyped, Whats
  <2>3. ConversationTyped' /\ UnreadLines' = UnreadLines
    BY <2>2 DEF ConversationInv, ConversationTyped, UnreadLines
  <2>4. \A l \in UnreadLines : l.what # "poll"
    BY <1>7 DEF PollStatus, UnreadLines
  <2>. QED
    BY <2>3, <2>4 DEF ConversationInv, AcceptanceTrue, PollsFresh, VerdictIsOwn
<1>8. ASSUME SubmitCallback PROVE ConversationInv'
  <2>. UNCHANGED <<mcpMachine, attempts, polls, acceptedAfterPoll, answers, said, serverStatus, callbackTaken, verdict>>
    BY <1>8 DEF SubmitCallback
  <2>1. submissions' = submissions + 1 /\ Sends("callback", submissions')
    BY <1>8 DEF SubmitCallback
  <2>2. submissions' \in Int /\ asked' \subseteq AskedRequests
    BY <2>1, SendsTyped DEF ConversationInv, ConversationTyped, Whats
  <2>3. ConversationTyped' /\ UnreadLines' = UnreadLines
    BY <2>2 DEF ConversationInv, ConversationTyped, UnreadLines
  <2>. QED
    BY <2>3 DEF ConversationInv, AcceptanceTrue, PollsFresh, VerdictIsOwn
<1>9. CASE UNCHANGED protocolVars
  BY <1>9 DEF protocolVars, ConversationInv, ConversationTyped, AcceptanceTrue, PollsFresh, VerdictIsOwn, UnreadLines
<1>. QED
  BY <1>1, <1>2, <1>3, <1>4, <1>5, <1>6, <1>7, <1>8, <1>9 DEF ProtocolNext

(* VerdictIsOwn, for any number of attempts, polls and callbacks.          *)
THEOREM VerdictIsOwnHolds == ProtocolSpec => []VerdictIsOwn
<1>1. ConversationInv => VerdictIsOwn
  BY DEF ConversationInv
<1>. QED
  BY <1>1, InitConversation, ConversationStepKeeps, PTL DEF ProtocolSpec

(***************************************************************************)
(* McpLogins: one process at a time                                        *)
(***************************************************************************)
Phases == {"none", "queued", "attempting", "discarding", "pending", "finished", "over"}
BeforeSettled(s) == \A t \in Logins : t < s => loginSettled[t]

LoginsTyped ==
  /\ loginPhase \in [Logins -> Phases] /\ loginSettled \in [Logins -> BOOLEAN]
  /\ loginProcess \in [Logins -> {"none", "running", "closed"}]
  /\ previous \in [Logins -> Logins \cup {0}] /\ activeLogin \in Logins \cup {0}

(* A session has settled when its attempt or its conversation is over, and *)
(* has a process only in between.                                          *)
SettledAtEnd ==
  \A s \in Logins : /\ loginSettled[s] <=> loginPhase[s] \in {"finished", "over"}
                    /\ loginProcess[s] = "running" => loginPhase[s] \in {"attempting", "discarding", "pending"}

(* Sessions begin in order.  While the newest is not the active one all of *)
(* them have settled, and nobody begins after close.                       *)
BegunInOrder ==
  /\ \A s, t \in Logins : t < s /\ loginPhase[s] # "none" => loginPhase[t] # "none"
  /\ activeLogin = 0 => \A s \in Logins : loginPhase[s] # "none" => loginSettled[s]
  /\ activeLogin # 0 => /\ loginPhase[activeLogin] # "none"
                        /\ \A s \in Logins : loginPhase[s] # "none" => s <= activeLogin
  /\ mcpClosing = "closed" => \A s \in Logins : loginPhase[s] # "none" => loginSettled[s]

(* Whoever waits no longer has nobody before it, and whoever waits for one *)
(* has nobody else before it than that one and those before that.          *)
OneAfterAnother ==
  \A s \in Logins :
    /\ loginPhase[s] \notin {"none", "queued"} => BeforeSettled(s)
    /\ loginPhase[s] = "queued" => /\ \A t \in Logins : t < s => loginSettled[t] \/ t <= previous[s]
                                   /\ previous[s] < s

LoginsInv == LoginsTyped /\ SettledAtEnd /\ BegunInOrder /\ OneAfterAnother

LEMMA InitLogins == LoginInit => LoginsInv
BY DEF LoginInit, LoginsInv, LoginsTyped, Phases, SettledAtEnd, BegunInOrder, OneAfterAnother

LEMMA LoginsAlone == LoginsInv => OneLoginProcess
<1>. SUFFICES ASSUME LoginsInv PROVE OneLoginProcess
  OBVIOUS
<1>1. ASSUME NEW s \in Logins, NEW t \in Logins, loginProcess[s] = "running", loginProcess[t] = "running", t < s
      PROVE  FALSE
  BY <1>1 DEF LoginsInv, SettledAtEnd, OneAfterAnother, BeforeSettled
<1>2. \A s, t \in Logins : s = t \/ s < t \/ t < s
  BY LoginAssumption
<1>3. ASSUME mcpClosing = "closed", NEW s \in Logins, loginProcess[s] = "running" PROVE FALSE
  BY <1>3 DEF LoginsInv, SettledAtEnd, BegunInOrder
<1>. QED
  BY <1>1, <1>2, <1>3 DEF OneLoginProcess

(* Once the one it replaced has settled, all before a session have.        *)
LEMMA PreviousWasLast ==
  ASSUME LoginsInv, NEW s \in Logins, loginPhase[s] = "queued", previous[s] # 0 => loginSettled[previous[s]]
  PROVE  BeforeSettled(s)
<1>1. CASE previous[s] = 0
  BY <1>1, LoginAssumption DEF LoginsInv, OneAfterAnother, BeforeSettled
<1>2. CASE previous[s] # 0
  <2>1. previous[s] \in Logins /\ loginSettled[previous[s]]
    BY <1>2 DEF LoginsInv, LoginsTyped
  <2>2. BeforeSettled(previous[s])
    BY <2>1 DEF LoginsInv, SettledAtEnd, OneAfterAnother
  <2>3. ASSUME NEW t \in Logins, t < s PROVE loginSettled[t]
    <3>1. loginSettled[t] \/ t <= previous[s]
      BY <2>3 DEF LoginsInv, OneAfterAnother
    <3>. previous[s] \in Nat /\ t \in Nat
      BY <2>1, LoginAssumption
    <3>2. t <= previous[s] => t = previous[s] \/ t < previous[s]
      OBVIOUS
    <3>. QED
      BY <2>1, <2>2, <3>1, <3>2 DEF BeforeSettled
  <2>. QED
    BY <2>3 DEF BeforeSettled
<1>. QED
  BY <1>1, <1>2

(* A session whose turn has come goes on.                                  *)
LEMMA LoginGoesOn ==
  ASSUME LoginsInv, NEW s \in Logins, BeforeSettled(s), loginPhase[s] \notin {"none", "finished", "over"},
         NEW p \in {"attempting", "discarding", "pending"}, Phase(s, p),
         loginProcess' = [loginProcess EXCEPT ![s] = "running"] \/ loginProcess' = loginProcess,
         UNCHANGED <<loginSettled, previous, activeLogin, mcpClosing>>
  PROVE  LoginsInv'
<1>1. LoginsTyped'
  BY DEF LoginsInv, LoginsTyped, Phase, Phases
<1>2. /\ loginPhase'[s] = p /\ \A t \in Logins \ {s} : loginPhase'[t] = loginPhase[t]
      /\ \A t \in Logins \ {s} : loginProcess'[t] = loginProcess[t]
  BY DEF LoginsInv, LoginsTyped, Phase
<1>3. SettledAtEnd'
  BY <1>2 DEF LoginsInv, SettledAtEnd
<1>4. BegunInOrder'
  BY <1>2 DEF LoginsInv, LoginsTyped, BegunInOrder
<1>5. OneAfterAnother'
  BY <1>2 DEF LoginsInv, OneAfterAnother, BeforeSettled
<1>. QED
  BY <1>1, <1>3, <1>4, <1>5 DEF LoginsInv

(* A session whose turn has come, and without a process, settles.          *)
LEMMA LoginSettles ==
  ASSUME LoginsInv, NEW s \in Logins, BeforeSettled(s), loginPhase[s] \notin {"none", "finished", "over"},
         loginProcess[s] # "running", NEW p \in {"finished", "over"}, Phase(s, p), Release(s),
         UNCHANGED <<loginProcess, previous, mcpClosing>>
  PROVE  LoginsInv'
<1>1. LoginsTyped'
  BY DEF LoginsInv, LoginsTyped, Phase, Phases, Release
<1>2. /\ loginPhase'[s] = p /\ \A t \in Logins \ {s} : loginPhase'[t] = loginPhase[t]
      /\ loginSettled'[s] /\ \A t \in Logins \ {s} : loginSettled'[t] = loginSettled[t]
  BY DEF LoginsInv, LoginsTyped, Phase, Release
<1>3. SettledAtEnd'
  BY <1>2 DEF LoginsInv, SettledAtEnd
<1>4. BegunInOrder'
  <2>1. CASE activeLogin = s
    <3>1. activeLogin' = 0 /\ s # 0
      BY <2>1, LoginAssumption DEF Release
    <3>2. \A t \in Logins : loginPhase[t] # "none" => t = s \/ t < s
      BY <2>1, <3>1, LoginAssumption DEF LoginsInv, BegunInOrder
    <3>3. \A t \in Logins : loginPhase'[t] # "none" => loginSettled'[t]
      BY <1>2, <3>2 DEF BeforeSettled
    <3>. QED
      BY <1>2, <3>1, <3>3 DEF LoginsInv, BegunInOrder
  <2>2. CASE activeLogin # s
    <3>1. activeLogin' = activeLogin
      BY <2>2 DEF Release
    <3>. QED
      BY <1>2, <3>1 DEF LoginsInv, LoginsTyped, BegunInOrder
  <2>. QED
    BY <2>1, <2>2
<1>5. OneAfterAnother'
  BY <1>2 DEF LoginsInv, OneAfterAnother, BeforeSettled
<1>. QED
  BY <1>1, <1>3, <1>4, <1>5 DEF LoginsInv

LEMMA BeginKeeps == ASSUME LoginsInv, NEW s \in Logins, Begin(s) PROVE LoginsInv'
<1>. UNCHANGED <<loginSettled, loginProcess, mcpClosing>>
  BY DEF Begin
<1>0. /\ loginPhase[s] = "none" /\ mcpClosing = "open" /\ activeLogin' = s /\ s # 0
      /\ \A t \in Logins : t < s => loginPhase[t] # "none"
  BY LoginAssumption DEF Begin
<1>1. LoginsTyped'
  BY DEF LoginsInv, LoginsTyped, Begin, Phase, Phases
<1>2. /\ loginPhase'[s] = "queued" /\ \A t \in Logins \ {s} : loginPhase'[t] = loginPhase[t]
      /\ previous'[s] = activeLogin /\ \A t \in Logins \ {s} : previous'[t] = previous[t]
  BY DEF LoginsInv, LoginsTyped, Begin, Phase
<1>3. SettledAtEnd'
  BY <1>0, <1>2 DEF LoginsInv, SettledAtEnd
<1>4. \A t \in Logins : loginPhase[t] # "none" => t < s
  BY <1>0, LoginAssumption DEF LoginsInv, BegunInOrder
<1>5. BegunInOrder'
  <2>1. \A r, t \in Logins : t < r /\ loginPhase'[r] # "none" => loginPhase'[t] # "none"
    BY <1>0, <1>2 DEF LoginsInv, BegunInOrder
  <2>2. \A t \in Logins : loginPhase'[t] # "none" => t <= s
    BY <1>2, <1>4, LoginAssumption
  <2>. QED
    BY <1>0, <1>2, <2>1, <2>2 DEF BegunInOrder
<1>6. activeLogin < s /\ \A t \in Logins : t < s => loginSettled[t] \/ t <= activeLogin
  BY <1>0, <1>4, LoginAssumption DEF LoginsInv, LoginsTyped, BegunInOrder
<1>7. OneAfterAnother'
  BY <1>2, <1>6 DEF LoginsInv, OneAfterAnother, BeforeSettled
<1>. QED
  BY <1>1, <1>3, <1>5, <1>7 DEF LoginsInv

LEMMA ExitKeeps == ASSUME LoginsInv, NEW s \in Logins, LoginExits(s) PROVE LoginsInv'
<1>. UNCHANGED <<loginPhase, loginSettled, previous, activeLogin, mcpClosing>>
  BY DEF LoginExits
<1>1. LoginsTyped' /\ \A t \in Logins : loginProcess'[t] = "running" => loginProcess[t] = "running"
  BY DEF LoginsInv, LoginsTyped, LoginExits
<1>2. SettledAtEnd'
  BY <1>1 DEF LoginsInv, SettledAtEnd
<1>3. BegunInOrder' /\ OneAfterAnother'
  BY DEF LoginsInv, BegunInOrder, OneAfterAnother, BeforeSettled
<1>. QED
  BY <1>1, <1>2, <1>3 DEF LoginsInv

LEMMA LoginStepKeeps == LoginsInv /\ [LoginNext]_loginVars => LoginsInv'
<1>. SUFFICES ASSUME LoginsInv, [LoginNext]_loginVars PROVE LoginsInv'
  OBVIOUS
<1>0. ASSUME NEW s \in Logins, loginPhase[s] \notin {"none", "queued"} PROVE BeforeSettled(s)
  BY <1>0 DEF LoginsInv, OneAfterAnother
<1>1. ASSUME NEW s \in Logins, Begin(s) PROVE LoginsInv'
  BY <1>1, BeginKeeps
<1>2. ASSUME NEW s \in Logins, Attempt(s) PROVE LoginsInv'
  <2>1. loginPhase[s] = "queued" /\ UNCHANGED <<previous, mcpClosing>>
    BY <1>2 DEF Attempt
  <2>2. BeforeSettled(s)
    BY <1>2, PreviousWasLast DEF Attempt
  <2>3. loginProcess[s] # "running"
    BY <2>1 DEF LoginsInv, SettledAtEnd
  <2>4. CASE /\ Phase(s, "attempting") /\ loginProcess' = [loginProcess EXCEPT ![s] = "running"]
             /\ UNCHANGED <<activeLogin, loginSettled>>
    BY <2>1, <2>2, <2>4, LoginGoesOn
  <2>5. CASE Phase(s, "over") /\ Release(s) /\ UNCHANGED loginProcess
    BY <2>1, <2>2, <2>3, <2>5, LoginSettles
  <2>. QED
    BY <1>2, <2>4, <2>5 DEF Attempt
<1>3. ASSUME NEW s \in Logins, LoginExits(s) PROVE LoginsInv'
  BY <1>3, ExitKeeps
<1>4. ASSUME NEW s \in Logins, AttemptEnds(s) PROVE LoginsInv'
  <2>1. loginPhase[s] = "attempting" /\ UNCHANGED <<loginProcess, previous, mcpClosing>>
    BY <1>4 DEF AttemptEnds
  <2>2. CASE loginProcess[s] = "closed" /\ Phase(s, "over") /\ Release(s)
    BY <1>0, <2>1, <2>2, LoginSettles
  <2>3. CASE UNCHANGED <<activeLogin, loginSettled>> /\ (Phase(s, "discarding") \/ Phase(s, "pending"))
    BY <1>0, <2>1, <2>3, LoginGoesOn
  <2>. QED
    BY <1>4, <2>2, <2>3 DEF AttemptEnds
<1>5. ASSUME NEW s \in Logins, Discarded(s) PROVE LoginsInv'
  BY <1>0, <1>5, LoginSettles DEF Discarded
<1>6. ASSUME NEW s \in Logins, FinishLogin(s) PROVE LoginsInv'
  BY <1>0, <1>6, LoginSettles DEF FinishLogin
<1>7. ASSUME UNCHANGED <<loginPhase, loginSettled, loginProcess, previous, activeLogin>>,
             mcpClosing' = mcpClosing \/ mcpClosing' = "closing" \/ Unsettled = {}
      PROVE  LoginsInv'
  <2>1. LoginsTyped' /\ SettledAtEnd' /\ OneAfterAnother'
    BY <1>7 DEF LoginsInv, LoginsTyped, SettledAtEnd, OneAfterAnother, BeforeSettled
  <2>2. BegunInOrder'
    BY <1>7 DEF LoginsInv, BegunInOrder, Unsettled
  <2>. QED
    BY <2>1, <2>2 DEF LoginsInv
<1>8. ASSUME NEW s \in Logins, ForgetLogin(s) \/ AbortLogin(s) \/ DeliverCallback(s) \/ CallbackDelivered(s)
      PROVE  LoginsInv'
  BY <1>7, <1>8 DEF ForgetLogin, AbortLogin, DeliverCallback, CallbackDelivered
<1>9. CASE CloseLogins \/ LoginsClosed \/ UNCHANGED loginVars
  BY <1>7, <1>9 DEF CloseLogins, LoginsClosed, loginVars
<1>. QED
  BY <1>1, <1>2, <1>3, <1>4, <1>5, <1>6, <1>8, <1>9 DEF LoginNext

(* OneLoginProcess, for any number of sessions.                            *)
THEOREM OneLoginProcessHolds == LoginSpec => []OneLoginProcess
BY LoginsAlone, InitLogins, LoginStepKeeps, PTL DEF LoginSpec
=============================================================================
