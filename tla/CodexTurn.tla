------------------------------ MODULE CodexTurn ------------------------------
(***************************************************************************)
(* The Codex side of a running turn: createCodexProtocol                   *)
(* (infrastructure/execution/codex-interactive.ts), one app-server process *)
(* that owns one thread and one turn.  Each reply or notification of the   *)
(* server is one step, in any order; what an await of the adapter lets     *)
(* happen in between is a step of its own.  Approvals and questions are in *)
(* Interactions; here they only make the turn refuse input.                *)
(***************************************************************************)
EXTENDS Integers, FiniteSets

CONSTANTS Steers,         \* numbers of the turn/steer calls, 1, 2, ...
          Children,       \* threads of subagents
          ChildTurns,     \* their turns
          ChildLimit,     \* threads linked (256 in the code)
          ChildTurnLimit  \* turns of children remembered (4096)

ASSUME CodexAssumption ==
  /\ Steers \subseteq Nat \ {0} /\ {"none", "unlinked"} \cap ChildTurns = {}
  /\ ChildLimit \in Nat /\ ChildTurnLimit \in Nat

VARIABLES
  codexStage,   \* "initialize", "thread", "turn", "running" or "done"
  codexBlocked, \* a question or an approval is open
  preparing,    \* a steering call validates the workspace
  steerSent,    \* number of turn/steer calls sent
  pendingSteer, \* the one whose reply is awaited, 0 for none
  steerOutcome, \* call -> "none", "accepted", "refused" or "uncertain"
  steerReply,   \* history: what the server replied to each call
  childTurn,    \* linked child -> its current turn, "none" between turns
  turnsSeen,    \* turns of children that were started or completed
  turnsEnded,   \* history: those whose completion was received
  codexEnd      \* what the turn returned: "none", "success" or "failure"

codexVars == <<codexStage, codexBlocked, preparing, steerSent, pendingSteer, steerOutcome, steerReply,
               childTurn, turnsSeen, turnsEnded, codexEnd>>
steerVars == <<preparing, steerSent, pendingSteer, steerOutcome, steerReply>>
childVars == <<childTurn, turnsSeen, turnsEnded>>

Unlinked == "unlinked"
Linked == {c \in Children : childTurn[c] # Unlinked}

CodexInit ==
  /\ codexStage = "initialize" /\ codexBlocked = FALSE
  /\ preparing = FALSE /\ steerSent = 0 /\ pendingSteer = 0
  /\ steerOutcome = [s \in Steers |-> "none"] /\ steerReply = [s \in Steers |-> "none"]
  /\ childTurn = [c \in Children |-> Unlinked] /\ turnsSeen = {} /\ turnsEnded = {}
  /\ codexEnd = "none"

(* rejectSteer: the awaited call is given up as uncertain.                 *)
SteerGivenUp ==
  /\ pendingSteer' = 0
  /\ steerOutcome' = [s \in Steers |-> IF s = pendingSteer THEN "uncertain" ELSE steerOutcome[s]]

(* dispose(): the end of the turn, of the process, or a protocol error.    *)
Disposes(how) ==
  /\ codexStage' = "done" /\ codexEnd' = IF codexEnd = "none" THEN how ELSE codexEnd
  /\ codexBlocked' = FALSE
  /\ SteerGivenUp /\ UNCHANGED <<preparing, steerSent, steerReply>>
  /\ UNCHANGED childVars

(* The replies of the start.  The workspace and the signal are looked at   *)
(* again after each; a mismatch of session, turn or workspace ends it.     *)
StartReply(stage, next) ==
  /\ codexStage = stage
  /\ \/ codexStage' = next /\ UNCHANGED <<codexBlocked, codexEnd>> /\ UNCHANGED steerVars
          /\ UNCHANGED childVars
     \/ Disposes("failure")
Starts == StartReply("initialize", "thread") \/ StartReply("thread", "turn") \/ StartReply("turn", "running")

(* Requests of the server: questions and approvals open and end.           *)
CodexInteraction ==
  /\ codexStage = "running" /\ codexBlocked' = ~codexBlocked
  /\ UNCHANGED <<codexStage, codexEnd>> /\ UNCHANGED steerVars /\ UNCHANGED childVars
(* serverRequest/resolved of the open question ends the turn.              *)
QuestionCancelled == codexStage = "running" /\ codexBlocked /\ Disposes("failure")

TurnCompleted ==
  /\ codexStage = "running"
  /\ \E how \in {"success", "failure"} : Disposes(how)
Disposed == codexStage # "done" /\ Disposes("failure")

----------------------------------------------------------------------------
(* The steering handler: refuses unless the turn is free for input, before *)
(* and after it has validated the workspace.                               *)
FreeForInput == codexStage = "running" /\ ~codexBlocked /\ pendingSteer = 0

CodexSteerBegins ==
  /\ FreeForInput /\ ~preparing
  /\ preparing' = TRUE
  /\ UNCHANGED <<codexStage, codexBlocked, codexEnd, steerSent, pendingSteer, steerOutcome, steerReply>>
  /\ UNCHANGED childVars
CodexSteerSends ==
  /\ preparing /\ preparing' = FALSE
  /\ IF FreeForInput /\ steerSent + 1 \in Steers
     THEN steerSent' = steerSent + 1 /\ pendingSteer' = steerSent'
     ELSE UNCHANGED <<steerSent, pendingSteer>>
  /\ UNCHANGED <<codexStage, codexBlocked, codexEnd, steerOutcome, steerReply>>
  /\ UNCHANGED childVars

(* 15 s without a reply, or a failed write.                                *)
SteerTimesOut ==
  /\ pendingSteer # 0
  /\ SteerGivenUp
  /\ UNCHANGED <<codexStage, codexBlocked, codexEnd, preparing, steerSent, steerReply>>
  /\ UNCHANGED childVars

(* Mutant: any reply to a steering call settles the one that is awaited.   *)
ReplySettlesAny(s) == pendingSteer # 0
ReplySettles(s) == pendingSteer = s

(* A reply: the turn's own id, a proper error (refused: SteeringNotSent),  *)
(* or anything else.  A late one, of a call given up, is dropped.          *)
SteerReplied(s, reply) ==
  /\ s <= steerSent /\ steerReply[s] = "none" /\ codexStage = "running"
  /\ steerReply' = [steerReply EXCEPT ![s] = reply]
  /\ IF ReplySettles(s)
     THEN steerOutcome' = [steerOutcome EXCEPT ![pendingSteer] = reply] /\ pendingSteer' = 0
     ELSE UNCHANGED <<steerOutcome, pendingSteer>>
  /\ UNCHANGED <<codexStage, codexBlocked, codexEnd, preparing, steerSent>>
  /\ UNCHANGED childVars

----------------------------------------------------------------------------
(* Children are linked by an item of the root, and only then heard.        *)
ChildLinked(c) ==
  /\ codexStage = "running"
  /\ IF c \in Linked THEN UNCHANGED codexVars
     ELSE IF Cardinality(Linked) >= ChildLimit THEN Disposes("failure")
     ELSE /\ childTurn' = [childTurn EXCEPT ![c] = "none"]
          /\ UNCHANGED <<codexStage, codexBlocked, codexEnd, turnsSeen, turnsEnded>>
          /\ UNCHANGED steerVars

(* turn/started of a child: a turn seen before is not started again.       *)
ChildStarted(c, t) ==
  /\ codexStage = "running" /\ c \in Linked /\ <<c, t>> \notin turnsSeen
  /\ IF Cardinality(turnsSeen) >= ChildTurnLimit THEN Disposes("failure")
     ELSE /\ turnsSeen' = turnsSeen \cup {<<c, t>>}
          /\ childTurn' = [childTurn EXCEPT ![c] = t]
          /\ UNCHANGED <<codexStage, codexBlocked, codexEnd, turnsEnded>>
          /\ UNCHANGED steerVars

(* Mutant: the completion of a turn that was not started is forgotten.     *)
RememberedStarted(c, t) == turnsSeen
Remembered(c, t) == turnsSeen \cup {<<c, t>>}

(* turn/completed of a child: only that of its current turn counts, but    *)
(* every one is remembered, since its start may still come.                *)
ChildCompleted(c, t) ==
  /\ codexStage = "running" /\ c \in Linked
  /\ IF <<c, t>> \notin turnsSeen /\ Cardinality(turnsSeen) >= ChildTurnLimit THEN Disposes("failure")
     ELSE /\ turnsSeen' = Remembered(c, t)
          /\ turnsEnded' = turnsEnded \cup {<<c, t>>}
          /\ childTurn' = IF childTurn[c] = t THEN [childTurn EXCEPT ![c] = "none"] ELSE childTurn
          /\ UNCHANGED <<codexStage, codexBlocked, codexEnd>>
          /\ UNCHANGED steerVars

(* thread/closed of a child.                                               *)
ChildClosed(c) ==
  /\ codexStage = "running" /\ c \in Linked
  /\ childTurn' = [childTurn EXCEPT ![c] = "none"]
  /\ UNCHANGED <<codexStage, codexBlocked, codexEnd, turnsSeen, turnsEnded>>
  /\ UNCHANGED steerVars

CodexNext ==
  \/ Starts \/ CodexInteraction \/ QuestionCancelled \/ TurnCompleted \/ Disposed
  \/ CodexSteerBegins \/ CodexSteerSends \/ SteerTimesOut
  \/ \E s \in Steers, reply \in {"accepted", "refused", "uncertain"} : SteerReplied(s, reply)
  \/ \E c \in Children : \/ ChildLinked(c) \/ ChildClosed(c)
                         \/ \E t \in ChildTurns : ChildStarted(c, t) \/ ChildCompleted(c, t)

CodexSpec == CodexInit /\ [][CodexNext]_codexVars

----------------------------------------------------------------------------
CodexTypeOK ==
  /\ codexStage \in {"initialize", "thread", "turn", "running", "done"}
  /\ codexBlocked \in BOOLEAN /\ preparing \in BOOLEAN
  /\ steerSent \in Nat /\ pendingSteer \in Steers \cup {0}
  /\ steerOutcome \in [Steers -> {"none", "accepted", "refused", "uncertain"}]
  /\ steerReply \in [Steers -> {"none", "accepted", "refused", "uncertain"}]
  /\ childTurn \in [Children -> ChildTurns \cup {"none", Unlinked}]
  /\ turnsSeen \subseteq Children \X ChildTurns /\ turnsEnded \subseteq turnsSeen
  /\ codexEnd \in {"none", "success", "failure"}

(* The fate of a steered message is that of its own call: it counts as     *)
(* taken or refused only by the reply to it, and when none came in time it *)
(* stays uncertain, whatever comes later.                                  *)
SteersAnsweredByTheirReply ==
  \A s \in Steers : steerOutcome[s] \in {"accepted", "refused"} => steerReply[s] = steerOutcome[s]

(* A child shown at work is at work: no order of its frames leaves it in a *)
(* turn that has been reported as completed.                               *)
ChildNotRevived == \A c \in Children : <<c, childTurn[c]>> \notin turnsEnded

(* Both, whatever is late: replies to a steer, frames of a child.          *)
CodexFrames == SteersAnsweredByTheirReply /\ ChildNotRevived
=============================================================================
