----------------------------- MODULE ClaudeTurn -----------------------------
(***************************************************************************)
(* The Claude side of a running turn: createClaudeProtocol                 *)
(* (infrastructure/execution/claude-interactive.ts) with                   *)
(* domain/claude-background-tasks.ts.  It sends the prompt, takes steered  *)
(* messages as commands of the CLI, and decides from the frames of the CLI *)
(* when the turn is over: several results may come, background tasks may   *)
(* outlive a result.  Each frame is one step, in any order the CLI likes.  *)
(* Approvals and questions of the turn are in Interactions; here they only *)
(* make the turn refuse input.                                             *)
(***************************************************************************)
EXTENDS Integers, FiniteSets

CONSTANTS Commands,      \* steered messages written to the CLI
          BackgroundTasks,
          CommandLimit,  \* commands not settled (32 in the code)
          MaxResults     \* bound: results of the turn

ASSUME ClaudeAssumption == CommandLimit \in Nat /\ MaxResults \in Nat

VARIABLES
  claudeStage,    \* "initialize", "prompt", "session": what the CLI has answered
  lifecycle,      \* the CLI reports the life cycle of commands
  promptStarted,
  generation,     \* resultGeneration
  lastSuccess,    \* a successful result is held back
  command,        \* command -> its state
  steerCall,      \* the call of the handler: "none" or the command it prepares
  blocked,        \* an approval or a question is open
  liveTasks, endedTasks,
  claudeDone,     \* done
  claudeEnd,      \* the last terminal value returned: "none", "success", "failure"
  seen            \* history: what the CLI said of each command

claudeVars == <<claudeStage, lifecycle, promptStarted, generation, lastSuccess, command, steerCall,
                blocked, liveTasks, endedTasks, claudeDone, claudeEnd, seen>>
turnVars == <<claudeStage, lifecycle, promptStarted, blocked>>

(* startedAt is -1 for undefined; "kept" is in the map: written, and       *)
(* acknowledged or not; "gone" is deleted from it.                         *)
CommandStates == {"unused", "kept", "gone"}
NewCommand == [state |-> "unused", acknowledged |-> FALSE, startedAt |-> 0 - 1, completed |-> FALSE]
InMap == {c \in Commands : command[c].state = "kept"}

ClaudeInit ==
  /\ claudeStage = "initialize" /\ lifecycle = FALSE /\ promptStarted = FALSE
  /\ generation = 0 /\ lastSuccess = FALSE
  /\ command = [c \in Commands |-> NewCommand]
  /\ steerCall = "none" /\ blocked = FALSE /\ liveTasks = {} /\ endedTasks = {}
  /\ claudeDone = FALSE /\ claudeEnd = "none"
  /\ seen = [c \in Commands |-> {}]

(* clearCommands: what was not acknowledged is rejected.                   *)
Cleared == [c \in Commands |-> IF c \in InMap THEN [command[c] EXCEPT !.state = "gone"] ELSE command[c]]
Ends(how) == claudeDone' = TRUE /\ claudeEnd' = how
GoesOn == UNCHANGED <<claudeDone, claudeEnd>>

(* Mutant: a completed command is settled whether or not a result followed.*)
SettledAtOnce(cs, g) ==
  [c \in Commands |-> IF cs[c].state = "kept" /\ cs[c].completed
                     THEN [cs[c] EXCEPT !.state = "gone"] ELSE cs[c]]

(* settleCompleted: completed, and a result came after it had started.     *)
Settled(cs, g) ==
  [c \in Commands |-> IF cs[c].state = "kept" /\ cs[c].completed /\ cs[c].startedAt # 0 - 1
                           /\ g > cs[c].startedAt
                     THEN [cs[c] EXCEPT !.state = "gone"] ELSE cs[c]]
Kept(cs) == {c \in Commands : cs[c].state = "kept"}

(* A result held back is returned once nothing keeps the turn open.        *)
ReturnsLastSuccess(cs) == lastSuccess /\ Kept(cs) = {} /\ liveTasks = {}

----------------------------------------------------------------------------
(* Frames of the start: initialize is answered, then the session is known. *)
Initialized ==
  /\ claudeStage = "initialize" /\ claudeStage' = "prompt"
  /\ UNCHANGED <<lifecycle, promptStarted, generation, lastSuccess, command, steerCall, blocked,
                 liveTasks, endedTasks, claudeDone, claudeEnd, seen>>
SessionKnown ==
  /\ claudeStage = "prompt" /\ claudeStage' = "session"
  /\ UNCHANGED <<lifecycle, promptStarted, generation, lastSuccess, command, steerCall, blocked,
                 liveTasks, endedTasks, claudeDone, claudeEnd, seen>>

(* command_lifecycle of the prompt itself.                                 *)
PromptLifecycle ==
  /\ claudeStage # "initialize"
  /\ \/ \E started \in BOOLEAN :
          /\ lifecycle' = TRUE /\ promptStarted' = (promptStarted \/ started)
          /\ GoesOn /\ UNCHANGED command
     \/ Ends("failure") /\ command' = Cleared /\ UNCHANGED <<lifecycle, promptStarted>>
  /\ UNCHANGED <<claudeStage, generation, lastSuccess, steerCall, blocked, liveTasks, endedTasks, seen>>

(* Approvals and questions come and go.                                    *)
Interaction ==
  /\ claudeStage = "session" /\ blocked' = ~blocked
  /\ UNCHANGED <<claudeStage, lifecycle, promptStarted, generation, lastSuccess, command, steerCall,
                 liveTasks, endedTasks, claudeDone, claudeEnd, seen>>

----------------------------------------------------------------------------
(* The steering handler: registered once the session and the life cycle    *)
(* of commands are known; reads the files, looks again, then writes.  A    *)
(* command the CLI does not acknowledge in time stays in the map.          *)
MaySteer == claudeStage = "session" /\ lifecycle /\ ~claudeDone /\ ~blocked
SteerBegins(c) ==
  /\ MaySteer /\ steerCall = "none" /\ command[c].state = "unused"
  /\ Cardinality(InMap) < CommandLimit
  /\ steerCall' = c
  /\ UNCHANGED turnVars
  /\ UNCHANGED <<generation, lastSuccess, command, liveTasks, endedTasks, claudeDone, claudeEnd, seen>>
SteerWrites ==
  /\ steerCall # "none" /\ steerCall' = "none"
  /\ command' = IF MaySteer THEN [command EXCEPT ![steerCall].state = "kept"] ELSE command
  /\ UNCHANGED turnVars
  /\ UNCHANGED <<generation, lastSuccess, liveTasks, endedTasks, claudeDone, claudeEnd, seen>>

(* command_lifecycle of a steered message: any state, in any order.        *)
CommandReported(c, state) ==
  LET now == [command[c] EXCEPT !.acknowledged = TRUE,
                !.startedAt = IF state = "started" /\ @ = 0 - 1 THEN generation ELSE @,
                !.completed = @ \/ state = "completed"]
      cs == Settled([command EXCEPT ![c] = now], generation)
  IN /\ c \in InMap
     /\ command' = cs
     /\ seen' = [seen EXCEPT ![c] = @ \cup {state}]
     /\ IF ReturnsLastSuccess(cs) THEN Ends("success") ELSE GoesOn
     /\ UNCHANGED turnVars
     /\ UNCHANGED <<generation, lastSuccess, steerCall, liveTasks, endedTasks>>

(* cancelled, discarded or refused: SteeringNotSent before, and a failed   *)
(* turn after the CLI had acknowledged it.                                 *)
CommandRefused(c) ==
  /\ c \in InMap
  /\ IF command[c].acknowledged
     THEN Ends("failure") /\ command' = Cleared
     ELSE LET cs == [command EXCEPT ![c].state = "gone"] IN
            /\ command' = cs
            /\ IF ReturnsLastSuccess(cs) THEN Ends("success") ELSE GoesOn
  /\ UNCHANGED turnVars
  /\ UNCHANGED <<generation, lastSuccess, steerCall, liveTasks, endedTasks, seen>>

----------------------------------------------------------------------------
(* ClaudeBackgroundTasks.observe.                                          *)

TaskStarted(b) ==
  /\ claudeStage = "session"
  /\ liveTasks' = IF b \in endedTasks THEN liveTasks ELSE liveTasks \cup {b}
  /\ UNCHANGED endedTasks
  /\ UNCHANGED turnVars
  /\ UNCHANGED <<generation, lastSuccess, command, steerCall, claudeDone, claudeEnd, seen>>
TaskEnded(b) ==
  /\ claudeStage = "session"
  /\ liveTasks' = liveTasks \ {b} /\ endedTasks' = endedTasks \cup {b}
  /\ UNCHANGED turnVars
  /\ UNCHANGED <<generation, lastSuccess, command, steerCall, claudeDone, claudeEnd, seen>>

----------------------------------------------------------------------------
(* A result while a question is open ends the turn.                        *)
ResultUnanswered ==
  /\ claudeStage = "session" /\ blocked /\ blocked' = FALSE
  /\ Ends("failure")
  /\ UNCHANGED <<claudeStage, lifecycle, promptStarted, generation, lastSuccess, command, steerCall,
                 liveTasks, endedTasks, seen>>

(* A result of the turn; that of a notification replayed before the prompt *)
(* has started is ignored.  A success is held back while commands or       *)
(* background tasks are not done with.                                     *)
ResultArrives(success) ==
  LET cs == Settled(command, generation + 1) IN
  /\ claudeStage = "session" /\ generation < MaxResults
  /\ promptStarted' = TRUE /\ generation' = generation + 1
  /\ command' = cs
  /\ seen' = [c \in Commands |-> IF "started" \in seen[c] THEN seen[c] \cup {"result"} ELSE seen[c]]
  /\ lastSuccess' = (lastSuccess \/ success)
  /\ IF success /\ (Kept(cs) # {} \/ liveTasks # {}) THEN GoesOn
     ELSE Ends(IF success THEN "success" ELSE "failure")
  /\ UNCHANGED <<claudeStage, lifecycle, steerCall, blocked, liveTasks, endedTasks>>

(* The process ends or is aborted: everything is given up.                 *)
Dispose ==
  /\ claudeDone' = TRUE /\ command' = Cleared /\ blocked' = FALSE
  /\ UNCHANGED <<claudeStage, lifecycle, promptStarted, generation, lastSuccess, steerCall,
                 liveTasks, endedTasks, claudeEnd, seen>>

ClaudeNext ==
  \/ Initialized \/ SessionKnown \/ PromptLifecycle \/ Interaction \/ SteerWrites
  \/ ResultUnanswered \/ Dispose
  \/ \E c \in Commands : \/ SteerBegins(c) \/ CommandRefused(c)
                         \/ \E state \in {"queued", "started", "completed"} : CommandReported(c, state)
  \/ \E b \in BackgroundTasks : TaskStarted(b) \/ TaskEnded(b)
  \/ \E success \in BOOLEAN : ResultArrives(success)

ClaudeSpec == ClaudeInit /\ [][ClaudeNext]_claudeVars

----------------------------------------------------------------------------
ClaudeTypeOK ==
  /\ claudeStage \in {"initialize", "prompt", "session"}
  /\ {lifecycle, promptStarted, lastSuccess, blocked, claudeDone} \subseteq BOOLEAN
  /\ generation \in 0..MaxResults
  /\ command \in [Commands -> [state: CommandStates, acknowledged: BOOLEAN,
                               startedAt: (0 - 1)..MaxResults, completed: BOOLEAN]]
  /\ steerCall \in Commands \cup {"none"}
  /\ liveTasks \subseteq BackgroundTasks /\ endedTasks \subseteq BackgroundTasks
  /\ claudeEnd \in {"none", "success", "failure"}
  /\ seen \in [Commands -> SUBSET {"queued", "started", "completed", "result"}]

(* A turn does not end well over work it has accepted: when a success is   *)
(* returned, no background task that was started is without an end, and    *)
(* each steered message the CLI acknowledged was completed and has had a   *)
(* result after it had started.                                            *)
Answered(c) == {"started", "completed", "result"} \subseteq seen[c]
EndsWithWorkDone ==
  [][claudeEnd' = "success" /\ claudeEnd # "success" /\ ~claudeDone =>
       /\ liveTasks' = {}
       /\ \A c \in Commands : command[c].acknowledged \/ command'[c].acknowledged => Answered(c)']_claudeVars

=============================================================================
