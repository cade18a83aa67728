----------------------------- MODULE CliProcess -----------------------------
(***************************************************************************)
(* One run of a provider's command line: a child process of its own group, *)
(* whose output is stored piece by piece while its pipes are held, and     *)
(* that is stopped, with all it started, when it is cancelled, runs out of *)
(* time or its output cannot be kept                                       *)
(* (infrastructure/execution/process-runner.ts). A piece of output is the  *)
(* number of pieces its channel wrote before it, and one.                  *)
(***************************************************************************)
EXTENDS Naturals, Sequences, FiniteSets

CONSTANTS Channels, PiecesWritten, OutputPieces

ASSUME CliAssumption == PiecesWritten \in Nat /\ OutputPieces \in Nat

VARIABLES
  cli,          \* the child: "running", "exited", "closed"
  offspring,    \* processes it started run: in its group, found by the tree, or lost to both
  written,      \* the pieces each channel wrote
  consumed,     \* the pieces taken from each channel
  heldBack,     \* the channels that are paused
  line,         \* delivery: the pieces being stored, in order
  kept,         \* the pieces that were stored
  failure,      \* why the run failed, or "none"
  stopAsked,    \* the run was cancelled or its time was up
  cliResult     \* what the run resolved to

cliVars == <<cli, offspring, written, consumed, heldBack, line, kept, failure, stopAsked, cliResult>>

Reasons == {"none", "cancelled", "execution_timeout", "provider_unavailable",
            "output_limit_exceeded", "output_persistence_failed", "process_cleanup_failed"}

CliTypeOK ==
  /\ cli \in {"running", "exited", "closed"}
  /\ offspring \subseteq {"group", "tree", "lost"}
  /\ written \in [Channels -> 0..PiecesWritten] /\ consumed \in [Channels -> 0..PiecesWritten]
  /\ heldBack \subseteq Channels
  /\ line \in Seq(Channels \X Nat) /\ kept \in Seq(Channels \X Nat)
  /\ failure \in Reasons /\ stopAsked \in BOOLEAN
  /\ cliResult \in Reasons \cup {"pending"}

CliInit ==
  /\ cli = "running" /\ offspring = {}
  /\ written = [c \in Channels |-> 0] /\ consumed = [c \in Channels |-> 0]
  /\ heldBack = {} /\ line = <<>> /\ kept = <<>>
  /\ failure = "none" /\ stopAsked = FALSE /\ cliResult = "pending"

First(reason) == IF failure = "none" THEN reason ELSE failure

(* killGroup: the tree of the child and its group are killed; where that   *)
(* cannot be done the run has failed for that reason.  A process that left *)
(* the group and escapes the walks over the tree outlives a kill that does *)
(* not fail (ProcessTree: KillIsComplete).                                 *)
KillGroup(reason) ==
  \/ /\ offspring' = offspring \cap {"lost"} /\ failure' = reason
  \/ /\ offspring' \in SUBSET offspring /\ failure' = "process_cleanup_failed"

-----------------------------------------------------------------------------
(* The program: it starts others, writes, and ends.                        *)
Spawn ==
  /\ cli = "running" \/ offspring # {}
  /\ \E where \in {"group", "tree", "lost"} :
       /\ cli # "running" /\ offspring = {"lost"} => where = "lost"
       /\ offspring' = offspring \cup {where}
  /\ UNCHANGED <<cli, written, consumed, heldBack, line, kept, failure, stopAsked, cliResult>>

Writes(c) ==
  /\ cli # "closed" /\ (cli = "running" \/ offspring # {}) /\ written[c] < PiecesWritten
  /\ written' = [written EXCEPT ![c] = @ + 1]
  /\ UNCHANGED <<cli, offspring, consumed, heldBack, line, kept, failure, stopAsked, cliResult>>

(* The child ends, or never ran: nothing it started may outlive it.        *)
ChildExits ==
  /\ cli = "running" /\ cli' = "exited"
  /\ \E reason \in {failure, First("provider_unavailable")} : KillGroup(reason)
  /\ UNCHANGED <<written, consumed, heldBack, line, kept, stopAsked, cliResult>>

(* stop: the abort signal or the timer. What is killed may take a moment   *)
(* to end.                                                                 *)
Stops(reason) ==
  /\ cli # "closed" /\ stopAsked' = TRUE
  /\ KillGroup(First(reason))
  /\ UNCHANGED <<cli, written, consumed, heldBack, line, kept, cliResult>>

(* The tracking of the tree keeps failing.                                 *)
TrackingFails ==
  /\ cli # "closed" /\ KillGroup(First("process_cleanup_failed"))
  /\ UNCHANGED <<cli, written, consumed, heldBack, line, kept, stopAsked, cliResult>>

-----------------------------------------------------------------------------
(* The next piece of a channel: dropped after a failure, otherwise the     *)
(* channel is held until the piece is stored.                              *)
Takes(c) ==
  /\ c \notin heldBack /\ consumed[c] < written[c]
  /\ consumed' = [consumed EXCEPT ![c] = @ + 1]
  /\ \/ failure # "none" /\ UNCHANGED <<offspring, failure, heldBack, line>>
     \/ /\ failure = "none" /\ Len(kept) + Len(line) >= OutputPieces
        /\ KillGroup("output_limit_exceeded") /\ UNCHANGED <<heldBack, line>>
     \/ /\ failure = "none" /\ Len(kept) + Len(line) < OutputPieces
        /\ heldBack' = heldBack \cup {c}
        /\ line' = Append(line, <<c, consumed[c] + 1>>)
        /\ UNCHANGED <<offspring, failure>>
  /\ UNCHANGED <<cli, written, kept, stopAsked, cliResult>>

(* The oldest piece was stored, or could not be; its channel flows again.  *)
Stores ==
  /\ line # <<>>
  /\ line' = Tail(line) /\ heldBack' = heldBack \ {Head(line)[1]}
  /\ \/ kept' = Append(kept, Head(line)) /\ UNCHANGED <<offspring, failure>>
     \/ UNCHANGED kept /\ KillGroup(First("output_persistence_failed"))
  /\ UNCHANGED <<cli, written, consumed, stopAsked, cliResult>>

(* close: both pipes have ended and been read; what is left of the tree    *)
(* holds neither of them.                                                  *)
PipesClose ==
  /\ cli = "exited" /\ heldBack = {} /\ consumed = written
  /\ cli' = "closed" /\ KillGroup(failure)
  /\ UNCHANGED <<written, consumed, heldBack, line, kept, stopAsked, cliResult>>

(* Mutant: the run resolves as soon as the child is gone.                  *)
ResolvesAtOnce ==
  /\ cli # "running" /\ cliResult = "pending" /\ cliResult' = failure
  /\ UNCHANGED <<cli, offspring, written, consumed, heldBack, line, kept, failure, stopAsked>>

(* The run resolves after the pieces under way and the tails are stored.   *)
RunResolves ==
  /\ cli = "closed" /\ line = <<>> /\ cliResult = "pending"
  /\ failure' \in IF failure = "none" THEN {"none", "output_persistence_failed"} ELSE {failure}
  /\ cliResult' = failure'
  /\ UNCHANGED <<cli, offspring, written, consumed, heldBack, line, kept, stopAsked>>

CliNext ==
  \/ Spawn \/ ChildExits \/ Stops("cancelled") \/ Stops("execution_timeout") \/ TrackingFails
  \/ Stores \/ PipesClose \/ RunResolves
  \/ \E c \in Channels : Writes(c) \/ Takes(c)

CliSpec == CliInit /\ [][CliNext]_cliVars

-----------------------------------------------------------------------------
(* What the result of a run means: nothing is stored after it; without an  *)
(* error every piece of output was stored, in the order of its channel,    *)
(* nothing the program started is left but what the kill could not find,   *)
(* and nobody had asked it to stop.                                        *)
ResultTellsAll ==
  /\ cliResult # "pending" => line = <<>>
  /\ cliResult = "none" =>
       /\ \A c \in Channels : \A n \in 1..written[c] : \E i \in 1..Len(kept) : kept[i] = <<c, n>>
       /\ \A i, j \in 1..Len(kept) : i < j /\ kept[i][1] = kept[j][1] => kept[i][2] < kept[j][2]
       /\ \A i \in 1..Len(kept) : kept[i][2] \in 1..written[kept[i][1]]
       /\ offspring \subseteq {"lost"} /\ ~stopAsked
=============================================================================
