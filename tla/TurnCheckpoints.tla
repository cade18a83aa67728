--------------------------- MODULE TurnCheckpoints ---------------------------
(***************************************************************************)
(* What a turn changed: FileTurnChangesStore (infrastructure/projects/     *)
(* turn-changes.ts) keeps two commits per turn in the project's repository *)
(* under refs of their own, made by a helper process (turn-git-helper.ts), *)
(* and names them in a record on disk, <turn>.start and then <turn>.end.   *)
(* One call works at a time.  A turn is captured once at its start and     *)
(* once at its end, so that a commit is named by its turn and side.        *)
(***************************************************************************)
EXTENDS Sequences, FiniteSets, Naturals

CONSTANTS ChangeTurns,
          CallLimit,       \* calls in line (2 * activeTasks in the code)
          ChangeRestarts   \* bound: restarts

ASSUME CheckpointAssumption == CallLimit \in Nat /\ ChangeRestarts \in Nat

VARIABLES
  capturedTurn,  \* turn -> "new", "start", "working", "end" or "over"
  callLine,      \* serial: the turns whose calls are pending, the first works
  captureStep,   \* where the first one is
  startRecords,  \* turns with a .start
  endRecord,     \* turn -> "none", "git" or "unavailable": its .end
  turnRefs,      \* turn -> sides with a ref
  spoilt,        \* turns whose clean-up failed or was cut short
  changeRestarts

checkpointVars == <<capturedTurn, callLine, captureStep, startRecords, endRecord, turnRefs,
                    spoilt, changeRestarts>>
fileVars == <<startRecords, endRecord, turnRefs, spoilt>>

CheckpointInit ==
  /\ capturedTurn = [t \in ChangeTurns |-> "new"] /\ callLine = <<>> /\ captureStep = "reading"
  /\ startRecords = {} /\ endRecord = [t \in ChangeTurns |-> "none"]
  /\ turnRefs = [t \in ChangeTurns |-> {}] /\ spoilt = {} /\ changeRestarts = 0

Side(t) == IF capturedTurn[t] = "start" THEN "before" ELSE "after"
Capturing(step) == callLine # <<>> /\ captureStep = step
Captured == Head(callLine)
StepGoes(step) == captureStep' = step /\ UNCHANGED <<capturedTurn, callLine>>

(* The end of owned(): the turn goes on, or is over, and the next call     *)
(* works.                                                                  *)
EndsCall ==
  /\ capturedTurn' = [capturedTurn EXCEPT ![Captured] = IF @ = "start" THEN "working" ELSE "over"]
  /\ callLine' = Tail(callLine) /\ captureStep' = "reading"

----------------------------------------------------------------------------
(* Mutant: the limit of calls is not looked at.                            *)
CallCaptureUnbounded(t) ==
  /\ capturedTurn[t] \in {"new", "working"}
  /\ callLine' = Append(callLine, t)
  /\ capturedTurn' = [capturedTurn EXCEPT ![t] = IF @ = "new" THEN "start" ELSE "end"]
  /\ UNCHANGED <<captureStep, fileVars, changeRestarts>>

(* captureStart and captureEnd, the latter only of a turn that has not     *)
(* been stopped; a turn whose call is refused has no changes to show.      *)
CallCapture(t) ==
  /\ capturedTurn[t] \in {"new", "working"}
  /\ IF Len(callLine) < CallLimit
     THEN /\ callLine' = Append(callLine, t)
          /\ capturedTurn' = [capturedTurn EXCEPT ![t] = IF @ = "new" THEN "start" ELSE "end"]
     ELSE capturedTurn' = [capturedTurn EXCEPT ![t] = "over"] /\ UNCHANGED callLine
  /\ UNCHANGED <<captureStep, fileVars, changeRestarts>>

TurnStopped(t) ==
  /\ capturedTurn[t] = "working" /\ capturedTurn' = [capturedTurn EXCEPT ![t] = "over"]
  /\ UNCHANGED <<callLine, captureStep, fileVars, changeRestarts>>

(* A turn with an .end is done.  The end needs the .start, which may fail  *)
(* to be read.                                                             *)
ReadsRecords ==
  /\ Capturing("reading")
  /\ IF endRecord[Captured] # "none" THEN EndsCall
     ELSE \/ StepGoes("failing")
          \/ (Side(Captured) = "after" => Captured \in startRecords) /\ StepGoes("capturing")
  /\ UNCHANGED <<fileVars, changeRestarts>>

(* The helper reads the files into a commit and journals it before it      *)
(* makes the ref; at the end the ref of the start must still be there.     *)
Prepares ==
  /\ Capturing("capturing")
  /\ \/ /\ Side(Captured) \notin turnRefs[Captured]
        /\ Side(Captured) = "after" => "before" \in turnRefs[Captured]
        /\ StepGoes("prepared")
     \/ StepGoes("failing")
  /\ UNCHANGED <<fileVars, changeRestarts>>

(* update-ref, and the answer of the helper, which may be lost on the way. *)
MakesRef ==
  /\ Capturing("prepared")
  /\ \/ /\ turnRefs' = [turnRefs EXCEPT ![Captured] = @ \cup {Side(Captured)}]
        /\ StepGoes("answered") \/ StepGoes("unanswered")
     \/ StepGoes("unanswered") /\ UNCHANGED turnRefs
  /\ UNCHANGED <<startRecords, endRecord, spoilt, changeRestarts>>

(* The record of the turn is there; the .start goes with the .end.         *)
RecordLinked ==
  /\ IF Side(Captured) = "before"
     THEN startRecords' = startRecords \cup {Captured} /\ UNCHANGED endRecord
     ELSE /\ startRecords' \in {startRecords, startRecords \ {Captured}}
          /\ endRecord' = [endRecord EXCEPT ![Captured] = "git"]
  /\ UNCHANGED spoilt

(* Mutant: a record that may have been published is undone as well.        *)
WritesRecordUndone ==
  /\ Capturing("answered")
  /\ \/ RecordLinked /\ (EndsCall \/ StepGoes("undoing"))
     \/ StepGoes("undoing") /\ UNCHANGED <<startRecords, endRecord, spoilt>>
  /\ UNCHANGED <<turnRefs, changeRestarts>>

(* write: up to the link a failure is undone; from there on the record may *)
(* be published, and its ref stays whatever is answered.                   *)
WritesRecord ==
  /\ Capturing("answered")
  /\ \/ RecordLinked /\ EndsCall
     \/ EndsCall /\ spoilt' = spoilt \cup {Captured} /\ UNCHANGED <<startRecords, endRecord>>
     \/ StepGoes("undoing") /\ UNCHANGED <<startRecords, endRecord, spoilt>>
  /\ UNCHANGED <<turnRefs, changeRestarts>>

(* cleanup: the ref of exactly this capture, unless it fails.              *)
Cleanup ==
  \/ turnRefs' = [turnRefs EXCEPT ![Captured] = @ \ {Side(Captured)}] /\ UNCHANGED spoilt
  \/ spoilt' = spoilt \cup {Captured} /\ UNCHANGED turnRefs

(* runTurnGit: no answer, so that the journal, if it can be read, tells    *)
(* which ref to take back ...                                              *)
UndoesJournaled ==
  /\ Capturing("unanswered") /\ StepGoes("failing") /\ Cleanup
  /\ UNCHANGED <<startRecords, endRecord, changeRestarts>>

(* ... and with an answer, that of a capture that comes to no record.      *)
Undoes ==
  /\ Capturing("undoing") /\ StepGoes("failing") /\ Cleanup
  /\ UNCHANGED <<startRecords, endRecord, changeRestarts>>

(* The changes are recorded as unavailable, if that can be written.        *)
GivesUp ==
  /\ Capturing("failing") /\ EndsCall
  /\ \/ endRecord' = [endRecord EXCEPT ![Captured] = IF @ = "none" THEN "unavailable" ELSE @]
     \/ UNCHANGED endRecord
  /\ UNCHANGED <<startRecords, turnRefs, spoilt, changeRestarts>>

(* The turns of a runner that died are never captured again.               *)
RestartChanges ==
  /\ changeRestarts < ChangeRestarts /\ changeRestarts' = changeRestarts + 1
  /\ capturedTurn' = [t \in ChangeTurns |-> IF capturedTurn[t] = "new" THEN "new" ELSE "over"]
  /\ spoilt' = IF callLine = <<>> THEN spoilt ELSE spoilt \cup {Captured}
  /\ callLine' = <<>> /\ captureStep' = "reading"
  /\ UNCHANGED <<startRecords, endRecord, turnRefs>>

CheckpointNext ==
  \/ \E t \in ChangeTurns : CallCapture(t) \/ TurnStopped(t)
  \/ ReadsRecords \/ Prepares \/ MakesRef \/ WritesRecord \/ UndoesJournaled \/ Undoes \/ GivesUp \/ RestartChanges

CheckpointSpec == CheckpointInit /\ [][CheckpointNext]_checkpointVars

----------------------------------------------------------------------------
(* summary() and diff(): the two commits, when their refs are still those  *)
(* of the record.                                                          *)
Shown(t) ==
  IF endRecord[t] = "git" /\ turnRefs[t] = {"before", "after"} THEN "ready" ELSE "unavailable"

CheckpointTypeOK ==
  /\ capturedTurn \in [ChangeTurns -> {"new", "start", "working", "end", "over"}]
  /\ callLine \in Seq(ChangeTurns) /\ Len(callLine) <= CallLimit
  /\ captureStep \in {"reading", "capturing", "prepared", "answered", "unanswered",
                     "undoing", "failing"}
  /\ startRecords \in SUBSET ChangeTurns /\ spoilt \in SUBSET ChangeTurns
  /\ endRecord \in [ChangeTurns -> {"none", "git", "unavailable"}]
  /\ turnRefs \in [ChangeTurns -> SUBSET {"before", "after"}]
  /\ changeRestarts \in 0..ChangeRestarts

(* No clean-up after a failure, a lost answer or a crash takes a commit    *)
(* that a record names: the start can still be completed, the changes      *)
(* recorded can be shown.  And no ref stays without its record, for there  *)
(* is room for 1024, unless its clean-up failed or its record may exist.   *)
CheckpointsKept ==
  \A t \in ChangeTurns :
    /\ t \in startRecords => "before" \in turnRefs[t]
    /\ endRecord[t] = "git" => Shown(t) = "ready"
    /\ (t \notin spoilt /\ capturedTurn[t] \notin {"start", "end"}) =>
         /\ "before" \in turnRefs[t] => t \in startRecords \/ endRecord[t] = "git"
         /\ "after" \in turnRefs[t] => endRecord[t] = "git"
=============================================================================
