--------------------------- MODULE InstructionFiles ---------------------------
(***************************************************************************)
(* The instruction files of a turn in the workspace it runs in:            *)
(* FileInstructionWorkspace (infrastructure/files/instruction-workspace.ts)*)
(* over one workspace, which users and providers edit at any time.  Its    *)
(* manifest records by hash what the runner wrote: `files`, and between    *)
(* the journal and the commit also `pending`, what it is about to write.   *)
(* A text is a number, 0 where there is no file.                           *)
(***************************************************************************)
EXTENDS SequencesExt

CONSTANTS InstructionPaths, Applies,
          InstructionTexts, \* of the snapshots
          UserText,         \* a text of no snapshot
          SyncCapacity,     \* calls in the InstructionSyncQueue (64 in the code)
          EditLimit, InstructionRestarts \* bounds

ASSUME InstructionAssumption ==
  /\ InstructionTexts \subseteq Nat \ {0} /\ UserText \in Nat \ (InstructionTexts \cup {0})
  /\ SyncCapacity \in Nat /\ EditLimit \in Nat /\ InstructionRestarts \in Nat

VARIABLES
  isolation,  \* "in-place" or "worktree"
  text,       \* path -> what is in the workspace
  author,     \* path -> "none", "runner", "user", "git" for a tracked file as checked out, or
              \* "adopted" for a user's file in a worktree that was as asked, or as Git has it,
              \* when it went on record
  manifest,   \* [files, pending: path -> text or 0, journal: pending is there]
  apply,      \* call -> "none", "waiting" or "over"; the first in line works
  applyLine,
  syncStep,   \* where the working call is
  next,       \* path -> text its snapshot asks for
  observed,   \* path -> text it has read
  borrowed,   \* paths of the user that already are as asked
  all,        \* paths it has to do with
  left,       \* those it has not handled in this step
  target,     \* the one it is about to replace
  raced,      \* paths edited since the last look at the target
  touched,    \* paths ever edited
  edits, instructionRestarts

instructionVars == <<isolation, text, author, manifest, apply, applyLine, syncStep, next, observed,
                     borrowed, all, left, target, raced, touched, edits, instructionRestarts>>
plannedVars == <<next, observed, borrowed, all>>
outsideVars == <<isolation, touched, edits, instructionRestarts>>

Blank == [p \in InstructionPaths |-> 0]
Present(texts) == {p \in InstructionPaths : texts[p] # 0}
(* managedPaths: what Git operations leave out.                            *)
Managed == Present(manifest.files) \cup Present(manifest.pending)
At(step) == applyLine # <<>> /\ syncStep = step

InstructionInit ==
  /\ isolation \in {"in-place", "worktree"}
  /\ text \in [InstructionPaths -> {0, UserText} \cup InstructionTexts]
  /\ author = [p \in InstructionPaths |-> IF text[p] = 0 THEN "none"
                                          ELSE IF isolation = "worktree" THEN "git" ELSE "user"]
  /\ manifest = [files |-> Blank, pending |-> Blank, journal |-> FALSE]
  /\ apply = [a \in Applies |-> "none"] /\ applyLine = <<>> /\ syncStep = "granted"
  /\ next = Blank /\ observed = Blank /\ borrowed = {} /\ all = {} /\ left = {} /\ target = {}
  /\ raced = {} /\ touched = {}
  /\ edits = 0 /\ instructionRestarts = 0

(* The call returns or throws; the permit goes to the next.                *)
EndsApply ==
  /\ apply' = [apply EXCEPT ![Head(applyLine)] = "over"]
  /\ applyLine' = Tail(applyLine) /\ syncStep' = "granted"
  /\ next' = Blank /\ observed' = Blank /\ borrowed' = {} /\ all' = {} /\ left' = {} /\ target' = {}
  /\ raced' = {}

SyncGoes(step) == syncStep' = step /\ UNCHANGED <<apply, applyLine>>

----------------------------------------------------------------------------
(* InstructionSyncQueue.acquire, and an abort in line.                     *)
CallApply(a) ==
  /\ apply[a] = "none"
  /\ IF Len(applyLine) < SyncCapacity
     THEN apply' = [apply EXCEPT ![a] = "waiting"] /\ applyLine' = Append(applyLine, a)
     ELSE apply' = [apply EXCEPT ![a] = "over"] /\ UNCHANGED applyLine
  /\ UNCHANGED <<text, author, manifest, syncStep, plannedVars, left, target, raced, outsideVars>>

LeavesLine(a) ==
  /\ apply[a] = "waiting" /\ applyLine[1] # a
  /\ apply' = [apply EXCEPT ![a] = "over"] /\ applyLine' = RemoveFirst(applyLine, a)
  /\ UNCHANGED <<text, author, manifest, syncStep, plannedVars, left, target, raced, outsideVars>>

(* An abort, an I/O error or a workspace replaced under the call, at any   *)
(* point of it.                                                            *)
ApplyFails ==
  /\ applyLine # <<>> /\ EndsApply
  /\ UNCHANGED <<text, author, manifest, outsideVars>>

ReadsManifest ==
  /\ At("granted") /\ SyncGoes("observing")
  /\ next' \in [InstructionPaths -> {0} \cup InstructionTexts]
  /\ all' = Managed \cup Present(next') /\ left' = all'
  /\ UNCHANGED <<text, author, manifest, observed, borrowed, target, raced, outsideVars>>

(* Mutant: a user's file that is as asked becomes the runner's.            *)
ObservesAsOwn(p) ==
  /\ At("observing") /\ p \in left /\ left' = left \ {p}
  /\ IF p \in Managed
     THEN text[p] = manifest.files[p] \/ (manifest.journal /\ text[p] = manifest.pending[p])
     ELSE text[p] # 0 => text[p] = next[p] \/ (isolation = "worktree" /\ author[p] = "git")
  /\ observed' = [observed EXCEPT ![p] = text[p]]
  /\ UNCHANGED <<text, author, manifest, apply, applyLine, syncStep, next, borrowed, all, target, raced, outsideVars>>

(* What is on record is as on record, what is not is absent, as asked or,  *)
(* in a worktree, as Git has it; anything else is a conflict (ApplyFails). *)
Observes(p) ==
  /\ At("observing") /\ p \in left /\ left' = left \ {p}
  /\ IF p \in Managed
     THEN /\ text[p] = manifest.files[p] \/ (manifest.journal /\ text[p] = manifest.pending[p])
          /\ UNCHANGED borrowed
     ELSE /\ text[p] # 0 => text[p] = next[p] \/ (isolation = "worktree" /\ author[p] = "git")
          /\ borrowed' = IF text[p] # 0 /\ isolation = "in-place" THEN borrowed \cup {p} ELSE borrowed
  /\ observed' = [observed EXCEPT ![p] = text[p]]
  /\ UNCHANGED <<text, author, manifest, apply, applyLine, syncStep, next, all, target, raced, outsideVars>>

Ours(texts) == [p \in InstructionPaths |-> IF p \in borrowed THEN 0 ELSE texts[p]]

(* In a worktree everything that was found goes on record: what Git had is *)
(* the runner's from then on, what a user wrote just so is adopted.        *)
AuthorsRecorded ==
  LET Found(p) == isolation = "worktree" /\ observed[p] # 0 /\ text[p] = observed[p] IN
  [p \in InstructionPaths |->
     CASE Found(p) /\ author[p] = "git" -> "runner"
       [] Found(p) /\ author[p] = "user" -> "adopted"
       [] OTHER -> author[p]]

(* Mutant: the journal names only what is to come.                         *)
WritesJournalAhead ==
  /\ At("observing") /\ left = {} /\ SyncGoes("applying")
  /\ manifest' = [files |-> Blank, pending |-> Ours(next), journal |-> TRUE]
  /\ author' = AuthorsRecorded /\ left' = all
  /\ UNCHANGED <<text, plannedVars, target, raced, outsideVars>>

WritesJournal ==
  /\ At("observing") /\ left = {} /\ SyncGoes("applying")
  /\ manifest' = [files |-> Ours(observed), pending |-> Ours(next), journal |-> TRUE]
  /\ author' = AuthorsRecorded /\ left' = all
  /\ UNCHANGED <<text, plannedVars, target, raced, outsideVars>>

(* The last look before a path is written or removed.                      *)
LooksAgain(p) ==
  /\ At("applying") /\ p \in left /\ text[p] = observed[p]
  /\ left' = left \ {p}
  /\ IF observed[p] = next[p] THEN UNCHANGED <<syncStep, target, raced>>
     ELSE syncStep' = "replacing" /\ target' = {p} /\ raced' = {}
  /\ UNCHANGED <<text, author, manifest, apply, applyLine, plannedVars, outsideVars>>

(* durableWrite's rename, or the unlink of durableRemove.                  *)
Replaces(p) ==
  /\ At("replacing") /\ p \in target /\ target' = {} /\ SyncGoes("applying")
  /\ text' = [text EXCEPT ![p] = next[p]]
  /\ author' = [author EXCEPT ![p] = IF next[p] = 0 THEN "none" ELSE "runner"]
  /\ UNCHANGED <<manifest, plannedVars, left, raced, outsideVars>>

Verifies ==
  /\ At("applying") /\ left = {} /\ SyncGoes("verified")
  /\ \A p \in all : text[p] = next[p]
  /\ UNCHANGED <<text, author, manifest, plannedVars, left, target, raced, outsideVars>>

(* The manifest without the journal ends the call.                         *)
CommitsManifest ==
  /\ At("verified") /\ EndsApply
  /\ manifest' = [files |-> Ours(next), pending |-> Blank, journal |-> FALSE]
  /\ UNCHANGED <<text, author, outsideVars>>

----------------------------------------------------------------------------
(* A user or a provider edits a file, to no bytes that are on record or    *)
(* about to be written: nobody could tell those from the runner's.         *)
Edit(p, t) ==
  /\ edits < EditLimit /\ edits' = edits + 1 /\ t # text[p]
  /\ t # 0 => t \notin {manifest.files[p], manifest.pending[p], next[p]}
  /\ text' = [text EXCEPT ![p] = t]
  /\ author' = [author EXCEPT ![p] = IF t = 0 THEN "none" ELSE "user"]
  /\ raced' = raced \cup ({p} \cap target) /\ touched' = touched \cup {p}
  /\ UNCHANGED <<isolation, manifest, apply, applyLine, syncStep, plannedVars, left, target, instructionRestarts>>

(* A crash between two steps: the workspace and the manifest stay.         *)
RestartInstructions ==
  /\ instructionRestarts < InstructionRestarts /\ instructionRestarts' = instructionRestarts + 1
  /\ apply' = [a \in Applies |-> IF apply[a] = "none" THEN "none" ELSE "over"]
  /\ applyLine' = <<>> /\ syncStep' = "granted"
  /\ next' = Blank /\ observed' = Blank /\ borrowed' = {} /\ all' = {} /\ left' = {} /\ target' = {}
  /\ raced' = {}
  /\ UNCHANGED <<isolation, text, author, manifest, touched, edits>>

InstructionNext ==
  \/ \E a \in Applies : CallApply(a) \/ LeavesLine(a)
  \/ ApplyFails \/ ReadsManifest \/ WritesJournal \/ Verifies \/ CommitsManifest \/ RestartInstructions
  \/ \E p \in InstructionPaths :
       \/ Observes(p) \/ LooksAgain(p) \/ Replaces(p)
       \/ \E t \in {0, UserText} \cup InstructionTexts : Edit(p, t)

InstructionSpec == InstructionInit /\ [][InstructionNext]_instructionVars

----------------------------------------------------------------------------
InstructionTypeOK ==
  LET Texts == {0, UserText} \cup InstructionTexts IN
  /\ isolation \in {"in-place", "worktree"} /\ text \in [InstructionPaths -> Texts]
  /\ author \in [InstructionPaths -> {"none", "runner", "user", "git", "adopted"}]
  /\ manifest.files \in [InstructionPaths -> Texts] /\ manifest.pending \in [InstructionPaths -> Texts]
  /\ manifest.journal \in BOOLEAN /\ apply \in [Applies -> {"none", "waiting", "over"}]
  /\ applyLine \in Seq(Applies)
  /\ syncStep \in {"granted", "observing", "applying", "replacing", "verified"}
  /\ next \in [InstructionPaths -> Texts] /\ observed \in [InstructionPaths -> Texts]
  /\ borrowed \in SUBSET InstructionPaths /\ left \in SUBSET InstructionPaths
  /\ all \in SUBSET InstructionPaths /\ target \in SUBSET InstructionPaths
  /\ raced \in SUBSET InstructionPaths /\ touched \in SUBSET InstructionPaths
  /\ edits \in 0..EditLimit /\ instructionRestarts \in 0..InstructionRestarts

(* Every file the runner wrote or adopted is among those Git operations    *)
(* leave out, also between two writes, after an abort and after a crash;   *)
(* and what is on record is what is there, before or after the step that   *)
(* was cut short, so that the next call does not end in a conflict nobody  *)
(* caused.                                                                 *)
InstructionRecords ==
  \A p \in InstructionPaths :
    /\ author[p] \in {"runner", "adopted"} => p \in Managed
    /\ (p \in Managed /\ p \notin touched) =>
         text[p] = manifest.files[p] \/ (manifest.journal /\ text[p] = manifest.pending[p])

(* The runner replaces and removes no file of a user unless it is edited   *)
(* between the last look and the rename: in a shared checkout not even one *)
(* that reads as asked ("usable, but must never become ours").  In a       *)
(* worktree it may do so with a file that read exactly as asked, or as Git *)
(* has it, when it went on record, and that nobody has edited since.       *)
UserFilesKept ==
  [][\A p \in InstructionPaths :
       author[p] \in {"user", "adopted"} /\ text'[p] # text[p] /\ edits' = edits =>
         p \in raced \/ (isolation = "worktree" /\ author[p] = "adopted")]_instructionVars
=============================================================================
