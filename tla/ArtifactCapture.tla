--------------------------- MODULE ArtifactCapture ---------------------------
(***************************************************************************)
(* Snapshots of the files a turn produced: ArtifactService                 *)
(* (application/artifact-service.ts) over the private copies of            *)
(* FileArtifactBlobs and the rows of ArtifactDatabase.  One capture works  *)
(* at a time, those of the provider's output wait in line until their      *)
(* deadline.  Every capture has an id of its own, which names its blob;    *)
(* blobs are of size one here.                                             *)
(***************************************************************************)
EXTENDS SequencesExt

CONSTANTS Captures,      \* calls of capture(), and the ids they draw
          OutputCaptures,\* those of captureOutput(); the others are of register()
          Paths,         \* the files captured, one of each turn
          CaptureWaits,  \* captures in line (63 in the code)
          BlobLimit,     \* bytes kept (storageBytes in the code)
          ArtifactRestarts  \* bound: restarts

ASSUME CaptureAssumption ==
  /\ Captures \subseteq Nat \ {0} /\ OutputCaptures \subseteq Captures
  /\ CaptureWaits \in Nat /\ BlobLimit \in Nat /\ ArtifactRestarts \in Nat

VARIABLES
  turn,        \* path -> its turn: "running", "ended" or "superseded" by a newer one
  capture,     \* id -> its stage
  pathOf,      \* id -> the path it captures
  capturing,   \* active: the slot is taken
  waitingLine, \* captures that wait for it
  overdue,     \* captures whose deadline has passed
  blobs,       \* ids with a file
  retained,    \* the bytes FileArtifactBlobs counts
  artifactOf,  \* path -> id of its row, 0 for none
  storageDown, \* the storage died, possibly after a commit
  artifactRestarts

captureVars == <<turn, capture, pathOf, capturing, waitingLine, overdue, blobs, retained,
                 artifactOf, storageDown, artifactRestarts>>

CaptureStages == {"none", "waiting", "looking", "reading", "writing", "storing", "removing", "done"}
CaptureAt(c, stage) == capture[c] = stage
CaptureGoes(c, stage) == capture' = [capture EXCEPT ![c] = stage]
AtWork == {c \in Captures : capture[c] \notin {"none", "waiting", "done"}}

CaptureInit ==
  /\ turn = [p \in Paths |-> "running"] /\ capture = [c \in Captures |-> "none"]
  /\ pathOf \in [Captures -> Paths] /\ capturing = FALSE /\ waitingLine = <<>> /\ overdue = {}
  /\ blobs = {} /\ retained = 0 /\ artifactOf = [p \in Paths |-> 0]
  /\ storageDown = FALSE /\ artifactRestarts = 0

(* release(): the next in line is granted the slot, or it is free.         *)
EndsCapture(c, others) ==
  IF waitingLine = <<>>
  THEN capture' = [others EXCEPT ![c] = "done"] /\ capturing' = FALSE /\ UNCHANGED waitingLine
  ELSE /\ capture' = [others EXCEPT ![c] = "done", ![Head(waitingLine)] = "looking"]
       /\ waitingLine' = Tail(waitingLine) /\ UNCHANGED capturing

----------------------------------------------------------------------------
(* acquire(): only captures of the output wait.  captureOutput goes        *)
(* through the paths of its running turn one after the other.              *)
Acquires(c) ==
  /\ CaptureAt(c, "none")
  /\ c \in OutputCaptures =>
       /\ turn[pathOf[c]] = "running"
       /\ \A d \in OutputCaptures \ {c} : pathOf[d] = pathOf[c] => capture[d] \in {"none", "done"}
  /\ \/ ~capturing /\ capturing' = TRUE /\ CaptureGoes(c, "looking") /\ UNCHANGED waitingLine
     \/ /\ capturing /\ c \in OutputCaptures /\ Len(waitingLine) < CaptureWaits
        /\ CaptureGoes(c, "waiting") /\ waitingLine' = Append(waitingLine, c) /\ UNCHANGED capturing
     \/ capturing /\ CaptureGoes(c, "done") /\ UNCHANGED <<capturing, waitingLine>>
  /\ UNCHANGED <<turn, pathOf, overdue, blobs, retained, artifactOf, storageDown, artifactRestarts>>

(* Mutant: an expired capture stays in line.                               *)
ExpiresInLine(c) ==
  /\ c \notin overdue /\ capture[c] \notin {"none", "done"} /\ overdue' = overdue \cup {c}
  /\ IF CaptureAt(c, "waiting") THEN CaptureGoes(c, "done") ELSE UNCHANGED capture
  /\ UNCHANGED <<turn, pathOf, capturing, waitingLine, blobs, retained, artifactOf, storageDown, artifactRestarts>>

(* The deadline: one that waits leaves the line, one at work finds out.    *)
Expires(c) ==
  /\ c \notin overdue /\ capture[c] \notin {"none", "done"} /\ overdue' = overdue \cup {c}
  /\ IF CaptureAt(c, "waiting")
     THEN CaptureGoes(c, "done") /\ waitingLine' = RemoveFirst(waitingLine, c)
     ELSE UNCHANGED <<capture, waitingLine>>
  /\ UNCHANGED <<turn, pathOf, capturing, blobs, retained, artifactOf, storageDown, artifactRestarts>>

(* getTask, normalize and findArtifact, with a look at the deadline after  *)
(* each: the turn is at its completion or over, and has no snapshot yet.   *)
Looks(c) ==
  /\ CaptureAt(c, "looking")
  /\ \/ /\ c \notin overdue /\ ~storageDown /\ artifactOf[pathOf[c]] = 0
        /\ turn[pathOf[c]] = "running" => c \in OutputCaptures
        /\ CaptureGoes(c, "reading") /\ UNCHANGED <<capturing, waitingLine>>
     \/ EndsCapture(c, capture)
  /\ UNCHANGED <<turn, pathOf, overdue, blobs, retained, artifactOf, storageDown, artifactRestarts>>

(* WorkspaceArtifactReader.capture: not behind a newer turn.               *)
ReadsFile(c) ==
  /\ CaptureAt(c, "reading")
  /\ \/ /\ c \notin overdue /\ turn[pathOf[c]] # "superseded" /\ ~storageDown
        /\ CaptureGoes(c, "writing") /\ UNCHANGED <<capturing, waitingLine>>
     \/ EndsCapture(c, capture)
  /\ UNCHANGED <<turn, pathOf, overdue, blobs, retained, artifactOf, storageDown, artifactRestarts>>

(* blobs.put: its bytes count before its first await; a failure takes them *)
(* back and unlinks the file, which may fail as well.                      *)
WritesBlob(c) ==
  /\ CaptureAt(c, "writing")
  /\ \/ /\ retained < BlobLimit /\ retained' = retained + 1 /\ blobs' = blobs \cup {c}
        /\ CaptureGoes(c, IF c \in overdue THEN "removing" ELSE "storing")
        /\ UNCHANGED <<capturing, waitingLine>>
     \/ /\ EndsCapture(c, capture) /\ UNCHANGED retained
        /\ blobs' = blobs \/ (retained < BlobLimit /\ blobs' = blobs \cup {c})
  /\ UNCHANGED <<turn, pathOf, overdue, artifactOf, storageDown, artifactRestarts>>

(* putArtifact: a transaction, whose answer may be lost with the storage.  *)
StoresRow(c) ==
  /\ CaptureAt(c, "storing")
  /\ LET p == pathOf[c] IN
       \/ /\ ~storageDown /\ artifactOf[p] = 0 /\ turn[p] # "superseded"
          /\ artifactOf' = [artifactOf EXCEPT ![p] = c]
          /\ \/ EndsCapture(c, capture) /\ UNCHANGED storageDown
             \/ CaptureGoes(c, "removing") /\ storageDown' = TRUE /\ UNCHANGED <<capturing, waitingLine>>
       \/ /\ CaptureGoes(c, "removing") /\ storageDown' \in {storageDown, TRUE}
          /\ UNCHANGED <<artifactOf, capturing, waitingLine>>
  /\ UNCHANGED <<turn, pathOf, overdue, blobs, retained, artifactRestarts>>

(* The copy of a capture that has not created the row, or has thrown, is   *)
(* removed, or cannot be.                                                  *)
RemovesBlob(c) ==
  /\ CaptureAt(c, "removing")
  /\ \/ blobs' = blobs \ {c} /\ retained' = retained - 1
     \/ UNCHANGED <<blobs, retained>>
  /\ EndsCapture(c, capture)
  /\ UNCHANGED <<turn, pathOf, overdue, artifactOf, storageDown, artifactRestarts>>

----------------------------------------------------------------------------
(* A turn ends once its output has been captured or the deadline of that   *)
(* is over, whoever still works; a newer turn may follow.                  *)
TurnGoesOn(p) ==
  /\ \/ /\ turn[p] = "running" /\ turn' = [turn EXCEPT ![p] = "ended"]
        /\ \A c \in OutputCaptures : pathOf[c] = p => capture[c] \in {"none", "done"} \/ c \in overdue
     \/ turn[p] = "ended" /\ turn' = [turn EXCEPT ![p] = "superseded"]
  /\ UNCHANGED <<capture, pathOf, capturing, waitingLine, overdue, blobs, retained, artifactOf,
                 storageDown, artifactRestarts>>

(* A crash and FileArtifactBlobs.open: files without a row go.             *)
RestartArtifacts ==
  /\ artifactRestarts < ArtifactRestarts /\ artifactRestarts' = artifactRestarts + 1
  /\ storageDown' = FALSE /\ capturing' = FALSE /\ waitingLine' = <<>>
  /\ capture' = [c \in Captures |-> IF capture[c] = "none" THEN "none" ELSE "done"]
  /\ blobs' = {c \in blobs : artifactOf[pathOf[c]] = c} /\ retained' = Cardinality(blobs')
  /\ turn' = [p \in Paths |-> IF turn[p] = "running" THEN "ended" ELSE turn[p]]
  /\ UNCHANGED <<pathOf, overdue, artifactOf>>

CaptureNext ==
  \/ \E c \in Captures : Acquires(c) \/ Expires(c) \/ Looks(c) \/ ReadsFile(c) \/ WritesBlob(c)
                         \/ StoresRow(c) \/ RemovesBlob(c)
  \/ (\E p \in Paths : TurnGoesOn(p)) \/ RestartArtifacts

CaptureSpec == CaptureInit /\ [][CaptureNext]_captureVars

----------------------------------------------------------------------------
CaptureTypeOK ==
  /\ turn \in [Paths -> {"running", "ended", "superseded"}] /\ capture \in [Captures -> CaptureStages]
  /\ pathOf \in [Captures -> Paths] /\ capturing \in BOOLEAN
  /\ waitingLine \in Seq(OutputCaptures) /\ overdue \in SUBSET Captures
  /\ blobs \in SUBSET Captures /\ retained \in Int
  /\ artifactOf \in [Paths -> Captures \cup {0}]
  /\ storageDown \in BOOLEAN /\ artifactRestarts \in 0..ArtifactRestarts

(* The slot is neither leaked nor shared when captures expire in line, at  *)
(* work or while they are granted it, and the bytes on the account never   *)
(* overrun the quota, whatever part of a capture fails.                    *)
CaptureSlotOwned ==
  /\ Cardinality(AtWork) = IF capturing THEN 1 ELSE 0
  /\ \A k \in DOMAIN waitingLine : capturing /\ CaptureAt(waitingLine[k], "waiting")
  /\ \A c \in Captures : CaptureAt(c, "waiting") => c \in ToSet(waitingLine)
  /\ retained \in 0..BlobLimit

(* "Snapshots are immutable and remain available after restart" (docs/     *)
(* api.md): a row that is shown has its blob.                              *)
SnapshotsAvailable == \A p \in Paths : artifactOf[p] # 0 => artifactOf[p] \in blobs
=============================================================================
