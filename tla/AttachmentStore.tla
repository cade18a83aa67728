--------------------------- MODULE AttachmentStore ---------------------------
(***************************************************************************)
(* Uploaded attachments: the blobs of FileAttachmentStore                  *)
(* (infrastructure/files/index.ts) and their rows in AttachmentDatabase    *)
(* (infrastructure/sqlite/attachment-database.ts), which are two stores    *)
(* that no transaction covers.  The client chooses the id, an upload may   *)
(* be aborted at each of its looks at the signal, and either store may     *)
(* fail or lose its answer.  Reads are ReadPool's; names, types and the    *)
(* temporary files are left out.                                           *)
(***************************************************************************)
EXTENDS Naturals, FiniteSets, SequencesExt

CONSTANTS Attachments,     \* ids
          Contents,        \* what a file contains
          UploadLimit,     \* uploads at a time (2 in the code)
          AttachmentLimit, \* rows kept (512 in the code)
          UploadRestarts   \* bound: restarts

ASSUME AttachmentAssumption ==
  /\ UploadLimit \in Nat /\ AttachmentLimit \in Nat /\ UploadRestarts \in Nat
  /\ Contents \cap {"none", "evicted"} = {}

VARIABLES
  upload,      \* id -> its upload in `active`, or NoUpload
  publishing,  \* the chain of exclusive(): the first one publishes
  discarding,  \* evicted ids whose blobs the publisher has still to unlink
  blob,        \* id -> content of <id>.blob, or "none"
  row,         \* id -> content, "none", or "evicted" (a row of no bytes)
  aged,        \* rows past the grace period
  pinnedBy,    \* id -> "none", "live" by a draft, queued or running turn, "past"
  uploadRestarts

uploadVars == <<upload, publishing, discarding, blob, row, aged, pinnedBy, uploadRestarts>>
databaseVars == <<row, aged, pinnedBy>>

NoUpload == [stage |-> "none", content |-> "none", published |-> FALSE]
UploadStages == {"receiving", "publishing", "verifying", "linking", "storing", "discarding", "rescuing"}
Uploading == {i \in Attachments : upload[i] # NoUpload}
Has(i)    == row[i] \in Contents
Goes(i, stage) == upload' = [upload EXCEPT ![i].stage = stage]
UploadAt(i, stage) == upload[i].stage = stage

AttachmentsInit ==
  /\ upload = [i \in Attachments |-> NoUpload] /\ publishing = <<>> /\ discarding = {}
  /\ blob = [i \in Attachments |-> "none"] /\ row = [i \in Attachments |-> "none"]
  /\ aged = {} /\ pinnedBy = [i \in Attachments |-> "none"] /\ uploadRestarts = 0

(* The upload leaves `active`, and the chain if it is in it.               *)
UploadOver(i) ==
  /\ upload' = [upload EXCEPT ![i] = NoUpload]
  /\ publishing' = RemoveFirst(publishing, i)

(* A failure after the link has to look whether the row was written.       *)
UploadFails(i) ==
  IF upload[i].published
  THEN Goes(i, "rescuing") /\ UNCHANGED publishing
  ELSE UploadOver(i)

----------------------------------------------------------------------------
(* admit(): busy for a second upload of an id, and beyond the limit.       *)
AdmitUpload(i, c) ==
  /\ i \notin Uploading /\ Cardinality(Uploading) < UploadLimit
  /\ upload' = [upload EXCEPT ![i] = [stage |-> "receiving", content |-> c, published |-> FALSE]]
  /\ UNCHANGED <<publishing, discarding, blob, databaseVars, uploadRestarts>>

(* receive() and inspect(): the bytes are on disk and valid, or it fails.  *)
ReceiveUpload(i) ==
  /\ UploadAt(i, "receiving")
  /\ \/ /\ Goes(i, "publishing") /\ publishing' = Append(publishing, i)
     \/ UploadOver(i)
  /\ UNCHANGED <<discarding, blob, databaseVars, uploadRestarts>>

(* Mutant: publications do not wait for each other.                        *)
PublishesAtOnce(i) == \E k \in DOMAIN publishing : publishing[k] = i
Publishes(i) == publishing # <<>> /\ Head(publishing) = i

(* publish() looks for a row: a retry of what is stored is verified.       *)
LookUp(i) ==
  /\ Publishes(i) /\ UploadAt(i, "publishing")
  /\ \/ Has(i) /\ row[i] = upload[i].content /\ Goes(i, "verifying")
                                             /\ UNCHANGED publishing
     \/ ~Has(i) /\ Goes(i, "linking") /\ UNCHANGED publishing
     \/ UploadOver(i)     \* conflict, abort or a failing storage
  /\ UNCHANGED <<discarding, blob, databaseVars, uploadRestarts>>

(* verifyStored: the upload ends with the row, or finds the blob damaged.  *)
VerifyStored(i) ==
  /\ Publishes(i) /\ UploadAt(i, "verifying") /\ UploadOver(i)
  /\ UNCHANGED <<discarding, blob, databaseVars, uploadRestarts>>

(* link() never overwrites: a blob left by a crash is adopted if it has    *)
(* the same bytes, without owning it.                                      *)
LinkBlob(i) ==
  /\ Publishes(i) /\ UploadAt(i, "linking")
  /\ \/ /\ blob[i] = "none"
        /\ blob' = [blob EXCEPT ![i] = upload[i].content]
        /\ \E stage \in {"storing", "rescuing"} :   \* the latter when aborted since
             upload' = [upload EXCEPT ![i].stage = stage, ![i].published = TRUE]
        /\ UNCHANGED publishing
     \/ /\ blob[i] = upload[i].content /\ Goes(i, "storing")
        /\ UNCHANGED <<blob, publishing>>
     \/ UploadOver(i) /\ UNCHANGED blob
  /\ UNCHANGED <<discarding, databaseVars, uploadRestarts>>

(* Mutant: an attachment of a queued turn makes room too.                  *)
EvictableByAge(j) == Has(j) /\ j \in aged
(* What no live turn refers to, once its grace period is over.             *)
Evictable(j) == Has(j) /\ j \in aged /\ pinnedBy[j] # "live"

(* makeRoom(): the oldest ones, by count one, by bytes perhaps several.    *)
MakesRoom(E) ==
  LET kept == {j \in Attachments : Has(j)} IN
    IF Cardinality(kept) < AttachmentLimit THEN E = {}
    ELSE E # {} /\ (\A j \in E : Evictable(j)) /\ Cardinality(kept \ E) < AttachmentLimit
RowEvicted(j) == IF pinnedBy[j] = "none" THEN "none" ELSE "evicted"

(* putAttachment(), one transaction; the answer may be lost after it.      *)
PutAttachment(i) ==
  /\ Publishes(i) /\ UploadAt(i, "storing")
  /\ \/ UploadFails(i) /\ UNCHANGED <<discarding, row, aged>>
     \/ \E E \in SUBSET Attachments :
          /\ ~Has(i) /\ MakesRoom(E)
          /\ row' = [j \in Attachments |-> IF j = i THEN upload[i].content
                                           ELSE IF j \in E THEN RowEvicted(j) ELSE row[j]]
          /\ aged' = aged \ (E \cup {i})
          /\ \/ Goes(i, "discarding") /\ discarding' = E /\ UNCHANGED publishing
             \/ UploadFails(i) /\ UNCHANGED discarding
  /\ UNCHANGED <<blob, pinnedBy, uploadRestarts>>

(* discard(): the blobs of the evicted rows go, each if it can be unlinked.*)
Discard(i, j) ==
  /\ Publishes(i) /\ UploadAt(i, "discarding") /\ j \in discarding
  /\ discarding' = discarding \ {j}
  /\ blob' \in {blob, [blob EXCEPT ![j] = "none"]}
  /\ UNCHANGED <<upload, publishing, databaseVars, uploadRestarts>>
Published(i) ==
  /\ Publishes(i) /\ UploadAt(i, "discarding") /\ discarding = {} /\ UploadOver(i)
  /\ UNCHANGED <<discarding, blob, databaseVars, uploadRestarts>>

(* Mutant: what a failed publication linked is removed in any case.        *)
RescueRemoves(i) ==
  /\ Publishes(i) /\ UploadAt(i, "rescuing") /\ UploadOver(i)
  /\ blob' = [blob EXCEPT ![i] = "none"]
  /\ UNCHANGED <<discarding, databaseVars, uploadRestarts>>

(* The catch of publish(): a blob whose row may have been committed stays. *)
Rescue(i) ==
  /\ Publishes(i) /\ UploadAt(i, "rescuing") /\ UploadOver(i)
  /\ \/ ~Has(i) /\ blob' = [blob EXCEPT ![i] = "none"]
     \/ UNCHANGED blob
  /\ UNCHANGED <<discarding, databaseVars, uploadRestarts>>

----------------------------------------------------------------------------
(* A turn, a pending message or a steered one refers to the attachment,    *)
(* which it must find stored; later none of them is live any more.         *)
ReferTo(i) ==
  /\ Has(i) /\ pinnedBy[i] # "live" /\ pinnedBy' = [pinnedBy EXCEPT ![i] = "live"]
  /\ UNCHANGED <<upload, publishing, discarding, blob, row, aged, uploadRestarts>>
TurnOver(i) ==
  /\ pinnedBy[i] = "live" /\ pinnedBy' = [pinnedBy EXCEPT ![i] = "past"]
  /\ UNCHANGED <<upload, publishing, discarding, blob, row, aged, uploadRestarts>>
GraceEnds(i) ==
  /\ Has(i) /\ i \notin aged /\ aged' = aged \cup {i}
  /\ UNCHANGED <<upload, publishing, discarding, blob, row, pinnedBy, uploadRestarts>>

(* A crash, and createAttachmentStore: stale blobs without a row go.       *)
RestartUploads ==
  /\ uploadRestarts < UploadRestarts /\ uploadRestarts' = uploadRestarts + 1
  /\ upload' = [i \in Attachments |-> NoUpload] /\ publishing' = <<>> /\ discarding' = {}
  /\ \E stale \in SUBSET {i \in Attachments : ~Has(i)} :
       blob' = [i \in Attachments |-> IF i \in stale THEN "none" ELSE blob[i]]
  /\ UNCHANGED databaseVars

AttachmentsNext ==
  \/ RestartUploads
  \/ \E i \in Attachments :
       \/ \E c \in Contents : AdmitUpload(i, c)
       \/ ReceiveUpload(i) \/ LookUp(i) \/ VerifyStored(i) \/ LinkBlob(i) \/ PutAttachment(i)
       \/ (\E j \in Attachments : Discard(i, j)) \/ Published(i) \/ Rescue(i)
       \/ ReferTo(i) \/ TurnOver(i) \/ GraceEnds(i)

AttachmentsSpec == AttachmentsInit /\ [][AttachmentsNext]_uploadVars

----------------------------------------------------------------------------
AttachmentsTypeOK ==
  /\ upload \in [Attachments -> [stage: UploadStages, content: Contents, published: BOOLEAN] \cup {NoUpload}]
  /\ publishing \in Seq(Attachments) /\ discarding \in SUBSET Attachments
  /\ blob \in [Attachments -> Contents \cup {"none"}]
  /\ row \in [Attachments -> Contents \cup {"none", "evicted"}]
  /\ aged \in SUBSET Attachments
  /\ pinnedBy \in [Attachments -> {"none", "live", "past"}] /\ uploadRestarts \in 0..UploadRestarts

(* A row has its blob, with the bytes it describes, at every moment: while *)
(* it is published, retried, evicted, uploaded again under the same id,    *)
(* and after a crash between the two stores; and what a live turn refers   *)
(* to has its row.                                                         *)
RowsHaveBlobs ==
  \A i \in Attachments : /\ Has(i) => blob[i] = row[i]
                         /\ pinnedBy[i] = "live" => Has(i)
=============================================================================
