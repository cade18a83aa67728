------------------------------ MODULE ReadSlots ------------------------------
(***************************************************************************)
(* Reads of attachments: trackedRead of FileAttachmentStore (infrastructure*)
(* /files/index.ts) lets few of them hold a blob at a time, for downloads, *)
(* of which AttachmentController admits few, and for the executions that   *)
(* stage their inputs.  A download reads the metadata, then the content,   *)
(* and then sends what it has read to a client that may be slow or gone.   *)
(***************************************************************************)
EXTENDS SequencesExt

CONSTANTS Readers,
          DownloadReaders, \* those behind the AttachmentController
          ReadSlotLimit,   \* readSlots (2 in the code)
          ReadWaits,       \* waitingReads (2 * activeTasks in the code)
          DownloadLimit    \* downloads (2 in the code)

ASSUME ReadAssumption ==
  DownloadReaders \subseteq Readers /\ ReadSlotLimit \in Nat /\ ReadWaits \in Nat /\ DownloadLimit \in Nat

VARIABLES
  reader,      \* reader -> "none", "asking", "waiting", "reading", "sending" or "over"
  readsDone,   \* reader -> reads it has behind it
  readSlots,
  readLine,
  downloads,
  storeClosed

readVars == <<reader, readsDone, readSlots, readLine, downloads, storeClosed>>

ReadsInit ==
  /\ reader = [r \in Readers |-> "none"] /\ readsDone = [r \in Readers |-> 0]
  /\ readSlots = 0 /\ readLine = <<>> /\ downloads = 0 /\ storeClosed = FALSE

(* The end of a request gives its admission back.                          *)
Over(r, others) ==
  /\ reader' = [others EXCEPT ![r] = "over"]
  /\ downloads' = IF r \in DownloadReaders THEN downloads - 1 ELSE downloads

----------------------------------------------------------------------------
AdmitReader(r) ==
  /\ reader[r] = "none"
  /\ IF r \in DownloadReaders /\ downloads >= DownloadLimit
     THEN reader' = [reader EXCEPT ![r] = "over"] /\ UNCHANGED downloads
     ELSE /\ reader' = [reader EXCEPT ![r] = "asking"]
          /\ downloads' = IF r \in DownloadReaders THEN downloads + 1 ELSE downloads
  /\ UNCHANGED <<readsDone, readSlots, readLine, storeClosed>>

(* trackedRead up to its await: full lines and closed stores refuse.       *)
AsksToRead(r) ==
  /\ reader[r] = "asking"
  /\ IF storeClosed \/ Len(readLine) >= ReadWaits THEN Over(r, reader) /\ UNCHANGED <<readSlots, readLine>>
     ELSE /\ IF readSlots < ReadSlotLimit
             THEN /\ readSlots' = readSlots + 1 /\ reader' = [reader EXCEPT ![r] = "reading"]
                  /\ UNCHANGED readLine
             ELSE /\ readLine' = Append(readLine, r) /\ reader' = [reader EXCEPT ![r] = "waiting"]
                  /\ UNCHANGED readSlots
          /\ UNCHANGED downloads
  /\ UNCHANGED <<readsDone, storeClosed>>

(* Who goes on after the read of r, and the slot it leaves.                *)
HandsOver ==
  IF storeClosed \/ readLine = <<>>
  THEN readSlots' = readSlots - 1 /\ UNCHANGED readLine
  ELSE readLine' = Tail(readLine) /\ UNCHANGED readSlots
Granted == IF storeClosed \/ readLine = <<>> THEN reader ELSE [reader EXCEPT ![Head(readLine)] = "reading"]

(* Mutant: a read that throws keeps its slot from those in line.           *)
ReadThrowsAlone(r) ==
  /\ reader[r] = "reading" /\ Over(r, reader)
  /\ readSlots' = readSlots - 1 /\ UNCHANGED <<readsDone, readLine, storeClosed>>

(* The read throws, or the store was closed meanwhile.                     *)
ReadThrows(r) ==
  /\ reader[r] = "reading" /\ HandsOver /\ Over(r, Granted)
  /\ UNCHANGED <<readsDone, storeClosed>>

(* It is done: a staging is over, a download goes on.                      *)
ReadReturns(r) ==
  /\ reader[r] = "reading" /\ ~storeClosed /\ HandsOver
  /\ readsDone' = [readsDone EXCEPT ![r] = @ + 1]
  /\ IF r \in DownloadReaders
     THEN /\ reader' = [Granted EXCEPT ![r] = IF readsDone[r] = 0 THEN "asking" ELSE "sending"]
          /\ UNCHANGED downloads
     ELSE Over(r, Granted)
  /\ UNCHANGED storeClosed

(* The response has finished, or the client is gone.                       *)
Sent(r) ==
  /\ reader[r] = "sending" /\ Over(r, reader)
  /\ UNCHANGED <<readsDone, readSlots, readLine, storeClosed>>

(* close(): those in line are rejected, those reading end by themselves.   *)
CloseStore ==
  /\ ~storeClosed /\ storeClosed' = TRUE /\ readLine' = <<>>
  /\ reader' = [r \in Readers |-> IF r \in ToSet(readLine) THEN "over" ELSE reader[r]]
  /\ downloads' = downloads - Cardinality(ToSet(readLine) \cap DownloadReaders)
  /\ UNCHANGED <<readsDone, readSlots>>

ReadsNext ==
  \/ \E r \in Readers : AdmitReader(r) \/ AsksToRead(r) \/ ReadThrows(r) \/ ReadReturns(r) \/ Sent(r)
  \/ CloseStore

ReadsSpec == ReadsInit /\ [][ReadsNext]_readVars

----------------------------------------------------------------------------
ReadsTypeOK ==
  /\ reader \in [Readers -> {"none", "asking", "waiting", "reading", "sending", "over"}]
  /\ readsDone \in [Readers -> 0..2] /\ readSlots \in 0..ReadSlotLimit
  /\ readLine \in Seq(Readers) /\ downloads \in 0..DownloadLimit /\ storeClosed \in BOOLEAN

(* The slots are those of the reads under way, nobody waits while one is   *)
(* free, whether reads return, throw or are cut off by the close, and the  *)
(* downloads counted are those whose response has not ended.               *)
ReadSlotsOwned ==
  /\ readSlots = Cardinality({r \in Readers : reader[r] = "reading"})
  /\ readLine # <<>> => readSlots = ReadSlotLimit
  /\ downloads = Cardinality({r \in DownloadReaders : reader[r] \notin {"none", "over"}})
=============================================================================
