---------------------------- MODULE MCComponents ----------------------------
(***************************************************************************)
(* One run of the components that share no state with each other: each     *)
(* behaviour is one of one component, and the others stay as they began.   *)
(***************************************************************************)
EXTENDS SteeringDelivery, ProcessTree, InteractiveProcess, ClaudeTurn, CodexTurn,
        SubagentLifecycle, ProjectClone, McpLogins, McpLoginProtocol, McpDeviceSync,
        AttachmentStore, ArtifactCapture, InstructionFiles, TurnCheckpoints, Terminals,
        SpeechSlot, ReadSlots, StorageCalls, CliProcess, CommandCatalog, PortScans,
        ChangeStream, ThreadMetadata

VARIABLE part

Parts == {"delivery", "tree", "invocation", "claude", "codex", "lifecycle", "clone",
          "login", "protocol", "sync", "attachments", "capture", "instructions",
          "checkpoints", "terminals", "speech", "reads", "storage", "cli", "catalog", "ports",
          "changes", "threads"}

componentVars == <<part, deliveryVars, treeVars, invocationVars, claudeVars, codexVars,
                   lifecycleVars, cloneVars, loginVars, protocolVars, syncVars, uploadVars,
                   captureVars, instructionVars, checkpointVars, terminalVars, speechVars,
                   readVars, storageVars, cliVars, catalogVars, portVars, streamVars, metadataVars>>

(* The components with a choice at the start make it only when they run.   *)
(* Of captures and terminals the first ones are each of their own place.   *)
ComponentsInit ==
  /\ part \in Parts
  /\ DeliveryInit /\ TreeInit /\ ClaudeInit /\ CodexInit /\ CloneInit /\ LoginInit
  /\ AttachmentsInit /\ CheckpointInit /\ SpeechInit /\ ReadsInit /\ StorageInit /\ CliInit
  /\ CatalogInit /\ PortInit /\ StreamInit /\ MetadataInit
  /\ InvocationInit /\ (part # "invocation" => completion = "result")
  /\ LifecycleInit /\ (part # "lifecycle" => stream = "codex")
  /\ ProtocolInit /\ (part # "protocol" => mcpMachine = CHOOSE m \in Machines : TRUE)
  /\ SyncInit /\ (part # "sync" => config = [n \in ServerNames |-> NoEntry])
  /\ CaptureInit /\ pathOf[1] = 1 /\ pathOf[2] = 2 /\ (part # "capture" => pathOf[3] = 1)
  /\ TerminalInit /\ place[1] = 1 /\ (part # "terminals" => place[2] = 1 /\ place[3] = 1)
  /\ InstructionInit /\ (part # "instructions" => /\ isolation = "worktree"
                                                   /\ text = [p \in InstructionPaths |-> 0])

ComponentsNext ==
  /\ UNCHANGED part
  /\ IF part = "delivery"     THEN DeliveryNext    ELSE UNCHANGED deliveryVars
  /\ IF part = "tree"         THEN TreeNext        ELSE UNCHANGED treeVars
  /\ IF part = "invocation"   THEN InvocationNext  ELSE UNCHANGED invocationVars
  /\ IF part = "claude"       THEN ClaudeNext      ELSE UNCHANGED claudeVars
  /\ IF part = "codex"        THEN CodexNext       ELSE UNCHANGED codexVars
  /\ IF part = "lifecycle"    THEN LifecycleNext   ELSE UNCHANGED lifecycleVars
  /\ IF part = "clone"        THEN CloneNext       ELSE UNCHANGED cloneVars
  /\ IF part = "login"        THEN LoginNext       ELSE UNCHANGED loginVars
  /\ IF part = "protocol"     THEN ProtocolNext    ELSE UNCHANGED protocolVars
  /\ IF part = "sync"         THEN SyncNext        ELSE UNCHANGED syncVars
  /\ IF part = "attachments"  THEN AttachmentsNext ELSE UNCHANGED uploadVars
  /\ IF part = "capture"      THEN CaptureNext     ELSE UNCHANGED captureVars
  /\ IF part = "instructions" THEN InstructionNext ELSE UNCHANGED instructionVars
  /\ IF part = "checkpoints"  THEN CheckpointNext  ELSE UNCHANGED checkpointVars
  /\ IF part = "terminals"    THEN TerminalNext    ELSE UNCHANGED terminalVars
  /\ IF part = "speech"       THEN SpeechNext      ELSE UNCHANGED speechVars
  /\ IF part = "reads"        THEN ReadsNext       ELSE UNCHANGED readVars
  /\ IF part = "storage"      THEN StorageNext     ELSE UNCHANGED storageVars
  /\ IF part = "cli"          THEN CliNext         ELSE UNCHANGED cliVars
  /\ IF part = "catalog"      THEN CatalogNext     ELSE UNCHANGED catalogVars
  /\ IF part = "ports"        THEN PortNext        ELSE UNCHANGED portVars
  /\ IF part = "changes"      THEN StreamNext      ELSE UNCHANGED streamVars
  /\ IF part = "threads"      THEN MetadataNext    ELSE UNCHANGED metadataVars

ComponentsSpec ==
  /\ ComponentsInit /\ [][ComponentsNext]_componentVars
  /\ part = "invocation" => InvocationFairness

(* Every component keeps its types.                                        *)
ComponentsTypeOK ==
  /\ DeliveryTypeOK /\ TreeTypeOK /\ InvocationTypeOK /\ ClaudeTypeOK /\ CodexTypeOK
  /\ LifecycleTypeOK /\ CloneTypeOK /\ LoginTypeOK /\ ProtocolTypeOK /\ SyncTypeOK
  /\ AttachmentsTypeOK /\ CaptureTypeOK /\ InstructionTypeOK /\ CheckpointTypeOK
  /\ TerminalTypeOK /\ SpeechTypeOK /\ ReadsTypeOK /\ StorageTypeOK /\ CliTypeOK
  /\ CatalogTypeOK /\ PortTypeOK /\ StreamTypeOK /\ MetadataTypeOK

(* An invocation comes to the end that was decided first:                  *)
(* FirstResultStands, and InvocationEnds when it is the one that runs.     *)
InvocationSound == FirstResultStands /\ (part = "invocation" => InvocationEnds)

(* A login is the only one and ends with its own verdict: OneLoginProcess, *)
(* VerdictIsOwn.                                                           *)
LoginsSound == OneLoginProcess /\ VerdictIsOwn

(* Nothing the runner keeps in files goes astray from what is on record of *)
(* it, whatever a crash leaves half done: RowsHaveBlobs,                   *)
(* InstructionRecords, CheckpointsKept.                                    *)
FilesAccountedFor == RowsHaveBlobs /\ InstructionRecords /\ CheckpointsKept

(* Every slot taken is held by somebody under way, and whoever waits does  *)
(* so for one of these: CaptureSlotOwned, ShellsOwned, SpeechSlotOwned,    *)
(* ReadSlotsOwned, CatalogsServed, ScansShared.                            *)
SlotsAccountedFor ==
  /\ CaptureSlotOwned /\ ShellsOwned /\ SpeechSlotOwned /\ ReadSlotsOwned
  /\ CatalogsServed /\ ScansShared

(* Those who wait for the database or a program are told what became of    *)
(* their request, and clients know what they edit and what has changed:    *)
(* CallersToldTheTruth, ResultTellsAll, EditsOnWhatWasSeen,                *)
(* ChangesReachWatchers.                                                   *)
AnswersTrue ==
  /\ CallersToldTheTruth /\ ResultTellsAll
  /\ EditsOnWhatWasSeen /\ ChangesReachWatchers
=============================================================================
