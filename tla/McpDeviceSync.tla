--------------------------- MODULE McpDeviceSync ----------------------------
(***************************************************************************)
(* Bringing the MCP servers of a device into the configuration of Claude:  *)
(* the plan (domain/mcp-device-sync.ts), its steps through the CLI         *)
(* (application/mcp-device-sync.ts) and the ledger of what it owns         *)
(* (infrastructure/files/mcp-device-sync-ledger.ts), in the one slot for   *)
(* changes of McpServerManagementService.  Somebody else edits the same    *)
(* configuration.  A launch is its digest; the CLI rewrites the file on    *)
(* its own, and nobody else does between the guard of a step and its run.  *)
(***************************************************************************)
EXTENDS Integers, Sequences, FiniteSets

CONSTANTS ServerNames,  \* names of MCP servers
          Digests,      \* digests of their launches
          MaxSyncs      \* bound: changes and synchronizations

ASSUME SyncAssumption == Digests \subseteq Nat \ {0} /\ MaxSyncs \in Nat

VARIABLES
  config,   \* name -> digest of the entry, Unrecognized or NoEntry
  ledger,   \* name -> digest of the entry the sync owns, or NoEntry
  wantedEver, \* name -> digests a device has ever asked for
  syncNo,   \* number of the last change or synchronization
  sync,     \* the one in the slot, or NoSync
  cliRuns   \* runs of the CLI under way: [by, name, kind, digest]

syncVars == <<config, ledger, wantedEver, syncNo, sync, cliRuns>>

NoEntry == 0
Unrecognized == -1
Entries == Digests \cup {NoEntry, Unrecognized}
NoSync == [stage |-> "none"]
DigestOf(entry) == IF entry = Unrecognized THEN NoEntry ELSE entry

SyncInit ==
  /\ config \in [ServerNames -> {NoEntry, Unrecognized}] /\ ledger = [n \in ServerNames |-> NoEntry]
  /\ wantedEver = [n \in ServerNames |-> {}] /\ syncNo = 0 /\ sync = NoSync /\ cliRuns = {}

----------------------------------------------------------------------------
(* The plan: an item for a name is its steps, the entry expected after     *)
(* them, and what the ledger says then, or after a failure.  Blocked: a    *)
(* missing command, a launch too large, or a budget used up.               *)
Item(steps, expected, owns, fallback) ==
  [steps |-> steps, expected |-> expected, owns |-> owns, fallback |-> fallback]
Idle(owns) == Item(<<>>, NoEntry, owns, NoEntry)

DesiredItem(want, have, owned, blocked) ==
  LET managed == have # NoEntry /\ owned # NoEntry /\ DigestOf(have) = owned IN
  CASE have # NoEntry /\ DigestOf(have) = want -> Idle(IF managed \/ ~blocked THEN want ELSE NoEntry)
    [] have # NoEntry /\ ~managed /\ DigestOf(have) # want -> Idle(NoEntry)
    [] have = NoEntry /\ blocked -> Idle(NoEntry)
    [] have = NoEntry /\ ~blocked -> Item(<<"add">>, want, want, NoEntry)
    [] managed /\ DigestOf(have) # want ->
         IF blocked THEN Idle(owned) ELSE Item(<<"remove", "add">>, want, want, owned)

StaleItem(have, owned, retained, blocked) ==
  IF owned = NoEntry \/ DigestOf(have) # owned THEN Idle(NoEntry)
  ELSE IF retained \/ blocked THEN Idle(owned)
  ELSE Item(<<"remove">>, NoEntry, NoEntry, owned)

PlanOf(want, retain, owned, blocked) == [n \in ServerNames |->
  IF want[n] # NoEntry THEN DesiredItem(want[n], config[n], owned[n], blocked[n])
  ELSE StaleItem(config[n], owned[n], n \in retain, blocked[n])]

----------------------------------------------------------------------------
(* The slot: one change or synchronization at a time.                      *)
SlotFree == sync = NoSync /\ syncNo < MaxSyncs

(* A request names a server once, to have it or to keep it; a ledger that  *)
(* cannot be read owns nothing.                                            *)
Requested(want, retain) == \A n \in retain : want[n] = NoEntry
LedgerRead == {ledger, [n \in ServerNames |-> NoEntry]}

(* syncDevice, synchronizeDevice: the ledger and the entries are read, and *)
(* the plan is made of them.                                               *)
StartSync(want, retain) ==
  /\ Requested(want, retain) /\ SlotFree /\ syncNo' = syncNo + 1
  /\ wantedEver' = [n \in ServerNames |-> wantedEver[n] \cup ({want[n]} \ {NoEntry})]
  /\ \E blocked \in [ServerNames -> BOOLEAN], owned \in LedgerRead :
       sync' = [stage |-> "applying", plan |-> PlanOf(want, retain, owned, blocked), owned |-> owned,
                applied |-> [n \in ServerNames |-> 0], progress |-> [n \in ServerNames |-> "none"],
                aborted |-> FALSE]
  /\ UNCHANGED <<config, ledger, cliRuns>>

(* What the McpDeviceSyncIo of the slot counts as under way.               *)
Running == {r \in cliRuns : r.by = syncNo}
StepsLeft(n) == sync.applied[n] < Len(sync.plan[n].steps) /\ sync.progress[n] = "none"
Progress(n, p) == sync' = [sync EXCEPT !.progress[n] = p]

(* Mutant: a step follows the plan as it was made.                         *)
RunStepUnguarded(n) ==
  /\ sync.stage = "applying" /\ ~sync.aborted /\ Running = {} /\ StepsLeft(n)
  /\ LET kind == sync.plan[n].steps[sync.applied[n] + 1] IN
       /\ cliRuns' = cliRuns \cup {[by |-> syncNo, name |-> n, kind |-> kind, digest |-> sync.plan[n].expected]}
       /\ UNCHANGED sync
  /\ UNCHANGED <<config, ledger, wantedEver, syncNo>>

(* apply: before a remove the entry is read again; it must still be the    *)
(* one the ledger owns.  That read may fail.                               *)
RunStep(n) ==
  /\ sync.stage = "applying" /\ ~sync.aborted /\ Running = {} /\ StepsLeft(n)
  /\ LET kind == sync.plan[n].steps[sync.applied[n] + 1] IN
       \/ /\ kind = "remove" => DigestOf(config[n]) = sync.owned[n]
          /\ cliRuns' = cliRuns \cup {[by |-> syncNo, name |-> n, kind |-> kind, digest |-> sync.plan[n].expected]}
          /\ UNCHANGED sync
       \/ kind = "remove" /\ DigestOf(config[n]) # sync.owned[n] /\ Progress(n, "diverged") /\ UNCHANGED cliRuns
       \/ kind = "remove" /\ Progress(n, "failed") /\ UNCHANGED cliRuns
  /\ UNCHANGED <<config, ledger, wantedEver, syncNo>>

(* A run ends: add refuses an entry that exists; either may fail, and its  *)
(* success may go unnoticed.  What nobody waits for any more still lands.  *)
Landed(r) == [config EXCEPT ![r.name] = IF r.kind = "remove" THEN NoEntry ELSE IF @ = NoEntry THEN r.digest ELSE @]
RunEnds(r) ==
  /\ r \in cliRuns /\ cliRuns' = cliRuns \ {r}
  /\ config' \in {config, Landed(r)}
  /\ IF r.by # syncNo \/ sync = NoSync \/ sync.stage # "applying" \/ sync.aborted THEN UNCHANGED sync
     ELSE LET done == sync.applied[r.name] + 1 IN
            \/ /\ config' # config
               /\ sync' = [sync EXCEPT !.applied[r.name] = done,
                             !.progress[r.name] = IF done = Len(sync.plan[r.name].steps) THEN "applied" ELSE @]
            \/ Progress(r.name, "failed")
  /\ UNCHANGED <<ledger, wantedEver, syncNo>>

(* The time for the work is over: no further step, and a run is left alone.*)
WorkAborts ==
  /\ sync # NoSync /\ sync.stage = "applying" /\ ~sync.aborted
  /\ sync' = [sync EXCEPT !.aborted = TRUE]
  /\ UNCHANGED <<config, ledger, wantedEver, syncNo, cliRuns>>

(* Mutant: the ledger takes over what it finds under a name it has tried.  *)
SettledAsFound(final) == [n \in ServerNames |->
  IF sync.plan[n].owns = NoEntry /\ sync.plan[n].fallback = NoEntry THEN NoEntry ELSE DigestOf(final[n])]

(* settleDeviceSync: a name is owned if its entry, read once more, is the  *)
(* one the steps should have made, or the one owned before.                *)
SettledEntries(final) == [n \in ServerNames |->
  LET item == sync.plan[n]
      verified == sync.progress[n] = "applied" /\ (IF item.expected = NoEntry THEN final[n] = NoEntry
                                                   ELSE DigestOf(final[n]) = item.expected)
      candidate == CASE sync.progress[n] = "diverged" -> NoEntry
                     [] sync.progress[n] # "diverged" /\ (item.steps = <<>> \/ verified) -> item.owns
                     [] OTHER -> item.fallback
  IN IF DigestOf(final[n]) = candidate THEN candidate ELSE NoEntry]

(* The end of the steps; unless the time to settle is over as well.        *)
SettleSync ==
  /\ sync # NoSync /\ sync.stage = "applying"
  /\ sync.aborted \/ (Running = {} /\ \A n \in ServerNames : ~StepsLeft(n))
  /\ sync' \in {[stage |-> "saving", owns |-> SettledEntries(config)], [stage |-> "ended"]}
  /\ UNCHANGED <<config, ledger, wantedEver, syncNo, cliRuns>>
(* save replaces the whole file; it may fail.                              *)
SaveLedger ==
  /\ sync # NoSync /\ sync.stage = "saving"
  /\ ledger' \in {ledger, sync.owns} /\ sync' = [stage |-> "ended"]
  /\ UNCHANGED <<config, wantedEver, syncNo, cliRuns>>

(* change: another change of the configuration through the same slot.      *)
StartChange(n, entry) ==
  /\ SlotFree /\ syncNo' = syncNo + 1 /\ sync' = [stage |-> "ended"]
  /\ cliRuns' = cliRuns \cup {[by |-> syncNo', name |-> n, kind |-> IF entry = NoEntry THEN "remove" ELSE "add", digest |-> entry]}
  /\ UNCHANGED <<config, ledger, wantedEver>>

(* Mutant: the slot is free when the request is answered.                  *)
SlotFreed ==
  /\ sync # NoSync /\ sync.stage = "ended" /\ sync' = NoSync
  /\ UNCHANGED <<config, ledger, wantedEver, syncNo, cliRuns>>

(* The slot is free when no I/O of it is under way any more.               *)
SlotDrained ==
  /\ sync # NoSync /\ sync.stage = "ended" /\ Running = {} /\ sync' = NoSync
  /\ UNCHANGED <<config, ledger, wantedEver, syncNo, cliRuns>>

(* Somebody else edits; the runner crashes, and its children with it.      *)
OtherEdits(n, entry) ==
  /\ cliRuns = {} /\ entry # config[n] /\ config' = [config EXCEPT ![n] = entry]
  /\ UNCHANGED <<ledger, wantedEver, syncNo, sync, cliRuns>>
SyncCrash ==
  /\ sync # NoSync /\ sync' = NoSync /\ cliRuns' = {}
  /\ config' \in {config} \cup {Landed(r) : r \in cliRuns}
  /\ UNCHANGED <<ledger, wantedEver, syncNo>>

SyncNext ==
  \/ (\E want \in [ServerNames -> Digests \cup {NoEntry}], retain \in SUBSET ServerNames : StartSync(want, retain))
  \/ (sync # NoSync /\ \E n \in ServerNames : RunStep(n)) \/ (\E r \in cliRuns : RunEnds(r))
  \/ WorkAborts \/ SettleSync \/ SaveLedger \/ SlotDrained \/ SyncCrash
  \/ (\E n \in ServerNames, entry \in Entries : OtherEdits(n, entry))
  \/ (\E n \in ServerNames, entry \in Digests \cup {NoEntry} : StartChange(n, entry))

SyncSpec == SyncInit /\ [][SyncNext]_syncVars

----------------------------------------------------------------------------
SyncTypeOK ==
  /\ config \in [ServerNames -> Entries] /\ ledger \in [ServerNames -> Digests \cup {NoEntry}]
  /\ sync.stage \in {"none", "applying", "saving", "ended"}
  /\ \A r \in cliRuns : r.name \in ServerNames /\ r.kind \in {"add", "remove"}

(* A synchronization removes no entry that the device never asked for: not *)
(* one that somebody wrote over its own between the plan and the step, nor *)
(* one that a crash or a lost save kept out of the ledger.                 *)
RemovesOnlyItsOwn ==
  [][\A r \in cliRuns \ cliRuns' :
       sync.stage = "applying" /\ r.kind = "remove" /\ config[r.name] # config'[r.name]
         => config[r.name] \in wantedEver[r.name]]_syncVars

(* claudeServers: the entries whose tools a turn may use without asking.   *)
Preapproved == {n \in ServerNames : ledger[n] # NoEntry /\ DigestOf(config[n]) = ledger[n]}

(* What the ledger owns is what the device asked for under that name, so   *)
(* that no entry of anybody else is approved without being asked.          *)
OwnsWhatWasAsked ==
  /\ \A n \in ServerNames : ledger[n] # NoEntry => ledger[n] \in wantedEver[n]
  /\ \A n \in Preapproved : config[n] \in wantedEver[n]

(* Nothing of a request that timed out writes beside the next one.         *)
OneConfigWriter == Cardinality(cliRuns) <= 1

(* Both: the ledger is sound, and so is the way it gets to be.             *)
SyncSound == OwnsWhatWasAsked /\ OneConfigWriter
=============================================================================
