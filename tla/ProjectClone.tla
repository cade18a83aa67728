---------------------------- MODULE ProjectClone ----------------------------
(***************************************************************************)
(* How folders become projects: the clone worker                           *)
(* (application/project-clone-service.ts), the folders it makes and        *)
(* removes (infrastructure/projects/clone.ts, clone-directory.ts), the     *)
(* registration of existing folders                                        *)
(* (application/project-registration-service.ts) and the rows of both      *)
(* (infrastructure/sqlite/clone-database.ts).  The storage answers calls   *)
(* in the order they are posted; an answer may be lost when it dies.  A    *)
(* project named n is cloned into the folder n below the projects root.    *)
(***************************************************************************)
EXTENDS Integers, Sequences

CONSTANTS Clones,        \* clone jobs, in the order they are created
          ProjectNames,  \* names of cloned projects, which are also their folders
          FolderNames,   \* names under which folders are registered
          CloneRestarts  \* bound: restarts of the runner

ASSUME CloneAssumption ==
  /\ Clones \subseteq Nat \ {0} /\ ProjectNames \subseteq Nat \ {0}
  /\ FolderNames \subseteq Nat \ {0} /\ CloneRestarts \in Nat

VARIABLES
  cloneRow,   \* job -> [status, name] of its row in project_clones
  managed,    \* rows of managed_projects: [name, path, by], by a job or 0
  folder,     \* path -> who made the folder there: a job, Other, or NoFolder
  storeCalls, \* calls posted to the storage and not executed
  storeUp,    \* the storage answers
  cloneRun,   \* the worker: this.active and the locals of run()
  cloneClosed,
  registering, \* the registration under way
  cloneRestarts

cloneVars == <<cloneRow, managed, folder, storeCalls, storeUp, cloneRun, cloneClosed,
               registering, cloneRestarts>>

NoFolder == -1
Other == 0
Active == {"queued", "running"}
Terminal == {"succeeded", "failed", "interrupted", "cancelled"}
CloneRows == [status: {"none"} \cup Active \cup Terminal, name: ProjectNames \cup {0}]
ManagedRows == [name: ProjectNames \cup FolderNames, path: ProjectNames, by: Clones \cup {0}]
NotRunning == [job |-> 0, stage |-> "off", aborted |-> FALSE, prepared |-> FALSE,
               publishing |-> FALSE, published |-> FALSE, throws |-> FALSE,
               reply |-> "none", next |-> 0]
NotRegistering == [stage |-> "idle", path |-> 0, name |-> 0, identity |-> NoFolder]

CloneInit ==
  /\ cloneRow = [j \in Clones |-> [status |-> "none", name |-> 0]]
  /\ managed = {} /\ folder = [n \in ProjectNames |-> NoFolder]
  /\ storeCalls = <<>> /\ storeUp = TRUE
  /\ cloneRun = NotRunning /\ cloneClosed = FALSE
  /\ registering = NotRegistering /\ cloneRestarts = 0

----------------------------------------------------------------------------
(* The rows.                                                               *)
CloneStatus(j) == cloneRow[j].status
ActiveNamed(n) == \E j \in Clones : cloneRow[j].name = n /\ CloneStatus(j) \in Active
ManagedNamed(n) == \E m \in managed : m.name = n
NameTaken(n) == ActiveNamed(n) \/ ManagedNamed(n)
SetStatus(j, s) == cloneRow' = [cloneRow EXCEPT ![j].status = s]
InterruptedRows == [j \in Clones |->
  IF CloneStatus(j) \in Active THEN [cloneRow[j] EXCEPT !.status = "interrupted"] ELSE cloneRow[j]]

(* create: one row per key, unless the name is taken.  Its quotas only     *)
(* refuse, and a replay only reads.                                        *)
CreateClone(j, n) ==
  /\ ~cloneClosed /\ storeUp /\ CloneStatus(j) = "none" /\ ~NameTaken(n)
  /\ \A k \in Clones : k < j => CloneStatus(k) # "none"
  /\ cloneRow' = [cloneRow EXCEPT ![j] = [status |-> "queued", name |-> n]]
  /\ UNCHANGED <<managed, folder, storeCalls, storeUp, cloneRun, cloneClosed, registering, cloneRestarts>>

Queued == {j \in Clones : CloneStatus(j) = "queued"}
Oldest(S) == CHOOSE j \in S : \A k \in S : j <= k

(* Each operation, with its answer to the worker, lost if the storage died.*)
Told(x) == cloneRun' = [cloneRun EXCEPT !.reply = IF storeUp' THEN x ELSE "lost"]

ClaimClone ==
  IF Queued = {} THEN Told("nothing") /\ UNCHANGED cloneRow
  ELSE LET j == Oldest(Queued) IN
         /\ SetStatus(j, "running")
         /\ cloneRun' = [cloneRun EXCEPT !.reply = IF storeUp' THEN "claimed" ELSE "lost", !.next = j]

(* finishClone: a row that is not running any more stays as it is.         *)
FinishClone(j, s) ==
  LET n == cloneRow[j].name IN
  IF CloneStatus(j) # "running" THEN Told(CloneStatus(j)) /\ UNCHANGED <<cloneRow, managed>>
  ELSE IF s = "succeeded" /\ ManagedNamed(n) THEN Told("lost") /\ UNCHANGED <<cloneRow, managed>>
  ELSE /\ Told(s) /\ SetStatus(j, s)
       /\ managed' = IF s = "succeeded" THEN managed \cup {[name |-> n, path |-> n, by |-> j]} ELSE managed

CancelClone(j) == IF CloneStatus(j) \in Active THEN SetStatus(j, "cancelled") ELSE UNCHANGED cloneRow

(* Mutant: the folder may be a project already, under another name.        *)
RegisterManagedAgain(p, n) ==
  IF ActiveNamed(p) \/ NameTaken(n) THEN UNCHANGED managed
  ELSE managed' \in {managed, managed \cup {[name |-> n, path |-> p, by |-> 0]}}

(* registerManagedProject: a known folder, the destination of a clone, a   *)
(* taken name or a full runner leave the rows alone.                       *)
RegisterManagedProject(p, n) ==
  IF (\E m \in managed : m.path = p) \/ ActiveNamed(p) \/ NameTaken(n) THEN UNCHANGED managed
  ELSE managed' \in {managed, managed \cup {[name |-> n, path |-> p, by |-> 0]}}

----------------------------------------------------------------------------
(* The channel: the head call is executed and answered, fails, or is       *)
(* executed by a storage that dies before its answer is out.               *)
Call(op, j, with) == [op |-> op, job |-> j, with |-> with]
OfWorker == {"claim", "get", "finish"}

StorageAnswers ==
  /\ storeCalls # <<>> /\ storeCalls' = Tail(storeCalls)
  /\ LET call == Head(storeCalls) IN
       /\ registering' = IF call.op = "register" THEN NotRegistering ELSE registering
       /\ \/ /\ storeUp /\ storeUp' \in BOOLEAN
             /\ \/ call.op = "claim" /\ ClaimClone /\ UNCHANGED managed
                \/ call.op = "get" /\ Told(CloneStatus(call.job)) /\ UNCHANGED <<cloneRow, managed>>
                \/ call.op = "finish" /\ FinishClone(call.job, call.with)
                \/ /\ call.op = "cancel" /\ CancelClone(call.job) /\ UNCHANGED managed
                   /\ cloneRun' = [cloneRun EXCEPT !.aborted = @ \/ (storeUp' /\ cloneRun.job = call.job)]
                \/ /\ call.op = "register" /\ RegisterManagedProject(registering.path, registering.name)
                   /\ UNCHANGED <<cloneRow, cloneRun>>
          \/ /\ cloneRun' = IF call.op \in OfWorker THEN [cloneRun EXCEPT !.reply = "lost"] ELSE cloneRun
             /\ UNCHANGED <<cloneRow, managed, storeUp>>
  /\ UNCHANGED <<folder, cloneClosed, cloneRestarts>>

CancelRequest(j) ==
  /\ storeUp /\ CloneStatus(j) \in Active
  /\ Call("cancel", j, "") \notin {storeCalls[i] : i \in DOMAIN storeCalls}
  /\ storeCalls' = Append(storeCalls, Call("cancel", j, ""))
  /\ UNCHANGED <<cloneRow, managed, folder, storeUp, cloneRun, cloneClosed, registering, cloneRestarts>>

----------------------------------------------------------------------------
(* The worker.  A step ends in the next await: a call, or the work on the  *)
(* folder.                                                                 *)
Calls(run, call) == cloneRun' = [run EXCEPT !.reply = "none"] /\ storeCalls' = Append(storeCalls, call)
Works(run) == cloneRun' = [run EXCEPT !.reply = "none"] /\ UNCHANGED storeCalls
CloneAnswered(stage) == cloneRun.stage = stage /\ cloneRun.reply # "none"
UnchangedByWorker == UNCHANGED <<cloneRow, managed, storeUp, cloneClosed, registering, cloneRestarts>>

Catch(run) ==
  Calls([run EXCEPT !.stage = "catching"],
        Call("finish", run.job, IF cloneClosed THEN "interrupted"
                                ELSE IF run.aborted THEN "cancelled" ELSE "failed"))

WakeCloner ==
  /\ cloneRun.stage = "off" /\ ~cloneClosed /\ storeUp
  /\ Calls([cloneRun EXCEPT !.stage = "claiming"], Call("claim", 0, ""))
  /\ UNCHANGED folder /\ UnchangedByWorker

(* The claimed job becomes the active one, and is looked at once more.     *)
Claimed ==
  /\ CloneAnswered("claiming")
  /\ LET run == [NotRunning EXCEPT !.job = cloneRun.next] IN
       IF cloneRun.reply # "claimed" THEN Works([cloneRun EXCEPT !.stage = "off"])
       ELSE IF cloneClosed THEN Works([run EXCEPT !.stage = "cloning", !.aborted = TRUE])
       ELSE Calls([run EXCEPT !.stage = "looking"], Call("get", run.job, ""))
  /\ UNCHANGED folder /\ UnchangedByWorker

(* A look that fails ends the worker; the job stays the active one.        *)
LookedAt ==
  /\ CloneAnswered("looking")
  /\ IF cloneRun.reply = "lost" THEN Works([cloneRun EXCEPT !.stage = "off"])
     ELSE Works([cloneRun EXCEPT !.stage = "cloning", !.aborted = @ \/ cloneRun.reply # "running"])
  /\ UNCHANGED folder /\ UnchangedByWorker

(* clone(): mkdir is exclusive, so that the folder is the job's own.       *)
MakesFolder ==
  /\ cloneRun.stage = "cloning"
  /\ LET n == cloneRow[cloneRun.job].name IN
       \/ /\ ~cloneRun.aborted /\ folder[n] = NoFolder
          /\ folder' = [folder EXCEPT ![n] = cloneRun.job]
          /\ Works([cloneRun EXCEPT !.stage = "copying"])
       \/ Catch(cloneRun) /\ UNCHANGED folder
  /\ UnchangedByWorker

(* git ends, or the clone is aborted; what failed is rolled back first.    *)
Removed == [folder EXCEPT ![cloneRow[cloneRun.job].name] = NoFolder]
CopyEnds ==
  /\ cloneRun.stage = "copying"
  /\ \/ /\ ~cloneRun.aborted
        /\ Calls([cloneRun EXCEPT !.stage = "finishing", !.prepared = TRUE, !.publishing = TRUE],
                 Call("finish", cloneRun.job, "succeeded"))
        /\ UNCHANGED folder
     \/ Catch(cloneRun) /\ folder' \in {folder, Removed}
     \/ cloneRun.aborted /\ Catch([cloneRun EXCEPT !.prepared = TRUE]) /\ UNCHANGED folder
  /\ UnchangedByWorker

Finished ==
  /\ CloneAnswered("finishing")
  /\ IF cloneRun.reply = "lost" THEN Catch(cloneRun)
     ELSE Works([cloneRun EXCEPT !.stage = "cleaning", !.publishing = FALSE,
                                 !.published = cloneRun.reply = "succeeded"])
  /\ UNCHANGED folder /\ UnchangedByWorker

(* Mutant: an answer that was lost is taken for a failure.                 *)
CaughtAsFailed ==
  /\ CloneAnswered("catching")
  /\ Works([cloneRun EXCEPT !.stage = "cleaning", !.throws = cloneRun.reply = "lost"])
  /\ UNCHANGED folder /\ UnchangedByWorker

(* finally: a lost answer to the publication is looked up; no answer to    *)
(* that either means published.  A failure to record the end throws.       *)
Caught ==
  /\ CloneAnswered("catching")
  /\ LET run == [cloneRun EXCEPT !.throws = cloneRun.reply = "lost"] IN
       IF run.publishing THEN Calls([run EXCEPT !.stage = "checking"], Call("get", run.job, ""))
       ELSE Works([run EXCEPT !.stage = "cleaning"])
  /\ UNCHANGED folder /\ UnchangedByWorker
Checked ==
  /\ CloneAnswered("checking")
  /\ Works([cloneRun EXCEPT !.stage = "cleaning", !.published = cloneRun.reply \in {"succeeded", "lost"}])
  /\ UNCHANGED folder /\ UnchangedByWorker

(* The folder of what was not published is removed, if that works; only    *)
(* then is the job not the active one any more.                            *)
CleansUp ==
  /\ cloneRun.stage = "cleaning"
  /\ LET removes == cloneRun.prepared /\ ~cloneRun.published
         ends(throws) == IF throws \/ cloneClosed THEN Works(NotRunning)
                         ELSE Calls([NotRunning EXCEPT !.stage = "claiming"], Call("claim", 0, ""))
     IN \/ folder' = (IF removes THEN Removed ELSE folder) /\ ends(cloneRun.throws)
        \/ removes /\ UNCHANGED folder /\ ends(TRUE)
  /\ UnchangedByWorker

----------------------------------------------------------------------------
(* register: the folder is retained, with who made it for its identity...  *)
RetainFolder(p, n) ==
  /\ registering.stage = "idle" /\ ~cloneClosed /\ folder[p] # NoFolder /\ storeUp
  /\ registering' = [stage |-> "retained", path |-> p, name |-> n, identity |-> folder[p]]
  /\ UNCHANGED <<cloneRow, managed, folder, storeCalls, storeUp, cloneRun, cloneClosed, cloneRestarts>>

(* ... admit: it must be the one retained, and not the destination of the  *)
(* active clone, whose row may be terminal while its folder is removed.    *)
(* The last look at the folder is younger than any step of a rollback that *)
(* could have ended before the call is posted.                             *)
Reserves(p) == cloneRun.job # 0 /\ cloneRow[cloneRun.job].name = p
Admit ==
  /\ registering.stage = "retained"
  /\ IF folder[registering.path] = registering.identity /\ ~Reserves(registering.path) /\ ~cloneClosed
     THEN /\ storeCalls' = Append(storeCalls, Call("register", 0, ""))
          /\ registering' = [registering EXCEPT !.stage = "posted"]
     ELSE registering' = NotRegistering /\ UNCHANGED storeCalls
  /\ UNCHANGED <<cloneRow, managed, folder, storeUp, cloneRun, cloneClosed, cloneRestarts>>

(* Somebody else makes a folder.                                           *)
OtherMakesFolder(p) ==
  /\ folder[p] = NoFolder /\ folder' = [folder EXCEPT ![p] = Other]
  /\ UNCHANGED <<cloneRow, managed, storeCalls, storeUp, cloneRun, cloneClosed, registering, cloneRestarts>>

(* close aborts, and interrupts what is left once the worker has ended; a  *)
(* new process interrupts what a crash has left.                           *)
CloseCloner ==
  /\ ~cloneClosed /\ cloneClosed' = TRUE
  /\ cloneRun' = [cloneRun EXCEPT !.aborted = @ \/ cloneRun.job # 0]
  /\ UNCHANGED <<cloneRow, managed, folder, storeCalls, storeUp, registering, cloneRestarts>>
ClonerClosed ==
  /\ cloneClosed /\ cloneRun.stage = "off" /\ storeCalls = <<>> /\ storeUp
  /\ cloneRow' = InterruptedRows
  /\ UNCHANGED <<managed, folder, storeCalls, storeUp, cloneRun, cloneClosed, registering, cloneRestarts>>
RestartCloner ==
  /\ cloneRestarts < CloneRestarts /\ cloneRestarts' = cloneRestarts + 1
  /\ cloneRow' = InterruptedRows
  /\ storeCalls' = <<>> /\ storeUp' = TRUE /\ cloneRun' = NotRunning /\ cloneClosed' = FALSE
  /\ registering' = NotRegistering
  /\ UNCHANGED <<managed, folder>>

CloneNext ==
  \/ (\E j \in Clones, n \in ProjectNames : CreateClone(j, n))
  \/ (\E j \in Clones : CancelRequest(j)) \/ StorageAnswers
  \/ WakeCloner \/ Claimed \/ LookedAt \/ MakesFolder \/ CopyEnds \/ Finished \/ Caught \/ Checked \/ CleansUp
  \/ (\E p \in ProjectNames, n \in FolderNames : RetainFolder(p, n)) \/ Admit \/ (\E p \in ProjectNames : OtherMakesFolder(p))
  \/ CloseCloner \/ ClonerClosed \/ RestartCloner

CloneSpec == CloneInit /\ [][CloneNext]_cloneVars

----------------------------------------------------------------------------
CloneTypeOK ==
  /\ cloneRow \in [Clones -> CloneRows] /\ managed \subseteq ManagedRows
  /\ folder \in [ProjectNames -> Clones \cup {NoFolder, Other}]
  /\ cloneRun.job \in Clones \cup {0} /\ storeUp \in BOOLEAN /\ cloneClosed \in BOOLEAN

(* The folder of a project is never removed under it: neither when the     *)
(* answer to its publication is lost, nor when a folder is registered that *)
(* a cancelled clone is about to remove.                                   *)
ProjectsKeepFolders == \A m \in managed : folder[m.path] # NoFolder

(* A folder is one project, a name is one project, and a clone that did    *)
(* not succeed left none.                                                  *)
OneProjectPerFolder ==
  /\ \A m, k \in managed : m.path = k.path \/ m.name = k.name => m = k
  /\ \A m \in managed : m.by # 0 => CloneStatus(m.by) = "succeeded" /\ folder[m.path] = m.by

(* Both: what the database says of folders and what is on disk agree.      *)
ClonedFolders == ProjectsKeepFolders /\ OneProjectPerFolder
=============================================================================
